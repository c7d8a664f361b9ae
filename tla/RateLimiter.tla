---------------------------- MODULE RateLimiter ----------------------------
(***************************************************************************)
(* The sliding-window rate limiter of services/rate_limiter: concurrent    *)
(* calls of RateLimitClient::apply_limits under ONE route name.  A call reads the *)
(* clock, sends a command to Redis and gets the answer in separate steps,  *)
(* so other calls, and time, may come between any two of them.             *)
(*                                                                         *)
(* A Redis sorted set whose members are their own scores (zadd(key, t, t)) *)
(* is the set of its timestamps: two increments at one clock reading leave *)
(* one member.                                                             *)
(***************************************************************************)
EXTENDS Naturals, Sequences, FiniteSets

CONSTANTS
    Requests,       \* calls of apply_limits
    Ips,            \* clients known by their address only
    ApiKeys,        \* clients that send an API key
    QuotaLists,     \* the quotas handlers of this route pass, each list in order
    CustomAnswers,  \* what get_custom_quotas may answer (<<>> when there are none or the query fails)
    EmergencyModes, \* the values the server's flag has, before and after restarts
    RedisMayFail,   \* whether a Redis command may return an error
    MaxTtl,         \* MAX_TTL_MICROS, in clock ticks
    MaxInFlight,    \* ConcurrencyLimitLayer: calls running at once
    MaxTime         \* bound on the clock

QuotaType == {"IP", "Key", "Global"}
Quota == [type : QuotaType, limit : Nat, period : Nat]

ASSUME ConstantsAssumption ==
    /\ IsFiniteSet(Requests)
    /\ Ips \cap ApiKeys = {}
    /\ QuotaLists \subseteq Seq(Quota)
    /\ CustomAnswers \subseteq Seq(Quota)
    /\ EmergencyModes \subseteq BOOLEAN
    /\ RedisMayFail \in BOOLEAN
    /\ MaxTtl \in Nat \ {0}
    /\ MaxInFlight \in Nat \ {0}
    /\ MaxTime \in Nat

Clients == Ips \cup ApiKeys
GlobalKey == "global"           \* `key`, the route's own name
Keys == Clients \cup {GlobalKey}

ASSUME GlobalKeyAssumption == GlobalKey \notin Clients

NoQuota == [type |-> "Global", limit |-> 0, period |-> 0]

VARIABLES
    now,        \* the clock (Utc::now)
    zset,       \* Redis: key -> its timestamps
    expires,    \* Redis: key -> when EXPIRE removes it
    pc,         \* request -> where its call stands
    quotas,     \* request -> the quotas its handler passes
    client,     \* request -> the prefix of its key: API key if sent, else address
    at,         \* request -> the reading its check, then its global increment, carries
    stamp,      \* request -> the reading its increment of the prefixed key carries
    plan,       \* request -> the quotas it has still to check, with their positions
    checking,   \* request -> the quota whose check is on its way
    result      \* request -> what apply_limits returned

\* History, never read by a guard: `passes` records each quota check a call
\* passed, `readNo` the order in which the checks read the clock.
VARIABLES reads, readNo, passes

input == <<quotas, client>>
vars == <<now, zset, expires, pc, input, at, stamp, plan, checking, result,
          reads, readNo, passes>>
history == <<reads, readNo, passes>>

PcState == {"idle", "incrClient", "select", "next", "check", "incrGlobal", "done"}
Result == {"none", "unlimited", "limited", "exceeded", "forbidden", "unavailable"}

----------------------------------------------------------------------------
\* The quotas of a call

Numbered(list) == {[pos |-> i, quota |-> list[i]] : i \in DOMAIN list}
HasQuota(list, type) == \E i \in DOMAIN list : list[i].type = type
KeyOnly(list) == HasQuota(list, "Key") /\ ~HasQuota(list, "IP")

\* Custom quotas replace the handler's; otherwise a caller with a key is spared
\* the IP quotas of a route that has key quotas.
EffectiveQuotas(c, list, custom) ==
    IF c \in Ips THEN Numbered(list)
    ELSE IF custom # <<>> THEN Numbered(custom)
    ELSE {e \in Numbered(list) : HasQuota(list, "Key") => e.quota.type # "IP"}

KeyOf(c, quota) == IF quota.type = "Global" THEN GlobalKey ELSE c

\* What zrangebyscore returns, the request count made of it and the verdict
InWindow(key, t, period) == {x \in zset[key] : x <= t /\ t <= x + period}
\* Mutant: the call's own entry is counted too.
OwnEntryCounted(seen) == Cardinality(seen)

RequestCount(seen) == IF seen = {} THEN 0 ELSE Cardinality(seen) - 1
\* Mutant: off by one.
ExceededTooLate(quota, requests) == requests > quota.limit

Exceeded(quota, requests) == requests >= quota.limit

\* increment_key: drop the expired members, add the reading, renew the TTL
Trimmed(members, t) == {x \in members : x + MaxTtl > t}

Running == {q \in Requests : pc[q] \notin {"idle", "done"}}

----------------------------------------------------------------------------
Init ==
    /\ now = 1
    /\ zset = [k \in Keys |-> {}]
    /\ expires = [k \in Keys |-> 0]
    /\ pc = [q \in Requests |-> "idle"]
    /\ quotas \in [Requests -> QuotaLists]
    /\ client \in [Requests -> Clients]
    /\ at = [q \in Requests |-> 0]
    /\ stamp = [q \in Requests |-> 0]
    /\ plan = [q \in Requests |-> {}]
    /\ checking = [q \in Requests |-> NoQuota]
    /\ result = [q \in Requests |-> "none"]
    /\ reads = 0
    /\ readNo = [q \in Requests |-> 0]
    /\ passes = {}

Finish(q, r) ==
    /\ pc' = [pc EXCEPT ![q] = "done"]
    /\ result' = [result EXCEPT ![q] = r]

\* Admission: the early returns before any counter is touched.
Refuse(q) ==
    /\ pc[q] = "idle"
    /\ Cardinality(Running) < MaxInFlight
    /\ \/ /\ quotas[q] = <<>>
          /\ Finish(q, "unlimited")
       \/ /\ quotas[q] # <<>>
          /\ client[q] \in ApiKeys \/ KeyOnly(quotas[q])  \* an invalid key, or none
          /\ Finish(q, "forbidden")
       \/ /\ quotas[q] # <<>>
          /\ client[q] \in Ips /\ ~KeyOnly(quotas[q])
          /\ TRUE \in EmergencyModes
          /\ Finish(q, "unavailable")
    /\ UNCHANGED <<now, zset, expires, input, at, stamp, plan, checking, history>>

\* An admitted call reads the clock for its own key's increment.
Admit(q) ==
    /\ pc[q] = "idle"
    /\ Cardinality(Running) < MaxInFlight
    /\ quotas[q] # <<>>
    /\ client[q] \in Ips => ~KeyOnly(quotas[q]) /\ FALSE \in EmergencyModes
    /\ stamp' = [stamp EXCEPT ![q] = now]
    /\ pc' = [pc EXCEPT ![q] = "incrClient"]
    /\ UNCHANGED <<now, zset, expires, input, at, plan, checking, result, history>>

ExecIncrement(key, t) ==
    /\ zset' = [zset EXCEPT ![key] = Trimmed(zset[key], t) \cup {t}]
    /\ expires' = [expires EXCEPT ![key] = now + MaxTtl]

IncrementClient(q) ==
    /\ pc[q] = "incrClient"
    /\ ExecIncrement(client[q], stamp[q])
    /\ pc' = [pc EXCEPT ![q] = "select"]
    /\ UNCHANGED <<now, input, at, stamp, plan, checking, result, history>>

\* A failed increment lets the call through unlimited; the pipeline may or may
\* not have reached Redis.
IncrementFails(q) ==
    /\ RedisMayFail
    /\ \/ pc[q] = "incrClient" /\ (ExecIncrement(client[q], stamp[q]) \/ UNCHANGED <<zset, expires>>)
       \/ pc[q] = "incrGlobal" /\ (ExecIncrement(GlobalKey, at[q]) \/ UNCHANGED <<zset, expires>>)
    /\ Finish(q, "unlimited")
    /\ UNCHANGED <<now, input, at, stamp, plan, checking, history>>

SelectQuotas(q) ==
    /\ pc[q] = "select"
    /\ \E custom \in CustomAnswers :
          plan' = [plan EXCEPT ![q] = EffectiveQuotas(client[q], quotas[q], custom)]
    /\ pc' = [pc EXCEPT ![q] = "next"]
    /\ UNCHANGED <<now, zset, expires, input, at, stamp, checking, result, history>>

\* check_requests reads the clock for the first quota left.
BeginCheck(q) ==
    /\ pc[q] = "next"
    /\ \E e \in plan[q] :
          /\ \A f \in plan[q] : e.pos <= f.pos
          /\ checking' = [checking EXCEPT ![q] = e.quota]
          /\ plan' = [plan EXCEPT ![q] = @ \ {e}]
    /\ at' = [at EXCEPT ![q] = now]
    /\ pc' = [pc EXCEPT ![q] = "check"]
    /\ reads' = reads + 1
    /\ readNo' = [readNo EXCEPT ![q] = reads + 1]
    /\ UNCHANGED <<now, zset, expires, input, stamp, result, passes>>

Seen(q) == InWindow(KeyOf(client[q], checking[q]), at[q], checking[q].period)
Passing(q) == ~Exceeded(checking[q], RequestCount(Seen(q)))

PassCheck(q) ==
    /\ pc[q] = "check"
    /\ Passing(q)
    /\ passes' = passes \cup {[req |-> q, quota |-> checking[q], no |-> readNo[q]]}
    /\ pc' = [pc EXCEPT ![q] = "next"]
    /\ UNCHANGED <<now, zset, expires, input, at, stamp, plan, checking, result, reads, readNo>>

\* 429: the call's own timestamp stays under its prefixed key.
DenyCheck(q) ==
    /\ pc[q] = "check"
    /\ ~Passing(q)
    /\ Finish(q, "exceeded")
    /\ UNCHANGED <<now, zset, expires, input, at, stamp, plan, checking, history>>

\* A failed check skips that quota.
CheckFails(q) ==
    /\ RedisMayFail
    /\ pc[q] = "check"
    /\ pc' = [pc EXCEPT ![q] = "next"]
    /\ UNCHANGED <<now, zset, expires, input, at, stamp, plan, checking, result, history>>

\* Every quota passed: the clock is read for the route's global counter.
AllChecked(q) ==
    /\ pc[q] = "next"
    /\ plan[q] = {}
    /\ at' = [at EXCEPT ![q] = now]
    /\ pc' = [pc EXCEPT ![q] = "incrGlobal"]
    /\ UNCHANGED <<now, zset, expires, input, stamp, plan, checking, result, history>>

\* Mutant: the second increment goes to the prefixed key again.
IncrementPrefixedAgain(q) ==
    /\ pc[q] = "incrGlobal"
    /\ ExecIncrement(client[q], at[q])
    /\ Finish(q, "limited")
    /\ UNCHANGED <<now, input, at, stamp, plan, checking, history>>

IncrementGlobal(q) ==
    /\ pc[q] = "incrGlobal"
    /\ ExecIncrement(GlobalKey, at[q])
    /\ Finish(q, "limited")
    /\ UNCHANGED <<now, input, at, stamp, plan, checking, history>>

\* Redis removes a key whose TTL has run out.
ExpireKey(k) ==
    /\ zset[k] # {}
    /\ expires[k] <= now
    /\ zset' = [zset EXCEPT ![k] = {}]
    /\ UNCHANGED <<now, expires, pc, input, at, stamp, plan, checking, result, history>>

Tick ==
    /\ now < MaxTime
    /\ now' = now + 1
    /\ UNCHANGED <<zset, expires, pc, input, at, stamp, plan, checking, result, history>>

Step(q) ==
    \/ Refuse(q) \/ Admit(q)
    \/ IncrementClient(q) \/ IncrementFails(q)
    \/ SelectQuotas(q) \/ BeginCheck(q)
    \/ PassCheck(q) \/ DenyCheck(q) \/ CheckFails(q)
    \/ AllChecked(q) \/ IncrementGlobal(q)

Next ==
    \/ \E q \in Requests : Step(q)
    \/ \E k \in Keys : ExpireKey(k)
    \/ Tick

Spec == Init /\ [][Next]_vars
----------------------------------------------------------------------------
\* Properties

TypeOK ==
    /\ now \in Nat /\ reads \in Nat
    /\ zset \in [Keys -> SUBSET Nat]
    /\ expires \in [Keys -> Nat]
    /\ pc \in [Requests -> PcState]
    /\ quotas \in [Requests -> QuotaLists]
    /\ client \in [Requests -> Clients]
    /\ at \in [Requests -> Nat]
    /\ stamp \in [Requests -> Nat]
    /\ plan \in [Requests -> SUBSET [pos : Nat, quota : Quota]]
    /\ checking \in [Requests -> Quota]
    /\ result \in [Requests -> Result]
    /\ readNo \in [Requests -> Nat]
    /\ passes \subseteq [req : Requests, quota : Quota, no : Nat]

PassesOf(c, z) == {p \in passes : p.quota = z /\ client[p.req] = c}
Passed(z) == {p.req : p \in {r \in passes : r.quota = z}}
Recent(times, z) == {t \in times : t + z.period > now}
CheckedQuotas == {p.quota : p \in passes}

\* At every moment, the calls of one client that got past a per-client quota
\* within the last period carry at most `limit` timestamps, however the calls
\* interleave and however long each waits between reading the clock and
\* reaching Redis (client.rs apply_limits, check_requests, increment_key).
\* Timestamps are counted, not calls: two calls in one clock tick share one.
SlidingWindowLimit ==
    \A c \in Clients, z \in CheckedQuotas :
        z.type # "Global" /\ z.period <= MaxTtl =>
            Cardinality(Recent({stamp[p.req] : p \in PassesOf(c, z)}, z)) <= z.limit

\* The global counter is incremented only after the checks (client.rs:130), so
\* calls that have passed and not yet counted are invisible to the others: the
\* calls past a global quota, counted in the last period or still on their way
\* to be counted, exceed its limit by at most the number of concurrent calls.
GlobalOvershootBound ==
    \A z \in CheckedQuotas :
        z.type = "Global" /\ z.period <= MaxTtl =>
            Cardinality(Recent({at[q] : q \in {p \in Passed(z) : result[p] = "limited"}}, z))
              + Cardinality(Passed(z) \cap Running)
              <= z.limit + MaxInFlight

\* A client is refused by a per-client quota only on account of its own calls:
\* at least `limit` other timestamps of calls it made fall in the window the
\* check looked at; no other client's traffic and no stale entry counts.
DenialIsOwnDoing ==
    \A q \in Requests :
        result[q] = "exceeded" /\ checking[q].type # "Global" =>
            Cardinality({stamp[p] : p \in {r \in Requests \ {q} :
                            /\ client[r] = client[q]
                            /\ stamp[r] # 0
                            /\ stamp[r] <= at[q]
                            /\ at[q] <= stamp[r] + checking[q].period}})
              >= checking[q].limit
============================================================================

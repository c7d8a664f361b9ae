------------------------------- MODULE LiveUrl -------------------------------
(***************************************************************************)
(* The broadcast URL of a match that is being played                       *)
(* (routes/v1/matches/live_url.rs): Steam is asked to spectate it, behind  *)
(* a cache and with retries, and the match is entered in the Redis hash    *)
(* `spectated_matches`, of which each field is given a lifespan by a       *)
(* second command.                                                         *)
(***************************************************************************)
EXTENDS Naturals

CONSTANTS
    Calls,      \* requests
    Matches,    \* match ids, in the order the matches were played
    Retries,    \* retries(3)
    CacheTtl,   \* lifespan of a response: 60 seconds
    FieldTtl,   \* hexpire: 900 seconds
    MaxTime     \* bound on the clock

ASSUME ConstantsAssumption ==
    /\ Matches \subseteq Nat \ {0}
    /\ {Retries, CacheTtl, FieldTtl, MaxTime} \subseteq Nat \ {0}

VARIABLES
    now,        \* the clock
    newest,     \* the newest match in match_info four hours ago
    cached,     \* match -> the response of spectate_match and when it was stored
    field,      \* match -> its field in spectated_matches
    pc,         \* call -> where it stands
    match,      \* call -> its match
    tries,      \* call -> attempts made
    holder      \* match -> the calls that hold the lock of its key

\* History, never read by a guard.
VARIABLES
    orphan,     \* matches entered by a call that never came to the second command
    spectated   \* match -> when Steam last gave its URL

vars == <<now, newest, cached, field, pc, match, tries, holder, orphan, spectated>>

\* Every response of the proxy is kept, one without a URL too.
Responses == {"url", "refused", "no_result"}
NoField == [set |-> FALSE, expires |-> 0]       \* expires = 0: never
Waiting == {"limits", "live", "try", "steam", "hset", "hexpire"}

Init ==
    /\ now = 1 /\ newest = 0
    /\ cached = [m \in Matches |-> [at |-> 0, response |-> "no_result"]]
    /\ field = [m \in Matches |-> NoField]
    /\ pc = [c \in Calls |-> "idle"]
    /\ match \in [Calls -> Matches]
    /\ tries = [c \in Calls |-> 0]
    /\ holder = [m \in Matches |-> {}]
    /\ orphan = {}
    /\ spectated = [m \in Matches |-> 0]

Goto(c, label) == pc' = [pc EXCEPT ![c] = label]
redis == <<field, orphan>>
steam == <<cached, tries, holder, spectated>>

Begin(c) ==
    /\ pc[c] = "idle"
    /\ Goto(c, "limits")
    /\ UNCHANGED <<now, newest, match, redis, steam>>

ApplyLimits(c) ==
    /\ pc[c] = "limits"
    /\ Goto(c, "live") \/ Goto(c, "error")
    /\ UNCHANGED <<now, newest, match, redis, steam>>

CheckLive(c) ==
    /\ pc[c] = "live"
    /\ \/ match[c] >= newest /\ Goto(c, "try")
       \/ match[c] < newest /\ Goto(c, "bad_request")
       \/ Goto(c, "error")                          \* the query fails
    /\ UNCHANGED <<now, newest, match, redis, steam>>

----------------------------------------------------------------------------
\* spectate_match, sync_writes = "by_key"

\* Mutant: calls for a match do not wait for each other.
Unlocked(c) == TRUE
LockFree(c) == holder[match[c]] = {}

Alive(m) == cached[m].at # 0 /\ now < cached[m].at + CacheTtl
Outcome(response) == IF response = "url" THEN "hset" ELSE "error"

Hit(c) ==
    /\ pc[c] = "try" /\ LockFree(c) /\ Alive(match[c])
    /\ Goto(c, Outcome(cached[match[c]].response))
    /\ UNCHANGED <<now, newest, match, redis, steam>>

Miss(c) ==
    /\ pc[c] = "try" /\ LockFree(c) /\ ~Alive(match[c])
    /\ holder' = [holder EXCEPT ![match[c]] = @ \cup {c}]
    /\ tries' = [tries EXCEPT ![c] = @ + 1]
    /\ Goto(c, "steam")
    /\ UNCHANGED <<now, newest, match, redis, cached, spectated>>

SteamAnswers(c) ==
    LET m == match[c] IN
    /\ pc[c] = "steam"
    /\ \E r \in Responses :
         /\ cached' = [cached EXCEPT ![m] = [at |-> now, response |-> r]]
         /\ spectated' = IF r = "url" THEN [spectated EXCEPT ![m] = now] ELSE spectated
         /\ Goto(c, Outcome(r))
    /\ holder' = [holder EXCEPT ![m] = @ \ {c}]
    /\ UNCHANGED <<now, newest, match, tries, redis>>

\* Mutant: the count of the attempts starts anew.
SteamFailsAnew(c) ==
    /\ pc[c] = "steam"
    /\ Goto(c, "try")
    /\ tries' = [tries EXCEPT ![c] = 0]
    /\ holder' = [holder EXCEPT ![match[c]] = @ \ {c}]
    /\ UNCHANGED <<now, newest, match, cached, spectated, redis>>

\* No client version, no account to spectate with, a timeout: the next attempt
\* follows 10 ms later.
SteamFails(c) ==
    /\ pc[c] = "steam"
    /\ Goto(c, IF tries[c] <= Retries THEN "try" ELSE "error")
    /\ holder' = [holder EXCEPT ![match[c]] = @ \ {c}]
    /\ UNCHANGED <<now, newest, match, tries, cached, spectated, redis>>

----------------------------------------------------------------------------
\* HSET replaces a field together with its lifespan.
Hset(c) ==
    /\ pc[c] = "hset"
    /\ \/ Goto(c, "hexpire") /\ field' = [field EXCEPT ![match[c]] = [set |-> TRUE, expires |-> 0]]
       \/ Goto(c, "error") /\ UNCHANGED field
    /\ UNCHANGED <<now, newest, match, steam, orphan>>

\* Mutant: ExpireOption::XX, which gives no lifespan to a field without one.
HexpireOld(c) ==
    /\ pc[c] = "hexpire" /\ Goto(c, "ok")
    /\ UNCHANGED <<now, newest, match, steam, redis>>

Hexpire(c) ==
    /\ pc[c] = "hexpire"
    /\ \/ /\ Goto(c, "ok")
          /\ field' = [field EXCEPT ![match[c]].expires = IF field[match[c]].set THEN now + FieldTtl ELSE 0]
          /\ orphan' = orphan \ {match[c]}
       \/ Goto(c, "error") /\ orphan' = orphan \cup {match[c]} /\ UNCHANGED field
    /\ UNCHANGED <<now, newest, match, steam>>

\* Mutant: the guard of a dropped future is not released.
HangUpHolding(c) ==
    /\ pc[c] \in Waiting
    /\ Goto(c, "error")
    /\ orphan' = IF pc[c] = "hexpire" THEN orphan \cup {match[c]} ELSE orphan
    /\ UNCHANGED <<now, newest, match, cached, field, tries, holder, spectated>>

\* The client hangs up, and what is left of the handler is dropped.
HangUp(c) ==
    /\ pc[c] \in Waiting
    /\ Goto(c, "error")
    /\ holder' = [holder EXCEPT ![match[c]] = @ \ {c}]
    /\ orphan' = IF pc[c] = "hexpire" THEN orphan \cup {match[c]} ELSE orphan
    /\ UNCHANGED <<now, newest, match, cached, field, tries, spectated>>

----------------------------------------------------------------------------
Tick ==
    /\ now < MaxTime
    /\ now' = now + 1
    /\ field' = [m \in Matches |-> IF field[m].expires # 0 /\ field[m].expires <= now'
                                   THEN NoField ELSE field[m]]
    /\ UNCHANGED <<newest, match, pc, steam, orphan>>

\* Four hours after the ingest worker has stored it.
Grows(m) ==
    /\ newest < m /\ newest' = m
    /\ UNCHANGED <<now, match, pc, redis, steam>>

Proceed(c) ==
    \/ ApplyLimits(c) \/ CheckLive(c) \/ Hit(c) \/ Miss(c)
    \/ SteamAnswers(c) \/ SteamFails(c) \/ Hset(c) \/ Hexpire(c)

Next ==
    \/ \E c \in Calls : Begin(c) \/ Proceed(c) \/ HangUp(c)
    \/ \E m \in Matches : Grows(m)
    \/ Tick

Spec == Init /\ [][Next]_vars

\* A handler is polled until it ends, the lock of a key is handed over in turn,
\* and every remote call is answered or times out.
FairSpec == Spec /\ \A c \in Calls : SF_vars(Proceed(c))

----------------------------------------------------------------------------
\* Properties

TypeOK ==
    /\ now \in 1..MaxTime /\ newest \in Matches \cup {0}
    /\ cached \in [Matches -> [at : 0..now, response : Responses]]
    /\ \A m \in Matches : field[m].expires # 0 => field[m].set /\ field[m].expires > now
    /\ pc \in [Calls -> Waiting \cup {"idle", "ok", "error", "bad_request"}]
    /\ tries \in [Calls -> 0..(Retries + 1)]
    /\ \A m \in Matches : holder[m] = {c \in Calls : pc[c] = "steam" /\ match[c] = m}

\* The workers that follow `spectated_matches` are rid of every match in the
\* end: a field without a lifespan is about to be given one, or was left so by a
\* call that failed or was dropped between the two commands (live_url.rs:151-167).
FieldsExpire ==
    \A m \in Matches : field[m].set /\ field[m].expires = 0 =>
        m \in orphan \/ \E c \in Calls : pc[c] = "hexpire" /\ match[c] = m

\* An account that spectates is blocked for a quarter of an hour: however many
\* requests come together and hang up, Steam gives the URL of a match once per
\* lifespan of a response (live_url.rs:33-40, 130).
OneSpectatorPerLifespan ==
    [][\A m \in Matches : cached'[m] # cached[m] /\ spectated[m] # 0 => now >= spectated[m] + CacheTtl]_vars

\* Each request is answered: the attempts are counted, and no request waits for
\* the lock of one that hung up (live_url.rs:130-133).
EveryCallAnswered == \A c \in Calls : pc[c] = "limits" ~> pc[c] \notin Waiting
=============================================================================

---------------------------- MODULE DataPrivacy ----------------------------
(***************************************************************************)
(* Account protection: routes/v1/data_privacy (request_deletion and        *)
(* request_tracking) writes Postgres, clears the in-memory list of         *)
(* protected users and rewrites the ClickHouse row policies, while other   *)
(* handlers look the list up through get_protected_users_cached            *)
(* (services/steam/client.rs).  One server process; every await is a place *)
(* where other requests run, a service fails or the caller hangs up.       *)
(***************************************************************************)
EXTENDS Naturals

CONSTANTS
    Accounts,       \* accounts that ask for protection or tracking
    OutOfRange,     \* those whose SteamID3 does not fit an i32
    Handlers,       \* calls of request_deletion and request_tracking
    Lookups,        \* calls of get_protected_users_cached
    Nobody          \* the cache's lock is free

ASSUME ConstantsAssumption ==
    /\ OutOfRange \subseteq Accounts
    /\ Handlers \cap Lookups = {}
    /\ Nobody \notin Lookups

\* The policies update_row_policy replaces, in this order: player_match_history,
\* match_player, steam_profiles.
Policies == 1..3

VARIABLES
    table,      \* protected_user_accounts in Postgres
    policy,     \* ClickHouse: policy -> the accounts it hides, {} before it is created
    cached,     \* GET_PROTECTED_USERS_CACHED holds a list
    list,       \* that list
    lock,       \* the lookup that holds the cache's lock, or Nobody
    pc,         \* process -> where it stands
    request,    \* handler -> what it was asked
    snapshot,   \* process -> the accounts its SELECT returned
    nextPolicy  \* handler -> the policy it replaces next

\* History: accounts whose protection has been confirmed and not withdrawn, as
\* of now and as of each lookup's start; handlers that ran beside another one.
VARIABLES confirmed, mustSee, overlapped

server == <<cached, list, lock>>
stored == <<table, policy>>
history == <<confirmed, mustSee, overlapped>>
vars == <<stored, server, pc, request, snapshot, nextPolicy, history>>

Processes == Handlers \cup Lookups
PcState == {"idle", "write", "clear", "select", "apply", "ok",      \* handlers
            "lock", "query", "store", "answered",                   \* lookups
            "failed"}

Active == {h \in Handlers : pc[h] \in {"write", "clear", "select", "apply"}}

Init ==
    /\ table = {}
    /\ policy = [i \in Policies |-> {}]
    /\ cached = FALSE
    /\ list = {}
    /\ lock = Nobody
    /\ pc = [x \in Processes |-> "idle"]
    /\ request \in [Handlers -> [op : {"protect", "unprotect"}, account : Accounts]]
    /\ snapshot = [x \in Processes |-> {}]
    /\ nextPolicy = [h \in Handlers |-> 1]
    /\ confirmed = {}
    /\ mustSee = [x \in Lookups |-> {}]
    /\ overlapped = {}

Goto(x, label) == pc' = [pc EXCEPT ![x] = label]

----------------------------------------------------------------------------
\* request_deletion, request_tracking

\* The owner is verified with Steam before anything is touched; an id that does
\* not fit the column is refused.
Begin(h) ==
    /\ pc[h] = "idle"
    /\ \/ /\ request[h].account \notin OutOfRange
          /\ Goto(h, "write")
          /\ overlapped' = IF Active = {} THEN overlapped ELSE overlapped \cup Active \cup {h}
       \/ Goto(h, "failed") /\ UNCHANGED overlapped
    /\ UNCHANGED <<stored, server, request, snapshot, nextPolicy, confirmed, mustSee>>

\* The INSERT or DELETE, with the history of what is still protected.
Write(h) ==
    LET a == request[h].account IN
    IF request[h].op = "protect"
    THEN table' = table \cup {a} /\ UNCHANGED <<confirmed, mustSee>>
    ELSE /\ table' = table \ {a}
         /\ confirmed' = confirmed \ {a}
         /\ mustSee' = [x \in Lookups |-> mustSee[x] \ {a}]

WriteTable(h) ==
    /\ pc[h] = "write"
    /\ Write(h)
    /\ Goto(h, "clear")
    /\ UNCHANGED <<policy, server, request, snapshot, nextPolicy, overlapped>>

\* cache_clear waits for the lock, so it follows any fill under way.
ClearCache(h) ==
    /\ pc[h] = "clear"
    /\ lock = Nobody
    /\ cached' = FALSE
    /\ confirmed' = IF request[h].op = "protect"
                    THEN confirmed \cup ({request[h].account} \cap table)
                    ELSE confirmed
    /\ Goto(h, "select")
    /\ UNCHANGED <<stored, list, lock, request, snapshot, nextPolicy, mustSee, overlapped>>

SelectAccounts(h) ==
    /\ pc[h] = "select"
    /\ snapshot' = [snapshot EXCEPT ![h] = table]
    /\ Goto(h, "apply")
    /\ UNCHANGED <<stored, server, request, nextPolicy, history>>

\* With no account left the handler drops a policy `gdpr_protection`, a name no
\* policy has: the three created under other names stay.
DropPolicies(h) ==
    /\ pc[h] = "apply"
    /\ snapshot[h] = {}
    /\ Goto(h, "ok")
    /\ UNCHANGED <<stored, server, request, snapshot, nextPolicy, history>>

\* Mutant: the last policy is left out.
ReplacePolicyStopsEarly(h) ==
    /\ pc[h] = "apply"
    /\ snapshot[h] # {}
    /\ policy' = [policy EXCEPT ![nextPolicy[h]] = snapshot[h]]
    /\ IF nextPolicy[h] + 2 \in Policies
       THEN nextPolicy' = [nextPolicy EXCEPT ![h] = @ + 1] /\ UNCHANGED pc
       ELSE Goto(h, "ok") /\ UNCHANGED nextPolicy
    /\ UNCHANGED <<table, server, request, snapshot, history>>

ReplacePolicy(h) ==
    /\ pc[h] = "apply"
    /\ snapshot[h] # {}
    /\ policy' = [policy EXCEPT ![nextPolicy[h]] = snapshot[h]]
    /\ IF nextPolicy[h] + 1 \in Policies
       THEN nextPolicy' = [nextPolicy EXCEPT ![h] = @ + 1] /\ UNCHANGED pc
       ELSE Goto(h, "ok") /\ UNCHANGED nextPolicy
    /\ UNCHANGED <<table, server, request, snapshot, history>>

\* A database error returns early and a caller that hangs up drops the handler
\* at its await; the statement under way may have taken effect.
HandlerFails(h) ==
    /\ pc[h] \in {"write", "clear", "select", "apply"}
    /\ \/ UNCHANGED <<stored, confirmed, mustSee>>
       \/ pc[h] = "write" /\ Write(h) /\ UNCHANGED policy
       \/ /\ pc[h] = "apply" /\ snapshot[h] # {}
          /\ policy' = [policy EXCEPT ![nextPolicy[h]] = snapshot[h]]
          /\ UNCHANGED <<table, confirmed, mustSee>>
    /\ Goto(h, "failed")
    /\ UNCHANGED <<server, request, snapshot, nextPolicy, overlapped>>

----------------------------------------------------------------------------
\* get_protected_users_cached: the cache's lock is held across the query.

LookupBegin(r) ==
    /\ pc[r] = "idle"
    /\ mustSee' = [mustSee EXCEPT ![r] = confirmed]
    /\ Goto(r, "lock")
    /\ UNCHANGED <<stored, server, request, snapshot, nextPolicy, confirmed, overlapped>>

LookupHit(r) ==
    /\ pc[r] = "lock"
    /\ lock = Nobody
    /\ cached
    /\ snapshot' = [snapshot EXCEPT ![r] = list]
    /\ Goto(r, "answered")
    /\ UNCHANGED <<stored, server, request, nextPolicy, history>>

\* Mutant: the query runs without the lock (cached's sync_writes left off).
LookupMissUnlocked(r) ==
    /\ pc[r] = "lock"
    /\ lock = Nobody
    /\ ~cached
    /\ Goto(r, "query")
    /\ UNCHANGED <<stored, server, request, snapshot, nextPolicy, history>>

LookupMiss(r) ==
    /\ pc[r] = "lock"
    /\ lock = Nobody
    /\ ~cached
    /\ lock' = r
    /\ Goto(r, "query")
    /\ UNCHANGED <<stored, cached, list, request, snapshot, nextPolicy, history>>

LookupQuery(r) ==
    /\ pc[r] = "query"
    /\ snapshot' = [snapshot EXCEPT ![r] = table]
    /\ Goto(r, "store")
    /\ UNCHANGED <<stored, server, request, nextPolicy, history>>

LookupStore(r) ==
    /\ pc[r] = "store"
    /\ cached' = TRUE
    /\ list' = snapshot[r]
    /\ lock' = Nobody
    /\ Goto(r, "answered")
    /\ UNCHANGED <<stored, request, snapshot, nextPolicy, history>>

\* The query fails (errors are not cached) or the caller hangs up: the guard is
\* dropped and the cache stays as it was.
LookupFails(r) ==
    /\ pc[r] \in {"lock", "query", "store"}
    /\ lock' = IF lock = r THEN Nobody ELSE lock
    /\ Goto(r, "failed")
    /\ UNCHANGED <<stored, cached, list, request, snapshot, nextPolicy, history>>

\* The entry outlives its 24 hours.
CacheExpires ==
    /\ cached
    /\ lock = Nobody
    /\ cached' = FALSE
    /\ UNCHANGED <<stored, list, lock, pc, request, snapshot, nextPolicy, history>>

\* The process stops and starts again: what it held in memory is gone.
Restart ==
    /\ cached' = FALSE
    /\ lock' = Nobody
    /\ pc' = [x \in Processes |->
                IF pc[x] \in {"idle", "ok", "answered"} THEN pc[x] ELSE "failed"]
    /\ UNCHANGED <<stored, list, request, snapshot, nextPolicy, history>>

HandlerStep(h) ==
    \/ Begin(h) \/ WriteTable(h) \/ ClearCache(h) \/ SelectAccounts(h)
    \/ DropPolicies(h) \/ ReplacePolicy(h) \/ HandlerFails(h)

LookupStep(r) ==
    \/ LookupBegin(r) \/ LookupHit(r) \/ LookupMiss(r)
    \/ LookupQuery(r) \/ LookupStore(r) \/ LookupFails(r)

Next ==
    \/ \E h \in Handlers : HandlerStep(h)
    \/ \E r \in Lookups : LookupStep(r)
    \/ CacheExpires
    \/ Restart

Spec == Init /\ [][Next]_vars

----------------------------------------------------------------------------
\* Properties

TypeOK ==
    /\ table \subseteq Accounts
    /\ policy \in [Policies -> SUBSET Accounts]
    /\ cached \in BOOLEAN
    /\ list \subseteq Accounts
    /\ lock \in Lookups \cup {Nobody}
    /\ pc \in [Processes -> PcState]
    /\ request \in [Handlers -> [op : {"protect", "unprotect"}, account : Accounts]]
    /\ snapshot \in [Processes -> SUBSET Accounts]
    /\ nextPolicy \in [Handlers -> Policies]
    /\ confirmed \subseteq Accounts
    /\ mustSee \in [Lookups -> SUBSET Accounts]
    /\ overlapped \subseteq Handlers

\* Once protect_account has returned, and until somebody asks for tracking again,
\* every lookup that begins sees the account as protected, even if a cache fill
\* was under way when it was inserted, a request failed half way or the process
\* restarted (data_privacy/mod.rs:23-44 with client.rs:289-307).
ConfirmedAccountsHidden ==
    \A r \in Lookups : pc[r] = "answered" => mustSee[r] \subseteq snapshot[r]

\* A handler that ran beside no other one and succeeds leaves all three row
\* policies hiding exactly the protected accounts, if there are any.  Beside
\* another handler a policy may be overwritten with an older list: nothing
\* orders the SELECT of one with the CREATE of another (mod.rs:72-103).
LonePolicyUpdateExact ==
    [][\A h \in Handlers :
        /\ pc[h] = "apply" /\ pc'[h] = "ok"
        /\ h \notin overlapped
        /\ table # {}
        => \A i \in Policies : policy'[i] = table']_vars
============================================================================

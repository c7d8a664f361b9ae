----------------------------- MODULE TimedCache -----------------------------
(***************************************************************************)
(* A function behind #[cached(ty = "TimedCache<..>")]: every remote value  *)
(* the server keeps (assets, Steam, quotas, analytics) is fetched this     *)
(* way.  sync_writes decides what is locked while the function runs:       *)
(*   "none"     nothing: look, run, store, each under a brief lock         *)
(*   "default"  the whole cache                                            *)
(*   "by_key"   the entry of the key                                       *)
(* and result = true stores only Ok.                                       *)
(***************************************************************************)
EXTENDS Naturals

CONSTANTS
    Callers,    \* calls of the cached function
    Keys,       \* the values `convert` makes of the arguments
    Mode,       \* sync_writes
    OkOnly,     \* result = true
    Ttl,        \* the lifespan of an entry
    MaxRun,     \* how long one run of the function takes at most
    MaxVersion, \* bound on the changes of the source
    MaxTime     \* bound on the clock

\* The cached functions, with the lifespan of their entries in minutes.
SteamSites == {
    [fn |-> "fetch_patch_notes",           mode |-> "default", okOnly |-> TRUE, minutes |-> 30],
    [fn |-> "get_protected_users_cached",  mode |-> "default", okOnly |-> TRUE, minutes |-> 1440],
    [fn |-> "get_current_client_version",  mode |-> "default", okOnly |-> TRUE, minutes |-> 60],
    [fn |-> "fetch_steam_account_name_cached", mode |-> "by_key", okOnly |-> TRUE, minutes |-> 1440]}
AssetsSites == {
    [fn |-> "fetch_heroes_cached", mode |-> "none",    okOnly |-> TRUE, minutes |-> 60],
    [fn |-> "fetch_ranks_cached",  mode |-> "default", okOnly |-> TRUE, minutes |-> 60],
    [fn |-> "fetch_items_cached",  mode |-> "default", okOnly |-> TRUE, minutes |-> 60]}
QuotaSites == {
    [fn |-> "is_api_key_valid",  mode |-> "by_key", okOnly |-> FALSE, minutes |-> 60],
    [fn |-> "get_custom_quotas", mode |-> "by_key", okOnly |-> FALSE, minutes |-> 10]}
TrackingSites == {[fn |-> "get_user_id", mode |-> "by_key", okOnly |-> FALSE, minutes |-> 60]}
LeaderboardSites == {
    [fn |-> "fetch_leaderboard_raw", mode |-> "by_key",  okOnly |-> TRUE, minutes |-> 10],
    [fn |-> "fetch_all_steam_names", mode |-> "default", okOnly |-> TRUE, minutes |-> 1440]}
ProfileSites == {[fn |-> "get_steam_single", mode |-> "by_key", okOnly |-> TRUE, minutes |-> 1]}
LiveSites == {
    [fn |-> "spectate_match",                 mode |-> "by_key",  okOnly |-> TRUE, minutes |-> 1],
    [fn |-> "fetch_active_matches_raw",       mode |-> "default", okOnly |-> TRUE, minutes |-> 1],
    [fn |-> "get_recently_fetched_match_ids", mode |-> "by_key",  okOnly |-> TRUE, minutes |-> 1]}
HealthSites == {[fn |-> "check_health", mode |-> "default", okOnly |-> TRUE, minutes |-> 1]}
SqlSites == {
    [fn |-> "fetch_list_tables",  mode |-> "default", okOnly |-> TRUE, minutes |-> 60],
    [fn |-> "fetch_table_schema", mode |-> "by_key",  okOnly |-> TRUE, minutes |-> 60]}
\* run_query of the analytics endpoints is keyed by the text of its query.
AnalyticsSites == {[fn |-> "run_query", mode |-> "by_key", okOnly |-> TRUE, minutes |-> 60]}

Sites == SteamSites \cup AssetsSites \cup QuotaSites \cup TrackingSites \cup LeaderboardSites
           \cup ProfileSites \cup LiveSites \cup HealthSites \cup SqlSites \cup AnalyticsSites

ASSUME ConstantsAssumption ==
    /\ \E site \in Sites : site.mode = Mode /\ site.okOnly = OkOnly
    /\ Mode \in {"none", "default", "by_key"} /\ OkOnly \in BOOLEAN
    /\ {Ttl, MaxRun, MaxTime} \subseteq Nat
    /\ MaxVersion \in Nat \ {0}

VARIABLES
    now,        \* the clock
    version,    \* what the source holds
    endedAt,    \* version -> when it was replaced, 0 while it is not
    entry,      \* key -> the cached value and when it was stored
    holders,    \* callers that hold their lock
    pc,         \* caller -> where it stands
    key,        \* caller -> its key
    value,      \* caller -> the version its run has read, 0 for a failure
    since,      \* caller -> when its run began
    reply       \* caller -> what it was given, 0 for a failure

\* History, never read by a guard.
VARIABLES
    floor,      \* caller -> the newest version answered for its key before it asked
    failedAt    \* key -> when a run last failed for it

vars == <<now, version, endedAt, entry, holders, pc, key, value, since, reply, floor, failedAt>>

PcState == {"idle", "ask", "run", "store", "done"}
Versions == 1..MaxVersion
Values == 0..MaxVersion         \* 0 is a failure, cached when not OkOnly
Running == {c \in Callers : pc[c] \in {"run", "store"}}

Init ==
    /\ now = 1 /\ version = 1
    /\ endedAt = [v \in Versions |-> 0]
    /\ entry = [k \in Keys |-> [at |-> 0, value |-> 0]]
    /\ holders = {}
    /\ pc = [c \in Callers |-> "idle"]
    /\ key \in [Callers -> Keys]
    /\ value = [c \in Callers |-> 0]
    /\ since = [c \in Callers |-> 0]
    /\ reply = [c \in Callers |-> 0]
    /\ floor = [c \in Callers |-> 0]
    /\ failedAt = [k \in Keys |-> 0]

----------------------------------------------------------------------------
\* Mutant: nobody waits for anybody.
NoBlockers(c) == {}

\* The callers whose lock keeps c out.
Blockers(c) ==
    {d \in holders : Mode = "default" \/ key[d] = key[c]}

\* Mutant: the age of an entry is not looked at.
AliveForEver(k) == entry[k].at # 0

Alive(k) == entry[k].at # 0 /\ now < entry[k].at + Ttl

AnsweredUpTo(k, v) ==
    /\ \A c \in Callers : pc[c] = "done" /\ key[c] = k => reply[c] <= v
    /\ v # 0 => \E c \in Callers : pc[c] = "done" /\ key[c] = k /\ reply[c] = v

Ask(c) ==
    /\ pc[c] = "idle"
    /\ pc' = [pc EXCEPT ![c] = "ask"]
    /\ \E v \in 0..version : AnsweredUpTo(key[c], v) /\ floor' = [floor EXCEPT ![c] = v]
    /\ UNCHANGED <<now, version, endedAt, entry, holders, key, value, since, reply, failedAt>>

Hit(c) ==
    /\ pc[c] = "ask"
    /\ Blockers(c) = {}
    /\ Alive(key[c])
    /\ reply' = [reply EXCEPT ![c] = entry[key[c]].value]
    /\ pc' = [pc EXCEPT ![c] = "done"]
    /\ UNCHANGED <<now, version, endedAt, entry, holders, key, value, since, floor, failedAt>>

Miss(c) ==
    /\ pc[c] = "ask"
    /\ Blockers(c) = {}
    /\ ~Alive(key[c])
    /\ holders' = IF Mode = "none" THEN holders ELSE holders \cup {c}
    /\ since' = [since EXCEPT ![c] = now]
    /\ pc' = [pc EXCEPT ![c] = "run"]
    /\ UNCHANGED <<now, version, endedAt, entry, key, value, reply, floor, failedAt>>

\* The remote call is answered with what the source holds at that moment.
Read(c) ==
    /\ pc[c] = "run"
    /\ value' = [value EXCEPT ![c] = version]
    /\ pc' = [pc EXCEPT ![c] = "store"]
    /\ UNCHANGED <<now, version, endedAt, entry, holders, key, since, reply, floor, failedAt>>

\* Mutant: the entry is dated by its end.
StoreUntil(c) ==
    /\ pc[c] = "store"
    /\ entry' = [entry EXCEPT ![key[c]] = [at |-> now + Ttl, value |-> value[c]]]
    /\ holders' = holders \ {c}
    /\ reply' = [reply EXCEPT ![c] = value[c]]
    /\ pc' = [pc EXCEPT ![c] = "done"]
    /\ UNCHANGED <<now, version, endedAt, key, value, since, floor, failedAt>>

Store(c) ==
    /\ pc[c] = "store"
    /\ entry' = [entry EXCEPT ![key[c]] = [at |-> now, value |-> value[c]]]
    /\ holders' = holders \ {c}
    /\ reply' = [reply EXCEPT ![c] = value[c]]
    /\ pc' = [pc EXCEPT ![c] = "done"]
    /\ UNCHANGED <<now, version, endedAt, key, value, since, floor, failedAt>>

\* Mutant: a failed run is tried again, without an end.
RetriesForEver(c) ==
    /\ pc[c] = "run"
    /\ holders' = holders \ {c}
    /\ pc' = [pc EXCEPT ![c] = "ask"]
    /\ UNCHANGED <<now, version, endedAt, entry, key, value, since, reply, floor, failedAt>>

\* The run fails: an error is passed on, or stored as the answer of a function
\* that hides its error in a default (`unwrap_or`, `is_ok_and`).
RunFails(c) ==
    /\ pc[c] = "run"
    /\ IF OkOnly THEN UNCHANGED entry
       ELSE entry' = [entry EXCEPT ![key[c]] = [at |-> now, value |-> 0]]
    /\ failedAt' = [failedAt EXCEPT ![key[c]] = now]
    /\ holders' = holders \ {c}
    /\ pc' = [pc EXCEPT ![c] = "done"]
    /\ UNCHANGED <<now, version, endedAt, key, value, since, reply, floor>>

\* The caller hangs up: its future and the guard in it are dropped.
HangUp(c) ==
    /\ pc[c] \in {"ask", "run", "store"}
    /\ holders' = holders \ {c}
    /\ pc' = [pc EXCEPT ![c] = "done"]
    /\ UNCHANGED <<now, version, endedAt, entry, key, value, since, reply, floor, failedAt>>

Change ==
    /\ version < MaxVersion
    /\ version' = version + 1
    /\ endedAt' = [endedAt EXCEPT ![version] = now]
    /\ UNCHANGED <<now, entry, holders, pc, key, value, since, reply, floor, failedAt>>

Tick ==
    /\ now < MaxTime
    /\ \A c \in Running : now < since[c] + MaxRun
    /\ now' = now + 1
    /\ UNCHANGED <<version, endedAt, entry, holders, pc, key, value, since, reply, floor, failedAt>>

Proceed(c) == Hit(c) \/ Miss(c) \/ Read(c) \/ Store(c) \/ RunFails(c)

Next ==
    \/ \E c \in Callers : Ask(c) \/ Proceed(c) \/ HangUp(c)
    \/ Change
    \/ Tick

Spec == Init /\ [][Next]_vars

\* A future is polled until it ends, the mutexes of tokio are fair, and remote
\* calls are answered, fail or time out.
FairSpec == Spec /\ \A c \in Callers : WF_vars(Proceed(c))

----------------------------------------------------------------------------
\* Properties

TypeOK ==
    /\ now \in Nat /\ version \in Versions
    /\ endedAt \in [Versions -> Nat]
    /\ entry \in [Keys -> [at : Nat, value : Values]]
    /\ holders \subseteq Running
    /\ pc \in [Callers -> PcState]
    /\ key \in [Callers -> Keys]
    /\ value \in [Callers -> Values]
    /\ since \in [Callers -> Nat]
    /\ reply \in [Callers -> Values]
    /\ floor \in [Callers -> Values]
    /\ failedAt \in [Keys -> Nat]

\* What the callers see is what CacheContract promises: no answer is older than
\* a lifespan and a run, and where the function runs under a lock the answers
\* for a key never go back, though callers hang up and runs fail or overlap.
Contract == INSTANCE CacheContract WITH
    Window <- Ttl + MaxRun,
    Ordered <- (Mode # "none"),
    state <- [c \in Callers |-> IF pc[c] = "idle" THEN "idle"
                                ELSE IF pc[c] = "done" THEN "answered" ELSE "waiting"]

KeepsContract == Contract!Spec

\* With a lock, at most one run is under way for a key, so that a value that is
\* slow to come is fetched once and not by every caller (sync_writes).
OneRunPerKey ==
    \A c, d \in Running : c # d /\ key[c] = key[d] => Mode = "none"

\* A cached negative answer ("invalid" key, no custom quotas, no salts) is never
\* given more than a lifespan after the failure it stands for
\* (rate_limiter/client.rs:186-226), and never when only Ok is stored.
NegativeForgotten ==
    \A k \in Keys :
        Alive(k) /\ entry[k].value = 0 => ~OkOnly /\ now < failedAt[k] + Ttl

\* Every caller is answered in the end: no lock outlives its holder.
EveryCallerAnswered == \A c \in Callers : pc[c] = "ask" ~> pc[c] = "done"
=============================================================================

--------------------------- MODULE CacheContract ---------------------------
(***************************************************************************)
(* What a caller of a cached function may rely on, whatever the cache does *)
(* inside: a value was the source's at some moment of the last Window      *)
(* ticks, and, when the cache is Ordered, is no older than any value       *)
(* answered for its key before the call began.  0 stands for no value.     *)
(***************************************************************************)
EXTENDS Naturals

CONSTANTS
    Callers,    \* calls of the cached function
    Keys,       \* its keys
    MaxVersion, \* bound on the versions of the source
    Window,     \* how long a value that is no longer the source's may be given
    Ordered     \* whether answers for one key never go back

VARIABLES
    now,        \* the clock
    version,    \* the version of the source
    endedAt,    \* version -> when it was replaced, 0 while it is not
    state,      \* caller -> "idle", "waiting" or "answered"
    key,        \* caller -> the key it asks for
    floor,      \* caller -> the newest version answered for its key before it asked
    reply       \* caller -> the version it was given, 0 for an error

vars == <<now, version, endedAt, state, key, floor, reply>>

Init ==
    /\ now = 1 /\ version = 1
    /\ endedAt = [v \in 1..MaxVersion |-> 0]
    /\ state = [c \in Callers |-> "idle"]
    /\ key \in [Callers -> Keys]
    /\ floor = [c \in Callers |-> 0]
    /\ reply = [c \in Callers |-> 0]

\* The newest version answered for key k, an upper bound of the answers.
AnsweredUpTo(k, v) ==
    /\ \A c \in Callers : state[c] = "answered" /\ key[c] = k => reply[c] <= v
    /\ v # 0 => \E c \in Callers : state[c] = "answered" /\ key[c] = k /\ reply[c] = v

Recent(v) == endedAt[v] = 0 \/ now <= endedAt[v] + Window

Ask(c) ==
    /\ state[c] = "idle"
    /\ state' = [state EXCEPT ![c] = "waiting"]
    /\ \E v \in 0..version : AnsweredUpTo(key[c], v) /\ floor' = [floor EXCEPT ![c] = v]
    /\ UNCHANGED <<now, version, endedAt, key, reply>>

Answer(c) ==
    /\ state[c] = "waiting"
    /\ state' = [state EXCEPT ![c] = "answered"]
    /\ \/ UNCHANGED reply
       \/ \E v \in 1..version :
             /\ Recent(v)
             /\ Ordered => floor[c] <= v
             /\ reply' = [reply EXCEPT ![c] = v]
    /\ UNCHANGED <<now, version, endedAt, key, floor>>

Change ==
    /\ version < MaxVersion
    /\ version' = version + 1
    /\ endedAt' = [endedAt EXCEPT ![version] = now]
    /\ UNCHANGED <<now, state, key, floor, reply>>

Tick == now' = now + 1 /\ UNCHANGED <<version, endedAt, state, key, floor, reply>>

Next == (\E c \in Callers : Ask(c) \/ Answer(c)) \/ Change \/ Tick

Spec == Init /\ [][Next]_vars
=============================================================================

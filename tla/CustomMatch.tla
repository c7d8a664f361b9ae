---------------------------- MODULE CustomMatch ----------------------------
(***************************************************************************)
(* Custom matches (routes/v1/matches/custom): create_custom has a bot      *)
(* create a party on Steam, stores the callback in Redis, spawns the task  *)
(* that makes the bot leave after 15 minutes, waits for the party code and *)
(* readies the bot; ready_up and unready act on the party afterwards.      *)
(*                                                                         *)
(* The clock counts units of five minutes.  A handler takes seconds, so it *)
(* does not advance while one runs, nor past a task that is due.           *)
(***************************************************************************)
EXTENDS Naturals

CONSTANTS
    Calls,          \* calls of create_custom
    Retries,        \* retries of create_party (5 in the code)
    LeaveAfter,     \* the spawned task's sleep: 15 minutes
    CallbackTtl,    \* set_ex of the callback keys: 20 minutes
    CallbackUrls,   \* the kinds of callback_url callers send
    ServicesFail,   \* whether Steam and Redis calls may fail
    MayRestart,     \* whether the process may restart and callers hang up
    MaxTime         \* bound on the clock

ASSUME ConstantsAssumption ==
    /\ Retries \in Nat /\ LeaveAfter \in Nat \ {0} /\ CallbackTtl \in Nat /\ MaxTime \in Nat
    /\ CallbackUrls \subseteq {"none", "valid", "invalid"}
    /\ {ServicesFail, MayRestart} \subseteq BOOLEAN

\* A party is named by the call and the attempt that made it.
Parties == Calls \X (1..(Retries + 1))

VARIABLES
    now,            \* the clock
    pc,             \* call -> where it stands
    options,        \* call -> its callback url and disable_auto_ready
    attempt,        \* call -> the attempt of create_party it is in
    inParty,        \* Steam: parties the bot is in
    spectating,     \* Steam: parties whose bot is in the spectator slot
    ready,          \* Steam: parties whose bot is marked ready
    born,           \* Steam: party -> when it was created
    partyInfo,      \* Redis: parties whose info the bot has published
    callbackUntil,  \* Redis: party -> when its callback keys expire, 0 without
    leaveAt         \* party -> when its leave task wakes, 0 without

\* History: parties whose bot something is known to have left behind.
VARIABLE abandoned

steam == <<inParty, spectating, ready, born>>
vars == <<now, pc, options, attempt, steam, partyInfo, callbackUntil, leaveAt, abandoned>>

PcState == {"idle", "create", "store", "await", "spectate", "autoReady", "ok", "failed"}
Running == {c \in Calls : pc[c] \notin {"idle", "ok", "failed"}}

PartyOf(c) == <<c, attempt[c]>>

Init ==
    /\ now = 1
    /\ pc = [c \in Calls |-> "idle"]
    /\ options \in [Calls -> [url : CallbackUrls, autoReady : BOOLEAN]]
    /\ attempt = [c \in Calls |-> 1]
    /\ inParty = {} /\ spectating = {} /\ ready = {}
    /\ born = [p \in Parties |-> 0]
    /\ partyInfo = {}
    /\ callbackUntil = [p \in Parties |-> 0]
    /\ leaveAt = [p \in Parties |-> 0]
    /\ abandoned = {}

Goto(c, label) == pc' = [pc EXCEPT ![c] = label]
Join(c) ==
    /\ inParty' = inParty \cup {PartyOf(c)}
    /\ born' = [born EXCEPT ![PartyOf(c)] = now]
    /\ UNCHANGED <<spectating, ready>>

----------------------------------------------------------------------------
\* create_custom

Begin(c) ==
    /\ pc[c] = "idle"
    /\ Goto(c, "create")
    /\ UNCHANGED <<now, options, attempt, steam, partyInfo, callbackUntil, leaveAt, abandoned>>

CreateParty(c) ==
    /\ pc[c] = "create"
    /\ Join(c)
    /\ Goto(c, "store")
    /\ UNCHANGED <<now, options, attempt, partyInfo, callbackUntil, leaveAt, abandoned>>

\* An attempt fails; when it timed out, Steam may still have made the party,
\* which nobody will hear of.  tryhard tries again while retries are left; an
\* answer without a party id ends the call at once.
CreateFails(c) ==
    /\ ServicesFail
    /\ pc[c] = "create"
    /\ \/ UNCHANGED <<steam, abandoned>>
       \/ Join(c) /\ abandoned' = abandoned \cup {PartyOf(c)}
    /\ \/ /\ attempt[c] <= Retries
          /\ attempt' = [attempt EXCEPT ![c] = @ + 1] /\ UNCHANGED pc
       \/ Goto(c, "failed") /\ UNCHANGED attempt
    /\ UNCHANGED <<now, options, partyInfo, callbackUntil, leaveAt>>

\* Mutant: the callback expires while the bot is still in the match.
StoreCallbackShort(c) ==
    /\ pc[c] = "store"
    /\ options[c].url # "invalid"
    /\ IF options[c].url = "valid"
       THEN callbackUntil' = [callbackUntil EXCEPT ![PartyOf(c)] = now + LeaveAfter - 1]
       ELSE UNCHANGED callbackUntil
    /\ leaveAt' = [leaveAt EXCEPT ![PartyOf(c)] = now + LeaveAfter]
    /\ Goto(c, "await")
    /\ UNCHANGED <<now, options, attempt, steam, partyInfo, abandoned>>

\* The callback keys are written and, with no await in between, the task that
\* leaves the party is spawned.
StoreCallback(c) ==
    /\ pc[c] = "store"
    /\ options[c].url # "invalid"
    /\ IF options[c].url = "valid"
       THEN callbackUntil' = [callbackUntil EXCEPT ![PartyOf(c)] = now + CallbackTtl]
       ELSE UNCHANGED callbackUntil
    /\ leaveAt' = [leaveAt EXCEPT ![PartyOf(c)] = now + LeaveAfter]
    /\ Goto(c, "await")
    /\ UNCHANGED <<now, options, attempt, steam, partyInfo, abandoned>>

\* A url that does not parse, or a failed Redis pipeline, ends the call before
\* the leave task is spawned.
StoreCallbackFails(c) ==
    /\ pc[c] = "store"
    /\ options[c].url = "invalid" \/ (options[c].url = "valid" /\ ServicesFail)
    /\ abandoned' = abandoned \cup {PartyOf(c)}
    /\ Goto(c, "failed")
    /\ UNCHANGED <<now, options, attempt, steam, partyInfo, callbackUntil, leaveAt>>

\* Mutant: the bot is readied without the switch to the spectator slot.
PartyInfoFoundReady(c) ==
    /\ pc[c] = "await"
    /\ PartyOf(c) \in partyInfo
    /\ Goto(c, IF options[c].autoReady THEN "autoReady" ELSE "spectate")
    /\ UNCHANGED <<now, options, attempt, steam, partyInfo, callbackUntil, leaveAt, abandoned>>

PartyInfoFound(c) ==
    /\ pc[c] = "await"
    /\ PartyOf(c) \in partyInfo
    /\ Goto(c, "spectate")
    /\ UNCHANGED <<now, options, attempt, steam, partyInfo, callbackUntil, leaveAt, abandoned>>

\* The info does not come within 100 looks, does not parse, or Redis fails.
PartyInfoMissing(c) ==
    /\ pc[c] = "await"
    /\ PartyOf(c) \notin partyInfo \/ ServicesFail
    /\ Goto(c, "failed")
    /\ UNCHANGED <<now, options, attempt, steam, partyInfo, callbackUntil, leaveAt, abandoned>>

Spectate(c) ==
    /\ pc[c] = "spectate"
    /\ spectating' = spectating \cup {PartyOf(c)}
    /\ Goto(c, IF options[c].autoReady THEN "autoReady" ELSE "ok")
    /\ UNCHANGED <<now, options, attempt, inParty, ready, born, partyInfo, callbackUntil,
                   leaveAt, abandoned>>

AutoReady(c) ==
    /\ pc[c] = "autoReady"
    /\ ready' = ready \cup {PartyOf(c)}
    /\ Goto(c, "ok")
    /\ UNCHANGED <<now, options, attempt, inParty, spectating, born, partyInfo, callbackUntil,
                   leaveAt, abandoned>>

\* Either party action fails or times out; a timed-out one may have been done.
PartyActionFails(c) ==
    /\ ServicesFail
    /\ \/ pc[c] \in {"spectate", "autoReady"} /\ UNCHANGED <<spectating, ready>>
       \/ /\ pc[c] = "spectate"
          /\ spectating' = spectating \cup {PartyOf(c)} /\ UNCHANGED ready
       \/ /\ pc[c] = "autoReady"
          /\ ready' = ready \cup {PartyOf(c)} /\ UNCHANGED spectating
    /\ Goto(c, "failed")
    /\ UNCHANGED <<now, options, attempt, inParty, born, partyInfo, callbackUntil, leaveAt,
                   abandoned>>

\* ready_up and unready, by a caller who was given the party's id.
SetReady(c) ==
    /\ pc[c] = "ok"
    /\ PartyOf(c) \in partyInfo \cap inParty
    /\ ready' \in {ready \cup {PartyOf(c)}, ready \ {PartyOf(c)}}
    /\ UNCHANGED <<now, pc, options, attempt, inParty, spectating, born, partyInfo,
                   callbackUntil, leaveAt, abandoned>>

----------------------------------------------------------------------------
\* The spawned task, the bot and the process

LeaveDue(p) == leaveAt[p] # 0 /\ leaveAt[p] <= now

LeaveParty(p) ==
    /\ LeaveDue(p)
    /\ inParty' = inParty \ {p}
    /\ spectating' = spectating \ {p}
    /\ ready' = ready \ {p}
    /\ leaveAt' = [leaveAt EXCEPT ![p] = 0]
    /\ UNCHANGED <<now, pc, options, attempt, born, partyInfo, callbackUntil, abandoned>>

\* leave_party is tried once; its failure is only logged.
LeaveFails(p) ==
    /\ ServicesFail
    /\ LeaveDue(p)
    /\ leaveAt' = [leaveAt EXCEPT ![p] = 0]
    /\ abandoned' = abandoned \cup {p}
    /\ UNCHANGED <<now, pc, options, attempt, steam, partyInfo, callbackUntil>>

\* The bot's service publishes "username:account_id:code" under the party's id.
PublishInfo(p) ==
    /\ p \in inParty \ partyInfo
    /\ partyInfo' = partyInfo \cup {p}
    /\ UNCHANGED <<now, pc, options, attempt, steam, callbackUntil, leaveAt, abandoned>>

\* Mutant: the leave task is tied to the handler and dies with it.
HangUpKillsTask(c) ==
    /\ MayRestart
    /\ c \in Running
    /\ pc[c] = "await"
    /\ leaveAt' = [leaveAt EXCEPT ![PartyOf(c)] = 0]
    /\ Goto(c, "failed")
    /\ UNCHANGED <<now, options, attempt, steam, partyInfo, callbackUntil, abandoned>>

\* The caller hangs up and the handler is dropped at its await; a request to
\* Steam under way may still be carried out, and a spawned task lives on.
HangUp(c) ==
    /\ MayRestart
    /\ c \in Running
    /\ \/ pc[c] # "store" /\ UNCHANGED <<steam, abandoned>>
       \/ pc[c] = "store" /\ abandoned' = abandoned \cup {PartyOf(c)} /\ UNCHANGED steam
       \/ pc[c] = "create" /\ Join(c) /\ abandoned' = abandoned \cup {PartyOf(c)}
    /\ Goto(c, "failed")
    /\ UNCHANGED <<now, options, attempt, partyInfo, callbackUntil, leaveAt>>

\* The process restarts: running handlers and sleeping tasks are lost.
Restart ==
    /\ MayRestart
    /\ pc' = [c \in Calls |-> IF c \in Running THEN "failed" ELSE pc[c]]
    /\ leaveAt' = [p \in Parties |-> 0]
    /\ abandoned' = abandoned \cup inParty
    /\ UNCHANGED <<now, options, attempt, steam, partyInfo, callbackUntil>>

Tick ==
    /\ now < MaxTime
    /\ Running = {}
    /\ \A p \in Parties : ~LeaveDue(p)
    /\ now' = now + 1
    /\ UNCHANGED <<pc, options, attempt, steam, partyInfo, callbackUntil, leaveAt, abandoned>>

CallStep(c) ==
    \/ Begin(c) \/ CreateParty(c) \/ CreateFails(c)
    \/ StoreCallback(c) \/ StoreCallbackFails(c)
    \/ PartyInfoFound(c) \/ PartyInfoMissing(c)
    \/ Spectate(c) \/ AutoReady(c) \/ PartyActionFails(c)
    \/ SetReady(c) \/ HangUp(c)

PartyStep(p) == LeaveParty(p) \/ LeaveFails(p) \/ PublishInfo(p)

Next ==
    \/ \E c \in Calls : CallStep(c)
    \/ \E p \in Parties : PartyStep(p)
    \/ Restart
    \/ Tick

Spec == Init /\ [][Next]_vars

----------------------------------------------------------------------------
\* Properties

TypeOK ==
    /\ now \in Nat
    /\ pc \in [Calls -> PcState]
    /\ options \in [Calls -> [url : CallbackUrls, autoReady : BOOLEAN]]
    /\ attempt \in [Calls -> 1..(Retries + 1)]
    /\ inParty \subseteq Parties /\ spectating \subseteq Parties /\ ready \subseteq Parties
    /\ born \in [Parties -> Nat]
    /\ partyInfo \subseteq Parties
    /\ callbackUntil \in [Parties -> Nat]
    /\ leaveAt \in [Parties -> Nat]
    /\ abandoned \subseteq Parties

\* A bot still in a party 15 minutes after creating it.
Overstays(p) == p \in inParty /\ now > born[p] + LeaveAfter

\* Every bot that overstays was left behind by one of the known causes: a lost
\* answer to create_party, an error before the task was spawned, a restart or a
\* failed leave.  No interleaving of calls, retries and late answers loses one
\* otherwise (create.rs:286-338).
OverstaysAccountedFor == \A p \in Parties : Overstays(p) => p \in abandoned

\* What the endpoint documents (create.rs:254): "The bot will leave the match 15
\* minutes after creation, regardless of match state."
BotLeavesAsDocumented == \A p \in Parties : ~Overstays(p)

\* A ready bot has left its player slot: create_custom readies it only after the
\* switch, and the ready endpoint's callers learn the party only afterwards
\* (create.rs:356-365, ready.rs).
ReadyImpliesSpectator == ready \subseteq spectating

\* As long as the bot of an answered call is due to leave, the callback url and
\* secret it was given are still in Redis (create.rs:303-315 with 330-338).
CallbackOutlivesBot ==
    \A c \in Calls :
        /\ pc[c] = "ok"
        /\ options[c].url = "valid"
        /\ PartyOf(c) \in inParty \ abandoned
        => now < callbackUntil[PartyOf(c)]
============================================================================

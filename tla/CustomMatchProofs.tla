------------------------- MODULE CustomMatchProofs -------------------------
(***************************************************************************)
(* Every bot that overstays is accounted for, a ready bot is a spectator,  *)
(* and the callback keys outlive the bot's stay, for any number of calls   *)
(* and retries.                                                            *)
(***************************************************************************)
EXTENDS CustomMatch, TLAPS

\* A bot that is not left behind is one whose call is about to spawn the leave
\* task, or has it scheduled within 15 minutes of its creation.
LeaveOnItsWay ==
    \A c \in Calls, i \in 1..(Retries + 1) :
        LET p == <<c, i>> IN
        p \in inParty \ abandoned =>
            \/ pc[c] = "store" /\ i = attempt[c] /\ born[p] = now
            \/ leaveAt[p] # 0 /\ leaveAt[p] <= born[p] + LeaveAfter

\* Attempts that are yet to come have no task.
ScheduledOnce ==
    \A c \in Calls, i \in 1..(Retries + 1) :
        pc[c] \in {"idle", "create", "store"} /\ attempt[c] <= i => leaveAt[<<c, i>>] = 0

TimersAhead == now # 0 /\ \A p \in Parties : leaveAt[p] # 0 => now <= leaveAt[p]

\* While a handler runs, its party's task sleeps.
HandlersBeforeTimers ==
    \A c \in Calls :
        pc[c] \in {"await", "spectate", "autoReady"} /\ leaveAt[PartyOf(c)] # 0
        => now < leaveAt[PartyOf(c)]

SwitchedBeforeReady ==
    /\ ready \subseteq spectating
    /\ \A c \in Calls :
          \/ pc[c] = "autoReady"
          \/ pc[c] = "ok" /\ PartyOf(c) \in inParty
          => PartyOf(c) \in spectating

CallbackTimed ==
    \A c \in Calls :
        /\ pc[c] \in {"await", "spectate", "autoReady", "ok"}
        /\ options[c].url = "valid"
        /\ leaveAt[PartyOf(c)] # 0
        => callbackUntil[PartyOf(c)] + LeaveAfter = leaveAt[PartyOf(c)] + CallbackTtl

Inv ==
    /\ TypeOK
    /\ LeaveOnItsWay /\ ScheduledOnce /\ TimersAhead /\ HandlersBeforeTimers
    /\ SwitchedBeforeReady /\ CallbackTimed

\* The party of a call is a party, and no other call's.
LEMMA PartyOfCall ==
    ASSUME TypeOK, NEW c \in Calls
    PROVE  /\ PartyOf(c) \in Parties
           /\ \A d \in Calls, i \in 1..(Retries + 1) :
                 (<<d, i>> = PartyOf(c)) <=> (d = c /\ i = attempt[c])
  BY DEF TypeOK, PartyOf, Parties

\* The invariant holds at the start.
LEMMA InitInv == Init => Inv
<1> SUFFICES ASSUME Init PROVE Inv
  OBVIOUS
<1>1. TypeOK
  BY ConstantsAssumption DEF Init, TypeOK, PcState
<1>2. QED
  BY <1>1, PartyOfCall
  DEF Init, Inv, Parties, LeaveOnItsWay, ScheduledOnce, TimersAhead, HandlersBeforeTimers, SwitchedBeforeReady,
      CallbackTimed

\* Every step keeps the types.
LEMMA NextTypeOK == TypeOK /\ [Next]_vars => TypeOK'
<1> SUFFICES ASSUME TypeOK, [Next]_vars PROVE TypeOK'
  OBVIOUS
<1> USE ConstantsAssumption DEF TypeOK, PcState, Goto, steam
<1>1. ASSUME NEW c \in Calls, CallStep(c)
      PROVE  TypeOK'
  <2>0. PartyOf(c) \in Parties
    BY PartyOfCall
  <2>1. CASE Begin(c) \/ StoreCallbackFails(c) \/ PartyInfoFound(c) \/ PartyInfoMissing(c)
    BY <2>0, <2>1 DEF Begin, StoreCallbackFails, PartyInfoFound, PartyInfoMissing
  <2>2. CASE CreateParty(c)
    BY <2>0, <2>2 DEF CreateParty, Join
  <2>3. CASE CreateFails(c)
    BY <2>0, <2>3 DEF CreateFails, Join
  <2>4. CASE StoreCallback(c)
    <3>1. callbackUntil' \in [Parties -> Nat] /\ leaveAt' \in [Parties -> Nat]
      BY <2>0, <2>4 DEF StoreCallback
    <3>2. pc' \in [Calls -> PcState]
      BY <2>4 DEF StoreCallback
    <3>3. QED
      BY <2>4, <3>1, <3>2 DEF StoreCallback
  <2>5. CASE Spectate(c) \/ AutoReady(c) \/ PartyActionFails(c) \/ SetReady(c)
    BY <2>0, <2>5 DEF Spectate, AutoReady, PartyActionFails, SetReady
  <2>6. CASE HangUp(c)
    BY <2>0, <2>6 DEF HangUp, Join
  <2>7. QED
    BY <1>1, <2>1, <2>2, <2>3, <2>4, <2>5, <2>6 DEF CallStep
<1>2. ASSUME NEW p \in Parties, PartyStep(p)
      PROVE  TypeOK'
  BY <1>2 DEF PartyStep, LeaveParty, LeaveFails, PublishInfo
<1>3. CASE Restart
  BY <1>3 DEF Restart
<1>4. CASE Tick
  BY <1>4 DEF Tick
<1>5. CASE UNCHANGED vars
  BY <1>5 DEF vars
<1>6. QED
  BY <1>1, <1>2, <1>3, <1>4, <1>5 DEF Next
\* A step of a call keeps the invariant.
LEMMA CallKeepsInv ==
    ASSUME Inv, TypeOK', NEW c \in Calls, CallStep(c)
    PROVE  Inv'
<1> USE ConstantsAssumption DEF Inv, TypeOK, Goto, steam
<1>0. /\ \A d \in Calls : PartyOf(d) \in Parties
      /\ \A d, e \in Calls : PartyOf(d) = PartyOf(e) => d = e
      /\ \A d \in Calls, i \in 1..(Retries + 1) :
            <<d, i>> \in Parties /\ (<<d, i>> = PartyOf(c) <=> d = c /\ i = attempt[c])
  BY PartyOfCall DEF Parties, PartyOf
<1>1. CASE Begin(c)
  BY <1>0, <1>1
  DEF Begin, LeaveOnItsWay, ScheduledOnce, TimersAhead, HandlersBeforeTimers,
         SwitchedBeforeReady, CallbackTimed, PartyOf
<1>2. CASE CreateParty(c)
  BY <1>0, <1>2
  DEF CreateParty, Join, LeaveOnItsWay, ScheduledOnce, TimersAhead, HandlersBeforeTimers,
         SwitchedBeforeReady, CallbackTimed, PartyOf
<1>3. CASE CreateFails(c)
  <2>1. LeaveOnItsWay'
    BY <1>0, <1>3 DEF CreateFails, Join, LeaveOnItsWay
  <2>2. ScheduledOnce'
    BY <1>0, <1>3 DEF CreateFails, Join, ScheduledOnce
  <2>3. TimersAhead'
    BY <1>0, <1>3 DEF CreateFails, Join, TimersAhead
  <2>4. HandlersBeforeTimers'
    BY <1>0, <1>3 DEF CreateFails, Join, HandlersBeforeTimers, PartyOf
  <2>5. SwitchedBeforeReady'
    BY <1>0, <1>3 DEF CreateFails, Join, SwitchedBeforeReady, PartyOf
  <2>6. CallbackTimed'
    BY <1>0, <1>3 DEF CreateFails, Join, CallbackTimed, PartyOf
  <2>7. QED
    BY <2>1, <2>2, <2>3, <2>4, <2>5, <2>6
<1>4. CASE StoreCallbackFails(c)
  BY <1>0, <1>4
  DEF StoreCallbackFails, LeaveOnItsWay, ScheduledOnce, TimersAhead, HandlersBeforeTimers,
         SwitchedBeforeReady, CallbackTimed, PartyOf
<1>5. CASE PartyInfoFound(c)
  BY <1>0, <1>5
  DEF PartyInfoFound, LeaveOnItsWay, ScheduledOnce, TimersAhead, HandlersBeforeTimers,
         SwitchedBeforeReady, CallbackTimed, PartyOf
<1>6. CASE PartyInfoMissing(c)
  BY <1>0, <1>6
  DEF PartyInfoMissing, LeaveOnItsWay, ScheduledOnce, TimersAhead, HandlersBeforeTimers,
         SwitchedBeforeReady, CallbackTimed, PartyOf
<1>7. CASE Spectate(c)
  BY <1>0, <1>7
  DEF Spectate, LeaveOnItsWay, ScheduledOnce, TimersAhead, HandlersBeforeTimers,
         SwitchedBeforeReady, CallbackTimed, PartyOf
<1>8. CASE AutoReady(c)
  BY <1>0, <1>8
  DEF AutoReady, LeaveOnItsWay, ScheduledOnce, TimersAhead, HandlersBeforeTimers,
         SwitchedBeforeReady, CallbackTimed, PartyOf
<1>9. CASE PartyActionFails(c)
  BY <1>0, <1>9
  DEF PartyActionFails, LeaveOnItsWay, ScheduledOnce, TimersAhead, HandlersBeforeTimers,
         SwitchedBeforeReady, CallbackTimed, PartyOf
<1>10. CASE SetReady(c)
  <2>1. LeaveOnItsWay'
    BY <1>0, <1>10 DEF SetReady, LeaveOnItsWay
  <2>2. ScheduledOnce'
    BY <1>0, <1>10 DEF SetReady, ScheduledOnce
  <2>3. TimersAhead'
    BY <1>0, <1>10 DEF SetReady, TimersAhead
  <2>4. HandlersBeforeTimers'
    BY <1>0, <1>10 DEF SetReady, HandlersBeforeTimers, PartyOf
  <2>5. SwitchedBeforeReady'
    BY <1>0, <1>10 DEF SetReady, SwitchedBeforeReady, PartyOf
  <2>6. CallbackTimed'
    BY <1>0, <1>10 DEF SetReady, CallbackTimed, PartyOf
  <2>7. QED
    BY <2>1, <2>2, <2>3, <2>4, <2>5, <2>6
<1>11. CASE HangUp(c)
  BY <1>0, <1>11
  DEF HangUp, Join, LeaveOnItsWay, ScheduledOnce, TimersAhead, HandlersBeforeTimers,
         SwitchedBeforeReady, CallbackTimed, PartyOf
<1>12. CASE StoreCallback(c)
  <2>0. /\ now \in Nat /\ now # 0
        /\ pc[c] = "store" /\ pc' = [pc EXCEPT ![c] = "await"]
        /\ leaveAt' = [leaveAt EXCEPT ![PartyOf(c)] = now + LeaveAfter]
        /\ UNCHANGED <<now, options, attempt, inParty, spectating, ready, born, abandoned>>
    BY <1>12 DEF StoreCallback, TimersAhead
  <2>1. LeaveOnItsWay'
    <3>1. ASSUME NEW d \in Calls, NEW i \in 1..(Retries + 1), <<d, i>> \in inParty \ abandoned
          PROVE  \/ pc'[d] = "store" /\ i = attempt[d] /\ born[<<d, i>>] = now
                 \/ leaveAt'[<<d, i>>] # 0 /\ leaveAt'[<<d, i>>] <= born[<<d, i>>] + LeaveAfter
      <4>1. CASE <<d, i>> = PartyOf(c)
        <5>1. d = c /\ i = attempt[c]
          BY <1>0, <4>1
        <5>2. CASE born[<<d, i>>] = now
          BY <1>0, <2>0, <4>1, <5>2
        <5>3. leaveAt[<<d, i>>] = 0
          BY <1>0, <2>0, <5>1 DEF ScheduledOnce
        <5>4. QED
          BY <3>1, <5>2, <5>3 DEF LeaveOnItsWay
      <4>2. CASE <<d, i>> # PartyOf(c)
        BY <1>0, <2>0, <3>1, <4>2 DEF LeaveOnItsWay
      <4>3. QED
        BY <4>1, <4>2
    <3>2. QED
      BY <2>0, <3>1 DEF LeaveOnItsWay
  <2>2. ScheduledOnce' /\ TimersAhead' /\ HandlersBeforeTimers'
    BY <1>0, <2>0 DEF ScheduledOnce, TimersAhead, HandlersBeforeTimers, PartyOf
  <2>3. SwitchedBeforeReady'
    BY <1>0, <2>0 DEF SwitchedBeforeReady, PartyOf
  <2>4. CallbackTimed'
    <3>1. ASSUME NEW d \in Calls, d # c
          PROVE  /\ leaveAt'[PartyOf(d)] = leaveAt[PartyOf(d)] /\ pc'[d] = pc[d]
                 /\ callbackUntil'[PartyOf(d)] = callbackUntil[PartyOf(d)]
                 /\ PartyOf(d)' = PartyOf(d)
      BY <1>0, <1>12, <2>0, <3>1 DEF StoreCallback, PartyOf
    <3>2. options[c].url = "valid" =>
             callbackUntil'[PartyOf(c)] + LeaveAfter = leaveAt'[PartyOf(c)] + CallbackTtl
      BY <1>0, <1>12, <2>0 DEF StoreCallback
    <3>3. PartyOf(c)' = PartyOf(c)
      BY <2>0 DEF PartyOf
    <3>4. QED
      BY <2>0, <3>1, <3>2, <3>3 DEF CallbackTimed
  <2>5. QED
    BY <2>1, <2>2, <2>3, <2>4
<1>13. QED
  BY <1>1, <1>2, <1>3, <1>4, <1>5, <1>6, <1>7, <1>8, <1>9, <1>10, <1>11, <1>12 DEF CallStep
\* So does every step of the system.
LEMMA NextInv == Inv /\ [Next]_vars => Inv'
<1> SUFFICES ASSUME Inv, [Next]_vars PROVE Inv'
  OBVIOUS
<1>t. TypeOK'
  BY NextTypeOK DEF Inv
<1>p. \A d \in Calls : PartyOf(d) \in Parties
  BY PartyOfCall DEF Inv
<1>q. \A d \in Calls, i \in 1..(Retries + 1) : <<d, i>> \in Parties
  BY DEF Parties
<1>1. CASE \E c \in Calls : CallStep(c)
  BY <1>t, <1>1, CallKeepsInv
<1>2. ASSUME NEW p \in Parties, PartyStep(p)
      PROVE  Inv'
  <2> USE DEF Inv, TypeOK, steam
  <2>1. CASE LeaveParty(p)
    BY <1>t, <1>p, <1>q, <2>1
    DEF LeaveParty, LeaveDue, LeaveOnItsWay, ScheduledOnce, TimersAhead, HandlersBeforeTimers,
        SwitchedBeforeReady, CallbackTimed, PartyOf
  <2>2. CASE LeaveFails(p)
    BY <1>t, <1>p, <1>q, <2>2
    DEF LeaveFails, LeaveDue, LeaveOnItsWay, ScheduledOnce, TimersAhead, HandlersBeforeTimers,
        SwitchedBeforeReady, CallbackTimed, PartyOf
  <2>3. CASE PublishInfo(p)
    BY <1>t, <2>3
    DEF PublishInfo, LeaveOnItsWay, ScheduledOnce, TimersAhead, HandlersBeforeTimers,
        SwitchedBeforeReady, CallbackTimed, PartyOf
  <2>4. QED
    BY <1>2, <2>1, <2>2, <2>3 DEF PartyStep
<1>3. CASE Restart
  BY <1>t, <1>p, <1>q, <1>3
  DEF Restart, Running, steam, Inv, TypeOK, LeaveOnItsWay, ScheduledOnce, TimersAhead,
      HandlersBeforeTimers, SwitchedBeforeReady, CallbackTimed, PartyOf
<1>4. CASE Tick
  <2>1. /\ now \in Nat /\ now' = now + 1
        /\ \A c \in Calls : pc[c] \in {"idle", "ok", "failed"}
        /\ \A p \in Parties : leaveAt[p] # 0 => now + 1 <= leaveAt[p]
        /\ UNCHANGED <<pc, options, attempt, inParty, spectating, ready, born, partyInfo,
                       callbackUntil, leaveAt, abandoned>>
    BY <1>4 DEF Tick, Running, LeaveDue, steam, Inv, TypeOK
  <2>2. LeaveOnItsWay' /\ ScheduledOnce'
    BY <2>1 DEF Inv, LeaveOnItsWay, ScheduledOnce
  <2>3. TimersAhead' /\ HandlersBeforeTimers'
    BY <2>1 DEF Inv, TimersAhead, HandlersBeforeTimers
  <2>4. SwitchedBeforeReady' /\ CallbackTimed'
    BY <2>1 DEF Inv, SwitchedBeforeReady, CallbackTimed, PartyOf
  <2>5. QED
    BY <1>t, <2>2, <2>3, <2>4 DEF Inv
<1>5. CASE UNCHANGED vars
  BY <1>t, <1>5
  DEF vars, steam, Inv, LeaveOnItsWay, ScheduledOnce, TimersAhead, HandlersBeforeTimers,
      SwitchedBeforeReady, CallbackTimed, PartyOf
<1>6. QED
  BY <1>1, <1>2, <1>3, <1>4, <1>5 DEF Next

\* The custom-match state keeps its declared types (routes/v1/matches/custom).
THEOREM TypeCorrect == Spec => []TypeOK
<1>1. Inv => TypeOK
  BY DEF Inv
<1>2. QED
  BY <1>1, InitInv, NextInv, PTL DEF Spec

\* No bot overstays but for one of the known causes (create.rs:286-338).
THEOREM NoUnexplainedOverstay == Spec => []OverstaysAccountedFor
<1>1. Inv => OverstaysAccountedFor
  <2> SUFFICES ASSUME Inv, NEW p \in Parties, Overstays(p), p \notin abandoned
               PROVE  FALSE
    BY DEF OverstaysAccountedFor
  <2>1. PICK c \in Calls, i \in 1..(Retries + 1) : p = <<c, i>>
    BY DEF Parties
  <2>2. CASE pc[c] = "store" /\ born[p] = now
    BY <2>2, ConstantsAssumption DEF Overstays, Inv, TypeOK
  <2>3. CASE leaveAt[p] # 0 /\ leaveAt[p] <= born[p] + LeaveAfter
    BY <2>3, ConstantsAssumption DEF Overstays, Inv, TypeOK, TimersAhead
  <2>4. QED
    BY <2>1, <2>2, <2>3 DEF Overstays, Inv, LeaveOnItsWay
<1>2. QED
  BY <1>1, InitInv, NextInv, PTL DEF Spec

\* A bot is marked ready only after it has left its player slot
\* (create.rs:356-365, ready.rs).
THEOREM ReadyBotsSpectate == Spec => []ReadyImpliesSpectator
<1>1. Inv => ReadyImpliesSpectator
  BY DEF Inv, SwitchedBeforeReady, ReadyImpliesSpectator
<1>2. QED
  BY <1>1, InitInv, NextInv, PTL DEF Spec

\* With a callback TTL longer than the stay, as 20 minutes are than 15, the
\* callback keys outlive the bot's stay (create.rs:303-338).
THEOREM CallbackKept ==
    ASSUME LeaveAfter < CallbackTtl
    PROVE  Spec => []CallbackOutlivesBot
<1>1. Inv => CallbackOutlivesBot
  <2> SUFFICES ASSUME Inv, NEW c \in Calls, pc[c] = "ok", options[c].url = "valid",
                      PartyOf(c) \in inParty \ abandoned
               PROVE  now < callbackUntil[PartyOf(c)]
    BY DEF CallbackOutlivesBot
  <2>1. PartyOf(c) \in Parties /\ attempt[c] \in 1..(Retries + 1)
    BY PartyOfCall DEF Inv, TypeOK
  <2>2. leaveAt[PartyOf(c)] # 0
    BY <2>1 DEF Inv, LeaveOnItsWay, PartyOf
  <2>3. /\ now <= leaveAt[PartyOf(c)]
        /\ callbackUntil[PartyOf(c)] + LeaveAfter = leaveAt[PartyOf(c)] + CallbackTtl
    BY <2>1, <2>2 DEF Inv, TimersAhead, CallbackTimed
  <2>4. QED
    BY <2>1, <2>3, ConstantsAssumption DEF Inv, TypeOK
<1>2. QED
  BY <1>1, InitInv, NextInv, PTL DEF Spec
============================================================================

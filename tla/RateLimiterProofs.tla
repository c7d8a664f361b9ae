------------------------- MODULE RateLimiterProofs -------------------------
(***************************************************************************)
(* Type correctness of RateLimiter, the per-client sliding-window limit,   *)
(* the bound on a global limit's overshoot and whose calls a refusal rests *)
(* on, for every set of calls, clients and quotas.                         *)
(*                                                                         *)
(* The limit alone is not inductive.  Two calls may read the clock in one  *)
(* order and reach Redis in the other, so a call about to be checked may   *)
(* fail to see one that has already passed -- but then that one has seen   *)
(* it.  The call that read the clock last among those that pass saw all    *)
(* the others, and the invariant counts, with the calls that passed, those *)
(* whose pending check a later reader has already overtaken.               *)
(*                                                                         *)
(* The global counter is incremented only after the checks, so the last    *)
(* reader does not see everything: what it cannot see was under way when   *)
(* it read the clock, and no more calls than the server runs at once were. *)
(***************************************************************************)
EXTENDS RateLimiter, FiniteSetTheorems, TLAPS

Stamped(q) ==
    \/ pc[q] \in {"select", "next", "check", "incrGlobal"}
    \/ \E p \in passes : p.req = q

\* q's check of z is on its way and a call that read the clock later has passed.
Overtaken(q, c, z) ==
    /\ pc[q] = "check" /\ client[q] = c /\ checking[q] = z
    /\ \E p \in PassesOf(c, z) : readNo[q] < p.no

Committed(c, z) ==
    {q \in Requests : (\E p \in PassesOf(c, z) : p.req = q) \/ Overtaken(q, c, z)}

RecentStamps(c, z) == Recent({stamp[q] : q \in Committed(c, z)}, z)

\* No clock reading lies in the future.
ReadingsInPast ==
    /\ \A q \in Requests : stamp[q] <= now /\ at[q] <= now
    /\ \A k \in Keys : \A x \in zset[k] : x <= now

\* A key outlives each of its timestamps by the TTL.
KeysOutliveMembers == \A k \in Keys : \A x \in zset[k] : x + MaxTtl <= expires[k]

\* A counted call's timestamp stays until it is a TTL old.
StampsRetained ==
    \A q \in Requests :
        Stamped(q) => stamp[q] \in zset[client[q]] \/ stamp[q] + MaxTtl <= now

PassersStarted ==
    \A p \in passes : pc[p.req] \in {"next", "check", "incrGlobal", "done"} /\ p.no <= reads

\* A check's reading is no earlier than the readings numbered before it.
ChecksOrdered ==
    \A q \in Requests : pc[q] = "check" =>
        /\ readNo[q] <= reads
        /\ stamp[q] <= at[q]
        /\ \A p \in passes : p.no <= readNo[q] => stamp[p.req] <= at[q]
        /\ \A r \in Requests : pc[r] = "check" /\ readNo[r] <= readNo[q] => at[r] <= at[q]

CommittedWithinLimit ==
    \A c \in Clients, z \in Quota :
        z.type # "Global" /\ z.period <= MaxTtl =>
            Cardinality(RecentStamps(c, z)) <= z.limit

Timeline ==
    /\ ReadingsInPast /\ KeysOutliveMembers /\ StampsRetained
    /\ PassersStarted /\ ChecksOrdered
----------------------------------------------------------------------------
\* Type correctness

\* The quotas a call has to check are numbered quotas, whichever list they
\* come from (client.rs:88-104).
LEMMA EffectiveQuotasType ==
    ASSUME NEW c \in Clients, NEW list \in QuotaLists, NEW custom \in CustomAnswers
    PROVE  EffectiveQuotas(c, list, custom) \subseteq [pos : Nat, quota : Quota]
<1>1. ASSUME NEW s \in Seq(Quota)
      PROVE  Numbered(s) \subseteq [pos : Nat, quota : Quota]
  BY DEF Numbered
<1>2. list \in Seq(Quota) /\ custom \in Seq(Quota)
  BY ConstantsAssumption
<1>3. QED
  BY <1>1, <1>2 DEF EffectiveQuotas

\* The initial state has the declared types.
LEMMA InitTypeOK == Init => TypeOK
  BY ConstantsAssumption
  DEF Init, TypeOK, PcState, Result, NoQuota, Quota, QuotaType, Clients, Keys

\* A Redis increment leaves sets of timestamps and an expiry time per key.
LEMMA ExecIncrementType ==
    ASSUME TypeOK, NEW key \in Keys, NEW t \in Nat, ExecIncrement(key, t)
    PROVE  /\ zset' \in [Keys -> SUBSET Nat]
           /\ expires' \in [Keys -> Nat]
  BY ConstantsAssumption DEF TypeOK, ExecIncrement, Trimmed

\* Every step of a call keeps the types.
LEMMA StepTypeOK ==
    ASSUME TypeOK, NEW q \in Requests, Step(q)
    PROVE  TypeOK'
<1> USE DEF TypeOK
<1>0. client[q] \in Keys /\ GlobalKey \in Keys
  BY DEF Keys
<1>1. CASE Refuse(q)
  BY <1>1 DEF Refuse, Finish, PcState, Result, input, history
<1>2. CASE Admit(q)
  BY <1>2 DEF Admit, PcState, input, history
<1>3. CASE IncrementClient(q)
  BY <1>0, <1>3, ExecIncrementType DEF IncrementClient, PcState, input, history
<1>4. CASE IncrementFails(q)
  BY <1>0, <1>4, ExecIncrementType DEF IncrementFails, Finish, PcState, Result, input, history
<1>5. CASE SelectQuotas(q)
  <2>1. PICK custom \in CustomAnswers :
           plan' = [plan EXCEPT ![q] = EffectiveQuotas(client[q], quotas[q], custom)]
    BY <1>5 DEF SelectQuotas
  <2>2. plan' \in [Requests -> SUBSET [pos : Nat, quota : Quota]]
    BY <2>1, EffectiveQuotasType
  <2>3. QED
    BY <1>5, <2>2 DEF SelectQuotas, PcState, input, history
<1>6. CASE BeginCheck(q)
  BY <1>6 DEF BeginCheck, PcState, input
<1>7. CASE PassCheck(q)
  BY <1>7 DEF PassCheck, PcState, input
<1>8. CASE DenyCheck(q)
  BY <1>8 DEF DenyCheck, Finish, PcState, Result, input, history
<1>9. CASE CheckFails(q)
  BY <1>9 DEF CheckFails, PcState, input, history
<1>10. CASE AllChecked(q)
  BY <1>10 DEF AllChecked, PcState, input, history
<1>11. CASE IncrementGlobal(q)
  BY <1>0, <1>11, ExecIncrementType DEF IncrementGlobal, Finish, PcState, Result, input, history
<1>12. QED
  BY <1>1, <1>2, <1>3, <1>4, <1>5, <1>6, <1>7, <1>8, <1>9, <1>10, <1>11 DEF Step

\* So does every step of the system.
LEMMA NextTypeOK == TypeOK /\ [Next]_vars => TypeOK'
<1> SUFFICES ASSUME TypeOK, [Next]_vars PROVE TypeOK'
  OBVIOUS
<1>1. CASE \E q \in Requests : Step(q)
  BY <1>1, StepTypeOK
<1>2. CASE \E k \in Keys : ExpireKey(k)
  BY <1>2 DEF ExpireKey, TypeOK, input, history
<1>3. CASE Tick
  BY <1>3 DEF Tick, TypeOK, input, history
<1>4. CASE UNCHANGED vars
  BY <1>4 DEF vars, TypeOK, input
<1>5. QED
  BY <1>1, <1>2, <1>3, <1>4 DEF Next

\* Every variable of the rate limiter keeps its declared type (the state of
\* client.rs apply_limits).
THEOREM TypeCorrect == Spec => []TypeOK
<1>1. QED
  BY InitTypeOK, NextTypeOK, PTL DEF Spec
----------------------------------------------------------------------------
\* The timeline of readings

\* Nothing has happened yet.
LEMMA InitTimeline == Init => Timeline
  BY ConstantsAssumption
  DEF Init, Timeline, ReadingsInPast, KeysOutliveMembers, StampsRetained,
      Stamped, PassersStarted, ChecksOrdered

\* A call's increment keeps the members that are younger than a TTL and leaves
\* the other keys alone.
LEMMA ExecIncrementTimeline ==
    ASSUME TypeOK, Timeline, NEW key \in Keys, NEW t \in Nat, t <= now,
           ExecIncrement(key, t)
    PROVE  /\ \A k \in Keys : \A x \in zset'[k] : x <= now /\ x + MaxTtl <= expires'[k]
           /\ t \in zset'[key]
           /\ \A k \in Keys : \A x \in zset[k] : x \in zset'[k] \/ x + MaxTtl <= now
<1> USE DEF TypeOK, ExecIncrement, Trimmed
<1>1. MaxTtl \in Nat
  BY ConstantsAssumption
<1>2. ASSUME NEW k \in Keys, NEW x \in zset'[k]
      PROVE  x <= now /\ x + MaxTtl <= expires'[k]
  <2>1. CASE k # key
    BY <2>1 DEF Timeline, ReadingsInPast, KeysOutliveMembers
  <2>2. CASE k = key
    <3>1. x \in Nat /\ x <= now
      BY <2>2 DEF Timeline, ReadingsInPast
    <3>2. QED
      BY <1>1, <2>2, <3>1
  <2>3. QED
    BY <2>1, <2>2
<1>3. t \in zset'[key]
  OBVIOUS
<1>4. ASSUME NEW k \in Keys, NEW x \in zset[k]
      PROVE  x \in zset'[k] \/ x + MaxTtl <= now
  BY <1>1
<1>5. QED
  BY <1>2, <1>3, <1>4

\* A step that leaves Redis, the readings and the passes alone, begins no check
\* and makes no call counted keeps the timeline.
QuietStep ==
    /\ UNCHANGED <<now, zset, expires, client, at, stamp, reads, readNo, passes>>
    /\ \A q \in Requests :
          /\ pc'[q] = "check" => pc[q] = "check"
          /\ pc'[q] \in {"select", "next", "check", "incrGlobal"} =>
                pc[q] \in {"select", "next", "check", "incrGlobal"}
          /\ pc[q] \in {"next", "check", "incrGlobal", "done"} =>
                pc'[q] \in {"next", "check", "incrGlobal", "done"}

\* A quiet step keeps the timeline.
LEMMA QuietStepTimeline ==
    ASSUME TypeOK, Timeline, QuietStep
    PROVE  Timeline'
<1> USE DEF TypeOK, QuietStep
<1>1. ReadingsInPast' /\ KeysOutliveMembers'
  BY DEF Timeline, ReadingsInPast, KeysOutliveMembers
<1>2. StampsRetained'
  BY DEF Timeline, StampsRetained, Stamped
<1>3. PassersStarted'
  BY DEF Timeline, PassersStarted
<1>4. ChecksOrdered'
  BY DEF Timeline, ChecksOrdered
<1>5. QED
  BY <1>1, <1>2, <1>3, <1>4 DEF Timeline
\* Every step of a call keeps the timeline.
LEMMA StepTimeline ==
    ASSUME TypeOK, Timeline, NEW q \in Requests, Step(q)
    PROVE  Timeline'
<1> USE DEF TypeOK
<1>k. client[q] \in Keys /\ GlobalKey \in Keys /\ (\A r \in Requests : client[r] \in Keys)
  BY DEF Keys
<1>n. stamp[q] <= now /\ at[q] <= now
  BY DEF Timeline, ReadingsInPast
<1>1. CASE Refuse(q)
  BY <1>1, QuietStepTimeline DEF Refuse, Finish, QuietStep, input, history
<1>2. CASE Admit(q)
  <2>0. /\ pc[q] = "idle"
        /\ stamp' = [stamp EXCEPT ![q] = now]
        /\ pc' = [pc EXCEPT ![q] = "incrClient"]
        /\ UNCHANGED <<now, zset, expires, client, at, reads, readNo, passes>>
    BY <1>2 DEF Admit, input, history
  <2>1. \A p \in passes : p.req # q
    BY <2>0 DEF Timeline, PassersStarted
  <2>2. ReadingsInPast' /\ KeysOutliveMembers' /\ PassersStarted'
    BY <2>0, <2>1 DEF Timeline, ReadingsInPast, KeysOutliveMembers, PassersStarted
  <2>3. StampsRetained'
    BY <2>0, <2>1 DEF Timeline, StampsRetained, Stamped
  <2>4. ChecksOrdered'
    BY <2>0, <2>1 DEF Timeline, ChecksOrdered
  <2>5. QED
    BY <2>2, <2>3, <2>4 DEF Timeline
<1>3. CASE IncrementClient(q)
  <2>0. /\ pc[q] = "incrClient"
        /\ ExecIncrement(client[q], stamp[q])
        /\ pc' = [pc EXCEPT ![q] = "select"]
        /\ UNCHANGED <<now, client, at, stamp, reads, readNo, passes>>
    BY <1>3 DEF IncrementClient, input, history
  <2>1. /\ \A k \in Keys : \A x \in zset'[k] : x <= now /\ x + MaxTtl <= expires'[k]
        /\ stamp[q] \in zset'[client[q]]
        /\ \A k \in Keys : \A x \in zset[k] : x \in zset'[k] \/ x + MaxTtl <= now
    BY <1>k, <1>n, <2>0, ExecIncrementTimeline
  <2>2. ReadingsInPast' /\ KeysOutliveMembers'
    BY <2>0, <2>1 DEF Timeline, ReadingsInPast, KeysOutliveMembers
  <2>3. StampsRetained'
    BY <1>k, <2>0, <2>1 DEF Timeline, StampsRetained, Stamped
  <2>4. PassersStarted' /\ ChecksOrdered'
    BY <2>0 DEF Timeline, PassersStarted, ChecksOrdered
  <2>5. QED
    BY <2>2, <2>3, <2>4 DEF Timeline
<1>4. CASE IncrementFails(q)
  <2>0. /\ pc[q] \in {"incrClient", "incrGlobal"}
        /\ pc' = [pc EXCEPT ![q] = "done"]
        /\ UNCHANGED <<now, client, at, stamp, reads, readNo, passes>>
    BY <1>4 DEF IncrementFails, Finish, input, history
  <2>1. /\ \A k \in Keys : \A x \in zset'[k] : x <= now /\ x + MaxTtl <= expires'[k]
        /\ \A k \in Keys : \A x \in zset[k] : x \in zset'[k] \/ x + MaxTtl <= now
    <3>1. CASE ExecIncrement(client[q], stamp[q])
      BY <1>k, <1>n, <3>1, ExecIncrementTimeline
    <3>2. CASE ExecIncrement(GlobalKey, at[q])
      BY <1>k, <1>n, <3>2, ExecIncrementTimeline
    <3>3. CASE UNCHANGED <<zset, expires>>
      BY <3>3 DEF Timeline, ReadingsInPast, KeysOutliveMembers
    <3>4. QED
      BY <1>4, <3>1, <3>2, <3>3 DEF IncrementFails
  <2>2. ReadingsInPast' /\ KeysOutliveMembers'
    BY <2>0, <2>1 DEF Timeline, ReadingsInPast, KeysOutliveMembers
  <2>3. StampsRetained'
    BY <1>k, <2>0, <2>1 DEF Timeline, StampsRetained, Stamped
  <2>4. PassersStarted' /\ ChecksOrdered'
    BY <2>0 DEF Timeline, PassersStarted, ChecksOrdered
  <2>5. QED
    BY <2>2, <2>3, <2>4 DEF Timeline
<1>5. CASE SelectQuotas(q)
  BY <1>5, QuietStepTimeline DEF SelectQuotas, QuietStep, input, history
<1>6. CASE BeginCheck(q)
  <2>0. /\ pc[q] = "next"
        /\ at' = [at EXCEPT ![q] = now]
        /\ pc' = [pc EXCEPT ![q] = "check"]
        /\ reads' = reads + 1
        /\ readNo' = [readNo EXCEPT ![q] = reads + 1]
        /\ UNCHANGED <<now, zset, expires, client, stamp, passes>>
    BY <1>6 DEF BeginCheck, input
  <2>1. ReadingsInPast' /\ KeysOutliveMembers'
    BY <2>0 DEF Timeline, ReadingsInPast, KeysOutliveMembers
  <2>2. StampsRetained'
    BY <2>0 DEF Timeline, StampsRetained, Stamped
  <2>3. PassersStarted'
    BY <2>0 DEF Timeline, PassersStarted
  <2>4. ASSUME NEW r \in Requests, pc'[r] = "check"
        PROVE  /\ readNo'[r] <= reads' /\ stamp'[r] <= at'[r]
               /\ \A p \in passes' : p.no <= readNo'[r] => stamp'[p.req] <= at'[r]
    BY <2>0, <2>4 DEF Timeline, ChecksOrdered, ReadingsInPast
  <2>5. ASSUME NEW r \in Requests, NEW t \in Requests, pc'[r] = "check", pc'[t] = "check",
               readNo'[t] <= readNo'[r]
        PROVE  at'[t] <= at'[r]
    <3>1. CASE r = q
      BY <2>0, <3>1 DEF Timeline, ReadingsInPast
    <3>2. CASE r # q
      <4>1. readNo[r] <= reads
        BY <2>0, <2>5, <3>2 DEF Timeline, ChecksOrdered
      <4>2. t # q
        BY <2>0, <2>5, <3>2, <4>1
      <4>3. QED
        BY <2>0, <2>5, <3>2, <4>2 DEF Timeline, ChecksOrdered
    <3>3. QED
      BY <3>1, <3>2
  <2>6. ChecksOrdered'
    BY <2>4, <2>5 DEF ChecksOrdered
  <2>7. QED
    BY <2>1, <2>2, <2>3, <2>6 DEF Timeline
<1>7. CASE PassCheck(q)
  <2>0. /\ pc[q] = "check"
        /\ passes' = passes \cup {[req |-> q, quota |-> checking[q], no |-> readNo[q]]}
        /\ pc' = [pc EXCEPT ![q] = "next"]
        /\ UNCHANGED <<now, zset, expires, client, at, stamp, reads, readNo>>
    BY <1>7 DEF PassCheck, input
  <2>1. ReadingsInPast' /\ KeysOutliveMembers'
    BY <2>0 DEF Timeline, ReadingsInPast, KeysOutliveMembers
  <2>2. StampsRetained'
    BY <2>0 DEF Timeline, StampsRetained, Stamped
  <2>3. PassersStarted'
    BY <2>0 DEF Timeline, PassersStarted, ChecksOrdered
  <2>4. ChecksOrdered'
    BY <2>0 DEF Timeline, ChecksOrdered
  <2>5. QED
    BY <2>1, <2>2, <2>3, <2>4 DEF Timeline
<1>8. CASE DenyCheck(q)
  BY <1>8, QuietStepTimeline DEF DenyCheck, Finish, QuietStep, input, history
<1>9. CASE CheckFails(q)
  BY <1>9, QuietStepTimeline DEF CheckFails, QuietStep, input, history
<1>10. CASE AllChecked(q)
  <2>0. /\ pc[q] = "next"
        /\ at' = [at EXCEPT ![q] = now]
        /\ pc' = [pc EXCEPT ![q] = "incrGlobal"]
        /\ UNCHANGED <<now, zset, expires, client, stamp, reads, readNo, passes>>
    BY <1>10 DEF AllChecked, input, history
  <2>1. ReadingsInPast' /\ KeysOutliveMembers' /\ PassersStarted'
    BY <2>0 DEF Timeline, ReadingsInPast, KeysOutliveMembers, PassersStarted
  <2>2. StampsRetained'
    BY <2>0 DEF Timeline, StampsRetained, Stamped
  <2>3. ChecksOrdered'
    BY <2>0 DEF Timeline, ChecksOrdered
  <2>4. QED
    BY <2>1, <2>2, <2>3 DEF Timeline
<1>11. CASE IncrementGlobal(q)
  <2>0. /\ pc[q] = "incrGlobal"
        /\ ExecIncrement(GlobalKey, at[q])
        /\ pc' = [pc EXCEPT ![q] = "done"]
        /\ UNCHANGED <<now, client, at, stamp, reads, readNo, passes>>
    BY <1>11 DEF IncrementGlobal, Finish, input, history
  <2>1. /\ \A k \in Keys : \A x \in zset'[k] : x <= now /\ x + MaxTtl <= expires'[k]
        /\ \A k \in Keys : \A x \in zset[k] : x \in zset'[k] \/ x + MaxTtl <= now
    BY <1>k, <1>n, <2>0, ExecIncrementTimeline
  <2>2. ReadingsInPast' /\ KeysOutliveMembers'
    BY <2>0, <2>1 DEF Timeline, ReadingsInPast, KeysOutliveMembers
  <2>3. StampsRetained'
    BY <1>k, <2>0, <2>1 DEF Timeline, StampsRetained, Stamped
  <2>4. PassersStarted' /\ ChecksOrdered'
    BY <2>0 DEF Timeline, PassersStarted, ChecksOrdered
  <2>5. QED
    BY <2>2, <2>3, <2>4 DEF Timeline
<1>12. QED
  BY <1>1, <1>2, <1>3, <1>4, <1>5, <1>6, <1>7, <1>8, <1>9, <1>10, <1>11 DEF Step

\* So does every step of the system.
LEMMA NextTimeline == TypeOK /\ Timeline /\ [Next]_vars => Timeline'
<1> SUFFICES ASSUME TypeOK, Timeline, [Next]_vars PROVE Timeline'
  OBVIOUS
<1>1. CASE \E q \in Requests : Step(q)
  BY <1>1, StepTimeline
<1>2. CASE \E k \in Keys : ExpireKey(k)
  <2>1. PICK k \in Keys : ExpireKey(k)
    BY <1>2
  <2>2. \A x \in zset[k] : x + MaxTtl <= now
    BY <2>1, ConstantsAssumption DEF ExpireKey, TypeOK, Timeline, KeysOutliveMembers
  <2>3. UNCHANGED <<now, expires, pc, client, at, stamp, reads, readNo, passes>>
    BY <2>1 DEF ExpireKey, input, history
  <2>4. ReadingsInPast' /\ KeysOutliveMembers'
    BY <2>1, <2>3 DEF ExpireKey, TypeOK, Timeline, ReadingsInPast, KeysOutliveMembers
  <2>5. StampsRetained'
    BY <2>1, <2>2, <2>3 DEF ExpireKey, TypeOK, Keys, Timeline, StampsRetained, Stamped
  <2>6. PassersStarted' /\ ChecksOrdered'
    BY <2>3 DEF Timeline, PassersStarted, ChecksOrdered
  <2>7. QED
    BY <2>4, <2>5, <2>6 DEF Timeline
<1>3. CASE Tick
  <2>1. /\ now' = now + 1 /\ now \in Nat
        /\ UNCHANGED <<zset, expires, pc, client, at, stamp, reads, readNo, passes>>
    BY <1>3 DEF Tick, TypeOK, input, history
  <2>2. ReadingsInPast' /\ KeysOutliveMembers'
    BY <2>1 DEF TypeOK, Timeline, ReadingsInPast, KeysOutliveMembers
  <2>3. StampsRetained'
    <3>1. \A q \in Requests : Stamped(q)' = Stamped(q)
      BY <2>1 DEF Stamped
    <3>2. MaxTtl \in Nat /\ (\A q \in Requests : stamp[q] \in Nat)
      BY ConstantsAssumption DEF TypeOK
    <3>3. QED
      BY <2>1, <3>1, <3>2 DEF Timeline, StampsRetained
  <2>4. PassersStarted' /\ ChecksOrdered'
    BY <2>1 DEF Timeline, PassersStarted, ChecksOrdered
  <2>5. QED
    BY <2>2, <2>3, <2>4 DEF Timeline
<1>4. CASE UNCHANGED vars
  BY <1>4 DEF vars, input, Timeline, ReadingsInPast, KeysOutliveMembers, StampsRetained,
              Stamped, PassersStarted, ChecksOrdered
<1>5. QED
  BY <1>1, <1>2, <1>3, <1>4 DEF Next
----------------------------------------------------------------------------
\* The limit

\* The timestamps counted for a client and a quota are finitely many.
LEMMA RecentStampsFinite ==
    ASSUME TypeOK, Timeline, NEW c \in Clients, NEW z \in Quota
    PROVE  IsFiniteSet(RecentStamps(c, z))
<1>1. RecentStamps(c, z) \subseteq 0..now
  BY DEF RecentStamps, Recent, Committed, Timeline, ReadingsInPast, TypeOK
<1>2. IsFiniteSet(0..now)
  BY FS_Interval DEF TypeOK
<1>3. QED
  BY <1>1, <1>2, FS_Subset

\* A step after which no call passes and no pending check is newly overtaken
\* keeps the count within the limit: time can only take timestamps out of it.
LEMMA NoPassKeepsLimit ==
    ASSUME TypeOK, Timeline, CommittedWithinLimit,
           now' \in Nat, now <= now', UNCHANGED <<client, passes>>,
           \A r \in Requests : stamp'[r] = stamp[r] \/ pc[r] = "idle",
           \A r \in Requests : pc'[r] = "check" =>
              \/ pc[r] = "check" /\ checking'[r] = checking[r] /\ readNo'[r] = readNo[r]
              \/ readNo'[r] = reads + 1
    PROVE  CommittedWithinLimit'
<1> SUFFICES ASSUME NEW c \in Clients, NEW z \in Quota,
                    z.type # "Global", z.period <= MaxTtl
             PROVE  Cardinality(RecentStamps(c, z)') <= z.limit
  BY DEF CommittedWithinLimit
<1>1. PassesOf(c, z)' = PassesOf(c, z)
  BY DEF PassesOf
<1>2. \A p \in PassesOf(c, z) : p \in passes /\ p.no \in Nat /\ p.no <= reads
  BY DEF PassesOf, TypeOK, Timeline, PassersStarted
<1>3. \A r \in Requests : Overtaken(r, c, z)' => Overtaken(r, c, z)
  BY <1>1, <1>2 DEF Overtaken, TypeOK
<1>4. Committed(c, z)' \subseteq Committed(c, z)
  BY <1>1, <1>3 DEF Committed
<1>5. \A r \in Committed(c, z) : r \in Requests /\ pc[r] # "idle"
  BY <1>2 DEF Committed, Overtaken, Timeline, PassersStarted
<1>6. RecentStamps(c, z)' \subseteq RecentStamps(c, z)
  <2>1. ASSUME NEW r \in Committed(c, z)', stamp'[r] + z.period > now'
        PROVE  stamp'[r] = stamp[r] /\ stamp[r] + z.period > now
    BY <1>4, <1>5, <2>1 DEF TypeOK, Quota
  <2>2. QED
    BY <1>4, <2>1 DEF RecentStamps, Recent
<1>7. Cardinality(RecentStamps(c, z)') <= Cardinality(RecentStamps(c, z))
  BY <1>6, RecentStampsFinite, FS_Subset
<1>8. IsFiniteSet(RecentStamps(c, z)')
  BY <1>6, RecentStampsFinite, FS_Subset
<1>9. QED
  BY <1>7, <1>8, RecentStampsFinite, FS_CardinalityType
     DEF CommittedWithinLimit, Quota

\* What a passing check saw is at most `limit` timestamps, its own among them
\* (client.rs:164 takes one off, types.rs:63 refuses at the limit).
LEMMA SeenWithinLimit ==
    ASSUME TypeOK, NEW q \in Requests, Passing(q)
    PROVE  IsFiniteSet(Seen(q)) /\ Cardinality(Seen(q)) <= checking[q].limit
<1>1. Seen(q) \subseteq 0..at[q]
  BY DEF Seen, InWindow, KeyOf, TypeOK, Keys
<1>2. IsFiniteSet(Seen(q))
  <2>1. IsFiniteSet(0..at[q])
    BY FS_Interval DEF TypeOK
  <2>2. QED
    BY <1>1, <2>1, FS_Subset
<1>3. Cardinality(Seen(q)) \in Nat /\ checking[q].limit \in Nat
  BY <1>2, FS_CardinalityType DEF TypeOK, Quota
<1>4. Seen(q) = {} => Cardinality(Seen(q)) = 0
  BY FS_EmptySet
<1>5. QED
  BY <1>2, <1>3, <1>4 DEF Passing, Exceeded, RequestCount
\* A passing check keeps the count within the limit.  Either a later reader has
\* passed already and the call was counted, or every counted call read the
\* clock earlier and its timestamp is among those the check saw.
LEMMA PassKeepsLimit ==
    ASSUME TypeOK, Timeline, CommittedWithinLimit, NEW q \in Requests, PassCheck(q)
    PROVE  CommittedWithinLimit'
<1> DEFINE pass == [req |-> q, quota |-> checking[q], no |-> readNo[q]]
<1> SUFFICES ASSUME NEW c \in Clients, NEW z \in Quota,
                    z.type # "Global", z.period <= MaxTtl
             PROVE  Cardinality(RecentStamps(c, z)') <= z.limit
  BY DEF CommittedWithinLimit
<1>0. /\ pc[q] = "check" /\ Passing(q)
      /\ passes' = passes \cup {pass}
      /\ pc' = [pc EXCEPT ![q] = "next"]
      /\ UNCHANGED <<now, zset, client, at, stamp, checking, readNo>>
  BY DEF PassCheck, input
<1>1. \A r \in Requests : pc'[r] = "check" => r # q /\ pc[r] = "check"
  BY <1>0 DEF TypeOK
<1>2. ASSUME Committed(c, z)' \subseteq Committed(c, z)
      PROVE  Cardinality(RecentStamps(c, z)') <= z.limit
  <2>1. RecentStamps(c, z)' \subseteq RecentStamps(c, z)
    BY <1>0, <1>2 DEF RecentStamps, Recent
  <2>2. /\ IsFiniteSet(RecentStamps(c, z)')
        /\ Cardinality(RecentStamps(c, z)') <= Cardinality(RecentStamps(c, z))
    BY <2>1, RecentStampsFinite, FS_Subset
  <2>3. QED
    BY <2>2, RecentStampsFinite, FS_CardinalityType DEF CommittedWithinLimit, Quota
<1>3. CASE ~(checking[q] = z /\ client[q] = c)
  <2>1. PassesOf(c, z)' = PassesOf(c, z)
    BY <1>0, <1>3 DEF PassesOf
  <2>2. Committed(c, z)' \subseteq Committed(c, z)
    BY <1>0, <1>1, <2>1 DEF Committed, Overtaken
  <2>3. QED
    BY <1>2, <2>2
<1>4. CASE checking[q] = z /\ client[q] = c
  <2>1. PassesOf(c, z)' = PassesOf(c, z) \cup {pass}
    BY <1>0, <1>4 DEF PassesOf
  <2>2. CASE Overtaken(q, c, z)
    <3>1. PICK p \in PassesOf(c, z) : readNo[q] < p.no
      BY <2>2 DEF Overtaken
    <3>2. p.no \in Nat
      BY DEF PassesOf, TypeOK
    <3>3. ASSUME NEW r \in Requests, Overtaken(r, c, z)'
          PROVE  Overtaken(r, c, z)
      <4>1. pc[r] = "check" /\ client[r] = c /\ checking[r] = z
        BY <1>0, <1>1, <3>3 DEF Overtaken
      <4>2. PICK s \in PassesOf(c, z)' : readNo[r] < s.no
        BY <1>0, <3>3 DEF Overtaken
      <4>3. CASE s = pass
        BY <3>1, <3>2, <4>1, <4>2, <4>3 DEF Overtaken, TypeOK
      <4>4. CASE s # pass
        BY <2>1, <4>1, <4>2, <4>4 DEF Overtaken
      <4>5. QED
        BY <4>3, <4>4
    <3>4. Committed(c, z)' \subseteq Committed(c, z)
      BY <2>1, <2>2, <3>3 DEF Committed
    <3>5. QED
      BY <1>2, <3>4
  <2>3. CASE ~Overtaken(q, c, z)
    <3>1. ASSUME NEW p \in PassesOf(c, z)
          PROVE  /\ p \in passes /\ p.req \in Requests /\ client[p.req] = c
                 /\ p.no \in Nat /\ p.no <= readNo[q]
      BY <1>0, <1>4, <2>3 DEF Overtaken, PassesOf, TypeOK
    <3>2. ASSUME NEW r \in Committed(c, z)'
          PROVE  /\ r \in Requests /\ client[r] = c
                 /\ stamp[r] \in Nat /\ stamp[r] <= at[q] /\ Stamped(r)
      <4>1. CASE r = q
        BY <1>0, <1>4, <4>1 DEF Timeline, ChecksOrdered, Stamped, TypeOK
      <4>2. CASE r # q /\ \E p \in PassesOf(c, z)' : p.req = r
        <5>1. PICK p \in PassesOf(c, z) : p.req = r
          BY <2>1, <4>2
        <5>2. QED
          BY <1>0, <3>1, <5>1 DEF Timeline, ChecksOrdered, Stamped, TypeOK
      <4>3. CASE Overtaken(r, c, z)'
        <5>1. r \in Requests /\ pc[r] = "check" /\ client[r] = c
          BY <1>0, <1>1, <3>2, <4>3 DEF Overtaken, Committed
        <5>2. PICK p \in PassesOf(c, z)' : readNo[r] < p.no
          BY <1>0, <4>3 DEF Overtaken
        <5>3. p.no <= readNo[q] /\ p.no \in Nat
          BY <2>1, <3>1, <5>2 DEF TypeOK
        <5>4. readNo[r] <= readNo[q]
          BY <5>1, <5>2, <5>3 DEF TypeOK
        <5>5. stamp[r] <= at[r] /\ at[r] <= at[q]
          BY <1>0, <5>1, <5>4 DEF Timeline, ChecksOrdered
        <5>6. QED
          BY <5>1, <5>5 DEF TypeOK, Stamped
      <4>4. QED
        BY <3>2, <4>1, <4>2, <4>3 DEF Committed
    <3>3. RecentStamps(c, z)' \subseteq Seen(q)
      <4>1. ASSUME NEW r \in Committed(c, z)', stamp[r] + z.period > now
            PROVE  stamp[r] \in Seen(q)
        <5>1. z.period \in Nat /\ MaxTtl \in Nat /\ now \in Nat /\ at[q] \in Nat /\ at[q] <= now
          BY ConstantsAssumption DEF Quota, TypeOK, Timeline, ReadingsInPast
        <5>2. stamp[r] \in zset[c]
          BY <3>2, <4>1, <5>1 DEF Timeline, StampsRetained
        <5>3. stamp[r] <= at[q] /\ at[q] <= stamp[r] + z.period
          BY <3>2, <4>1, <5>1
        <5>4. QED
          BY <1>4, <5>2, <5>3 DEF Seen, InWindow, KeyOf
      <4>2. QED
        BY <1>0, <4>1 DEF RecentStamps, Recent
    <3>4. /\ IsFiniteSet(Seen(q)) /\ Cardinality(Seen(q)) <= z.limit
      BY <1>0, <1>4, SeenWithinLimit
    <3>5. /\ IsFiniteSet(RecentStamps(c, z)')
          /\ Cardinality(RecentStamps(c, z)') <= Cardinality(Seen(q))
      BY <3>3, <3>4, FS_Subset
    <3>6. QED
      BY <3>4, <3>5, FS_CardinalityType DEF Quota
  <2>4. QED
    BY <2>2, <2>3
<1>5. QED
  BY <1>3, <1>4

\* Every step keeps the count within the limit.
LEMMA NextKeepsLimit ==
    TypeOK /\ Timeline /\ CommittedWithinLimit /\ [Next]_vars => CommittedWithinLimit'
<1> SUFFICES ASSUME TypeOK, Timeline, CommittedWithinLimit, [Next]_vars
             PROVE  CommittedWithinLimit'
  OBVIOUS
<1>n. now \in Nat
  BY DEF TypeOK
<1>1. ASSUME NEW q \in Requests, Step(q), ~PassCheck(q)
      PROVE  CommittedWithinLimit'
  <2>1. UNCHANGED <<now, client, passes>>
    BY <1>1 DEF Step, Refuse, Admit, IncrementClient, IncrementFails, SelectQuotas, BeginCheck,
                DenyCheck, CheckFails, AllChecked, IncrementGlobal, input, history
  <2>2. \A r \in Requests : stamp'[r] = stamp[r] \/ pc[r] = "idle"
    BY <1>1 DEF Step, Refuse, Admit, IncrementClient, IncrementFails, SelectQuotas, BeginCheck,
                DenyCheck, CheckFails, AllChecked, IncrementGlobal, TypeOK
  <2>3. \A r \in Requests : pc'[r] = "check" =>
           \/ pc[r] = "check" /\ checking'[r] = checking[r] /\ readNo'[r] = readNo[r]
           \/ readNo'[r] = reads + 1
    BY <1>1 DEF Step, Refuse, Admit, IncrementClient, IncrementFails, SelectQuotas, BeginCheck,
                DenyCheck, CheckFails, AllChecked, IncrementGlobal, Finish, TypeOK, history
  <2>4. QED
    BY <1>n, <2>1, <2>2, <2>3, NoPassKeepsLimit
<1>2. CASE \E q \in Requests : Step(q)
  BY <1>1, <1>2, PassKeepsLimit
<1>3. CASE \E k \in Keys : ExpireKey(k)
  BY <1>n, <1>3, NoPassKeepsLimit DEF ExpireKey, input, history
<1>4. CASE Tick
  BY <1>n, <1>4, NoPassKeepsLimit DEF Tick, input, history
<1>5. CASE UNCHANGED vars
  BY <1>n, <1>5, NoPassKeepsLimit DEF vars, input
<1>6. QED
  BY <1>2, <1>3, <1>4, <1>5 DEF Next

\* The calls counted include those that passed, so the property follows.
LEMMA CommittedImpliesLimit ==
    TypeOK /\ Timeline /\ CommittedWithinLimit => SlidingWindowLimit
<1> SUFFICES ASSUME TypeOK, Timeline, CommittedWithinLimit,
                    NEW c \in Clients, NEW z \in CheckedQuotas,
                    z.type # "Global", z.period <= MaxTtl
             PROVE  Cardinality(Recent({stamp[p.req] : p \in PassesOf(c, z)}, z)) <= z.limit
  BY DEF SlidingWindowLimit
<1> DEFINE S == Recent({stamp[p.req] : p \in PassesOf(c, z)}, z)
<1>1. z \in Quota
  BY DEF CheckedQuotas, TypeOK
<1>2. \A p \in PassesOf(c, z) : p.req \in Committed(c, z)
  BY DEF Committed, PassesOf, TypeOK
<1>3. S \subseteq RecentStamps(c, z)
  BY <1>2 DEF RecentStamps, Recent
<1>4. IsFiniteSet(S) /\ Cardinality(S) <= Cardinality(RecentStamps(c, z))
  BY <1>1, <1>3, RecentStampsFinite, FS_Subset
<1>5. QED
  BY <1>1, <1>4, RecentStampsFinite, FS_CardinalityType DEF CommittedWithinLimit, Quota

\* No client ever gets more than a per-client quota's limit of timestamps past
\* that quota within one of its periods (client.rs apply_limits).
THEOREM SlidingWindowHolds == Spec => []SlidingWindowLimit
<1>1. Init => CommittedWithinLimit
  <2> SUFFICES ASSUME Init, NEW c \in Clients, NEW z \in Quota
               PROVE  Cardinality(RecentStamps(c, z)) <= z.limit
    BY DEF CommittedWithinLimit
  <2>1. RecentStamps(c, z) = {}
    BY DEF Init, RecentStamps, Recent, Committed, Overtaken, PassesOf
  <2>2. QED
    BY <2>1, FS_EmptySet DEF Quota
<1>2. QED
  BY <1>1, InitTypeOK, InitTimeline, NextTypeOK, NextTimeline, NextKeepsLimit,
     CommittedImpliesLimit, PTL DEF Spec
----------------------------------------------------------------------------
\* A refusal is the client's own doing

\* Time has begun, only a call that was never admitted has no reading, and one
\* that has a result has ended.
CallsEnd ==
    /\ now # 0
    /\ \A q \in Requests : /\ pc[q] = "idle" => stamp[q] = 0
                           /\ stamp[q] = 0 => pc[q] \in {"idle", "done"}
                           /\ result[q] # "none" => pc[q] = "done"

\* Under a client's key are the readings of its own calls.
MembersOwned ==
    \A c \in Clients : \A x \in zset[c] :
        \E r \in Requests : client[r] = c /\ stamp[r] = x /\ stamp[r] # 0

\* The other calls of q's client whose timestamps q's last check looked at.
InView(q) ==
    {r \in Requests \ {q} :
        /\ client[r] = client[q]
        /\ stamp[r] # 0
        /\ stamp[r] <= at[q]
        /\ at[q] <= stamp[r] + checking[q].period}

\* Every step of a call leaves the calls of others, and the calls that ended, alone.
LEMMA StepCalls ==
    ASSUME TypeOK, NEW q \in Requests, Step(q)
    PROVE  /\ UNCHANGED <<now, client>> /\ pc[q] # "done"
           /\ \A r \in Requests \ {q} : /\ pc'[r] = pc[r] /\ stamp'[r] = stamp[r] /\ at'[r] = at[r]
                                        /\ checking'[r] = checking[r] /\ result'[r] = result[r]
           /\ stamp'[q] = stamp[q] \/ (pc[q] = "idle" /\ stamp'[q] = now /\ pc'[q] = "incrClient")
           /\ pc'[q] # "idle" /\ (pc'[q] = "done" \/ result'[q] = result[q])
           /\ pc[q] = "idle" => pc'[q] = "done" \/ stamp'[q] = now
<1> USE DEF TypeOK, Finish, input, history
<1>1. CASE Refuse(q) \/ Admit(q)
  BY <1>1 DEF Refuse, Admit
<1>2. CASE IncrementClient(q) \/ IncrementFails(q) \/ IncrementGlobal(q)
  BY <1>2 DEF IncrementClient, IncrementFails, IncrementGlobal
<1>3. CASE SelectQuotas(q) \/ BeginCheck(q) \/ AllChecked(q)
  BY <1>3 DEF SelectQuotas, BeginCheck, AllChecked
<1>4. CASE PassCheck(q) \/ DenyCheck(q) \/ CheckFails(q)
  BY <1>4 DEF PassCheck, DenyCheck, CheckFails
<1>5. QED
  BY <1>1, <1>2, <1>3, <1>4 DEF Step

\* At the start nobody has a reading or a result.
LEMMA InitCallsEnd == Init => CallsEnd /\ MembersOwned
  BY DEF Init, CallsEnd, MembersOwned, Keys

\* Calls have readings once admitted and results once ended, whatever step follows.
LEMMA NextCallsEnd == TypeOK /\ CallsEnd /\ [Next]_vars => CallsEnd'
<1> SUFFICES ASSUME TypeOK, CallsEnd, [Next]_vars PROVE CallsEnd'
  OBVIOUS
<1>1. ASSUME NEW q \in Requests, Step(q) PROVE CallsEnd'
  BY <1>1, StepCalls DEF CallsEnd
<1>2. CASE \E k \in Keys : ExpireKey(k)
  BY <1>2 DEF ExpireKey, CallsEnd
<1>3. CASE Tick
  BY <1>3 DEF Tick, CallsEnd, TypeOK
<1>4. CASE UNCHANGED vars
  BY <1>4 DEF vars, CallsEnd
<1>5. QED
  BY <1>1, <1>2, <1>3, <1>4 DEF Next

\* An increment adds one reading to one key.
LEMMA ExecIncrementAdds ==
    ASSUME TypeOK, NEW key \in Keys, NEW t, ExecIncrement(key, t)
    PROVE  \A k \in Keys : \A x \in zset'[k] : x \in zset[k] \/ (k = key /\ x = t)
  BY DEF TypeOK, ExecIncrement, Trimmed

\* Only its own reading is added by a call under its client's key.
LEMMA NextMembersOwned == TypeOK /\ CallsEnd /\ MembersOwned /\ [Next]_vars => MembersOwned'
<1> SUFFICES ASSUME TypeOK, CallsEnd, MembersOwned, [Next]_vars PROVE MembersOwned'
  OBVIOUS
<1>k. GlobalKey \in Keys /\ GlobalKey \notin Clients /\ Clients \subseteq Keys
  BY GlobalKeyAssumption DEF Keys
<1>1. ASSUME NEW q \in Requests, Step(q) PROVE MembersOwned'
  <2>1. client[q] \in Clients
    BY DEF TypeOK
  <2>2. ASSUME NEW c \in Clients, NEW x \in zset'[c]
        PROVE  x \in zset[c] \/ (c = client[q] /\ x = stamp[q] /\ pc[q] = "incrClient")
    <3>1. CASE UNCHANGED zset
      BY <2>2, <3>1
    <3>2. CASE ExecIncrement(client[q], stamp[q]) /\ pc[q] = "incrClient"
      BY <1>k, <2>1, <2>2, <3>2, ExecIncrementAdds
    <3>3. CASE ExecIncrement(GlobalKey, at[q])
      BY <1>k, <2>2, <3>3, ExecIncrementAdds
    <3>4. QED
      BY <1>1, <3>1, <3>2, <3>3
      DEF Step, Refuse, Admit, IncrementClient, IncrementFails, SelectQuotas, BeginCheck,
          PassCheck, DenyCheck, CheckFails, AllChecked, IncrementGlobal
  <2>3. ASSUME NEW r \in Requests, stamp[r] # 0 PROVE stamp'[r] = stamp[r] /\ client'[r] = client[r]
    BY <1>1, <2>3, StepCalls DEF CallsEnd
  <2>4. ASSUME NEW c \in Clients, NEW x \in zset'[c]
        PROVE  \E r \in Requests : client'[r] = c /\ stamp'[r] = x /\ stamp'[r] # 0
    <3>1. CASE x \in zset[c]
      BY <2>3, <3>1 DEF MembersOwned
    <3>2. CASE c = client[q] /\ x = stamp[q] /\ pc[q] = "incrClient"
      BY <2>3, <3>2 DEF CallsEnd
    <3>3. QED
      BY <2>2, <2>4, <3>1, <3>2
  <2>5. QED
    BY <2>4 DEF MembersOwned
<1>2. ASSUME NEW k \in Keys, ExpireKey(k) PROVE MembersOwned'
  BY <1>k, <1>2 DEF ExpireKey, TypeOK, MembersOwned, input
<1>3. CASE Tick \/ UNCHANGED vars
  BY <1>3 DEF Tick, vars, input, MembersOwned
<1>4. QED
  BY <1>1, <1>2, <1>3 DEF Next

\* What a check that refuses has seen besides the call's own timestamp belongs to
\* other calls of the same client, and there are at least `limit` of them.
LEMMA DenialCounts ==
    ASSUME TypeOK, MembersOwned, NEW q \in Requests, DenyCheck(q), checking[q].type # "Global"
    PROVE  Cardinality({stamp[p] : p \in InView(q)}) >= checking[q].limit
<1> DEFINE Others == {stamp[p] : p \in InView(q)}
<1>1. Seen(q) \ {stamp[q]} \subseteq Others
  <2>1. KeyOf(client[q], checking[q]) = client[q] /\ client[q] \in Clients
    BY DEF KeyOf, TypeOK
  <2>2. ASSUME NEW x \in Seen(q), x # stamp[q] PROVE x \in Others
    <3>1. x \in zset[client[q]] /\ x <= at[q] /\ at[q] <= x + checking[q].period
      BY <2>1 DEF Seen, InWindow
    <3>2. PICK r \in Requests : client[r] = client[q] /\ stamp[r] = x /\ stamp[r] # 0
      BY <2>1, <3>1 DEF MembersOwned
    <3>3. r \in InView(q)
      BY <2>2, <3>1, <3>2 DEF InView
    <3>4. QED
      BY <3>2, <3>3
  <2>3. QED
    BY <2>2
<1>2. Others \subseteq 0..at[q]
  BY DEF InView, TypeOK
<1>3. IsFiniteSet(Others)
  <2>1. IsFiniteSet(0..at[q])
    BY FS_Interval DEF TypeOK
  <2>2. QED
    BY <1>2, <2>1, FS_Subset
<1>4. IsFiniteSet(Seen(q))
  <2>1. Seen(q) \subseteq 0..at[q]
    BY DEF Seen, InWindow, KeyOf, TypeOK, Keys
  <2>2. IsFiniteSet(0..at[q])
    BY FS_Interval DEF TypeOK
  <2>3. QED
    BY <2>1, <2>2, FS_Subset
<1>5. /\ Cardinality(Seen(q) \ {stamp[q]}) >= Cardinality(Seen(q)) - 1
      /\ Cardinality(Seen(q)) \in Nat /\ Cardinality(Others) \in Nat
      /\ Cardinality(Seen(q) \ {stamp[q]}) \in Nat
  <2>1. /\ IsFiniteSet(Seen(q) \ {stamp[q]})
        /\ \/ Cardinality(Seen(q) \ {stamp[q]}) = Cardinality(Seen(q)) - 1
           \/ Cardinality(Seen(q) \ {stamp[q]}) = Cardinality(Seen(q))
    BY <1>4, FS_RemoveElement
  <2>2. /\ Cardinality(Seen(q)) \in Nat /\ Cardinality(Others) \in Nat
        /\ Cardinality(Seen(q) \ {stamp[q]}) \in Nat
    BY <1>3, <1>4, <2>1, FS_CardinalityType
  <2>3. QED
    BY <2>1, <2>2
<1>6. Cardinality(Seen(q) \ {stamp[q]}) <= Cardinality(Others)
  BY <1>1, <1>3, FS_Subset
<1>7. RequestCount(Seen(q)) >= checking[q].limit /\ checking[q].limit \in Nat
  BY DEF DenyCheck, Passing, Exceeded, TypeOK, Quota
<1>8. CASE Seen(q) = {}
  BY <1>5, <1>7, <1>8 DEF RequestCount
<1>9. CASE Seen(q) # {}
  BY <1>5, <1>6, <1>7, <1>9 DEF RequestCount
<1>10. QED
  BY <1>8, <1>9

\* A refusal stands: the call is over, and readings are not taken back.
LEMMA NextDenial ==
    TypeOK /\ CallsEnd /\ MembersOwned /\ DenialIsOwnDoing /\ [Next]_vars => DenialIsOwnDoing'
<1> SUFFICES ASSUME TypeOK, CallsEnd, MembersOwned, DenialIsOwnDoing, [Next]_vars,
                    NEW q \in Requests, result'[q] = "exceeded", checking'[q].type # "Global"
             PROVE  Cardinality({stamp[p] : p \in InView(q)}') >= checking'[q].limit
  BY DEF DenialIsOwnDoing, InView
<1>1. ASSUME UNCHANGED client,
             result'[q] = result[q], checking'[q] = checking[q], at'[q] = at[q],
             \A r \in Requests : stamp'[r] = stamp[r] \/ stamp[r] = 0
      PROVE  Cardinality({stamp[p] : p \in InView(q)}') >= checking'[q].limit
  <2>1. Cardinality({stamp[p] : p \in InView(q)}) >= checking[q].limit
    BY <1>1 DEF DenialIsOwnDoing, InView
  <2>2. {stamp[p] : p \in InView(q)} \subseteq {stamp[p] : p \in InView(q)}'
    BY <1>1 DEF InView
  <2>3. {stamp[p] : p \in InView(q)}' \subseteq 0..at[q]
    <3>1. TypeOK'
      BY NextTypeOK
    <3>2. QED
      BY <1>1, <3>1 DEF InView, TypeOK
  <2>4. IsFiniteSet(0..at[q])
    BY FS_Interval DEF TypeOK
  <2>5. IsFiniteSet({stamp[p] : p \in InView(q)}') /\ IsFiniteSet({stamp[p] : p \in InView(q)})
    BY <2>2, <2>3, <2>4, FS_Subset
  <2>6. Cardinality({stamp[p] : p \in InView(q)}) <= Cardinality({stamp[p] : p \in InView(q)}')
    BY <2>2, <2>5, FS_Subset
  <2>7. QED
    BY <1>1, <2>1, <2>5, <2>6, FS_CardinalityType DEF TypeOK, Quota
<1>2. ASSUME NEW r \in Requests, Step(r)
      PROVE  Cardinality({stamp[p] : p \in InView(q)}') >= checking'[q].limit
  <2>1. \A p \in Requests : stamp'[p] = stamp[p] \/ stamp[p] = 0
    BY <1>2, StepCalls DEF CallsEnd
  <2>2. CASE r # q
    BY <1>1, <1>2, <2>1, <2>2, StepCalls
  <2>3. CASE r = q
    <3>1. DenyCheck(q)
      <4>1. result[q] = "none"
        BY <1>2, <2>3, StepCalls DEF CallsEnd
      <4>2. QED
        BY <1>2, <2>3, <4>1
        DEF Step, Refuse, Admit, IncrementClient, IncrementFails, SelectQuotas, BeginCheck,
            PassCheck, CheckFails, AllChecked, IncrementGlobal, Finish, TypeOK
    <3>2. UNCHANGED <<client, at, stamp, checking>>
      BY <3>1 DEF DenyCheck, input
    <3>3. {stamp[p] : p \in InView(q)}' = {stamp[p] : p \in InView(q)}
      BY <3>2 DEF InView
    <3>4. QED
      BY <3>1, <3>2, <3>3, DenialCounts
  <2>4. QED
    BY <2>2, <2>3
<1>3. CASE (\E k \in Keys : ExpireKey(k)) \/ Tick \/ UNCHANGED vars
  BY <1>1, <1>3 DEF ExpireKey, Tick, vars, input
<1>4. QED
  BY <1>2, <1>3 DEF Next

\* A client is refused by a per-client quota only on account of its own other
\* calls: no other client's traffic and no stale entry counts.
THEOREM DenialsEarned == Spec => []DenialIsOwnDoing
<1>1. Init => DenialIsOwnDoing
  BY DEF Init, DenialIsOwnDoing
<1>2. QED
  BY <1>1, InitTypeOK, InitCallsEnd, NextTypeOK, NextCallsEnd, NextMembersOwned, NextDenial,
     PTL DEF Spec
----------------------------------------------------------------------------
\* The global limit

\* The concurrency limit of the server.
InFlight == Cardinality(Running) <= MaxInFlight

\* What a call has counted stays under the route's key until it is a TTL old.
CountedRetained ==
    \A q \in Requests :
        result[q] = "limited" => at[q] \in zset[GlobalKey] \/ at[q] + MaxTtl <= now

\* r has begun a check no later than the n-th.
Began(r, n) ==
    \/ \E p \in passes : p.req = r /\ p.no <= n
    \/ pc[r] = "check" /\ readNo[r] <= n

\* The calls that q's check cannot see though they may have passed before: they are
\* yet to be counted, or were counted at a later reading.  All of them were under
\* way when q read the clock.
Unseen(q) ==
    {r \in Requests : /\ Began(r, readNo[q])
                      /\ r \in Running \/ (result[r] = "limited" /\ at[r] > at[q])}

UnseenFew == \A q \in Requests : pc[q] = "check" => Cardinality(Unseen(q)) <= MaxInFlight

\* The calls past a quota, with those that an overtaking call has taken with it.
PassedOrOvertaken(z) ==
    {q \in Requests :
        \/ \E p \in passes : p.quota = z /\ p.req = q
        \/ /\ pc[q] = "check" /\ checking[q] = z
           /\ \E p \in passes : p.quota = z /\ readNo[q] < p.no}

Counted(z) == {q \in PassedOrOvertaken(z) : result[q] = "limited"}
CountedTimes(z) == Recent({at[q] : q \in Counted(z)}, z)

OvershootWithin ==
    \A z \in Quota :
        z.type = "Global" /\ z.period <= MaxTtl =>
            Cardinality(CountedTimes(z)) + Cardinality(PassedOrOvertaken(z) \cap Running)
              <= z.limit + MaxInFlight

\* A check is numbered by one of the readings there were.
PassesNumbered == \A q \in Requests : readNo[q] <= reads

Overshoot == InFlight /\ CountedRetained /\ UnseenFew /\ PassesNumbered /\ OvershootWithin

----------------------------------------------------------------------------
\* As many numbers as there are elements, at most.
LEMMA ImageSmall ==
    ASSUME NEW S, IsFiniteSet(S), NEW f
    PROVE  IsFiniteSet({f[x] : x \in S}) /\ Cardinality({f[x] : x \in S}) <= Cardinality(S)
<1> DEFINE T == {f[x] : x \in S}
           g == [x \in S |-> f[x]]
<1>1. g \in Surjection(S, T)
  BY DEF Surjection
<1>2. QED
  BY <1>1, FS_Surjection

\* There are finitely many calls.
LEMMA RequestsFinite == \A S \in SUBSET Requests : IsFiniteSet(S) /\ Cardinality(S) \in Nat
  BY ConstantsAssumption, FS_Subset, FS_CardinalityType

\* What a quota counts is finite.
LEMMA CountedFinite ==
    ASSUME NEW z \in Quota
    PROVE  /\ Counted(z) \in SUBSET Requests
           /\ IsFiniteSet(CountedTimes(z)) /\ Cardinality(CountedTimes(z)) \in Nat
<1>1. Counted(z) \in SUBSET Requests
  BY DEF Counted, PassedOrOvertaken
<1>2. IsFiniteSet({at[q] : q \in Counted(z)})
  BY <1>1, RequestsFinite, ImageSmall
<1>3. CountedTimes(z) \subseteq {at[q] : q \in Counted(z)}
  BY DEF CountedTimes, Recent
<1>4. QED
  BY <1>1, <1>2, <1>3, FS_Subset, FS_CardinalityType

\* The bound on the overshoot holds at the start.
LEMMA InitOvershoot == Init => Overshoot
<1> SUFFICES ASSUME Init PROVE Overshoot
  OBVIOUS
<1>1. InFlight
  <2>1. Running = {}
    BY DEF Init, Running
  <2>2. QED
    BY <2>1, FS_EmptySet, ConstantsAssumption DEF InFlight
<1>2. CountedRetained /\ UnseenFew /\ PassesNumbered
  BY DEF Init, CountedRetained, UnseenFew, PassesNumbered
<1>3. OvershootWithin
  <2> SUFFICES ASSUME NEW z \in Quota
               PROVE  Cardinality(CountedTimes(z)) + Cardinality(PassedOrOvertaken(z) \cap Running)
                        <= z.limit + MaxInFlight
    BY DEF OvershootWithin
  <2>1. PassedOrOvertaken(z) = {}
    BY DEF Init, PassedOrOvertaken
  <2>2. CountedTimes(z) = {} /\ PassedOrOvertaken(z) \cap Running = {}
    BY <2>1 DEF CountedTimes, Counted, Recent
  <2>3. QED
    <3>1. Cardinality(CountedTimes(z)) = 0 /\ Cardinality(PassedOrOvertaken(z) \cap Running) = 0
      BY <2>2, FS_EmptySet
    <3>2. z.limit + MaxInFlight \in Nat
      BY ConstantsAssumption DEF Quota
    <3>3. QED
      BY <3>1, <3>2
<1>4. QED
  BY <1>1, <1>2, <1>3 DEF Overshoot

\* No more calls run at once than may.
LEMMA NextInFlight == TypeOK /\ InFlight /\ [Next]_vars => InFlight'
<1> SUFFICES ASSUME TypeOK, InFlight, [Next]_vars PROVE InFlight'
  OBVIOUS
<1>1. ASSUME Running' \subseteq Running PROVE InFlight'
  <2>1. Running \in SUBSET Requests /\ Running' \in SUBSET Requests
    BY DEF Running
  <2>2. Cardinality(Running') <= Cardinality(Running)
    BY <1>1, <2>1, RequestsFinite, FS_Subset
  <2>3. QED
    BY <2>1, <2>2, RequestsFinite, ConstantsAssumption DEF InFlight
<1>2. ASSUME NEW q \in Requests, Admit(q) PROVE InFlight'
  <2>1. Running' = Running \cup {q} /\ Cardinality(Running) < MaxInFlight
    BY <1>2 DEF Admit, Running, TypeOK
  <2>2. Running \in SUBSET Requests
    BY DEF Running
  <2>3. IsFiniteSet(Running) /\ Cardinality(Running) \in Nat
    BY <2>2, RequestsFinite
  <2>4. Cardinality(Running') <= Cardinality(Running) + 1
    BY <2>1, <2>3, FS_AddElement
  <2>5. Running' \in SUBSET Requests /\ Cardinality(Running') \in Nat
    BY <2>1, <2>2, RequestsFinite
  <2>6. QED
    BY <2>1, <2>3, <2>4, <2>5, ConstantsAssumption DEF InFlight
<1>3. ASSUME NEW q \in Requests, Step(q), ~Admit(q) PROVE Running' \subseteq Running
  <2>1. pc[q] = "idle" => pc'[q] = "done"
    BY <1>3 DEF Step, Refuse, IncrementClient, IncrementFails, SelectQuotas, BeginCheck, PassCheck,
                DenyCheck, CheckFails, AllChecked, IncrementGlobal, Finish, TypeOK
  <2>2. QED
    BY <1>3, <2>1, StepCalls DEF Running
<1>4. CASE (\E k \in Keys : ExpireKey(k)) \/ Tick \/ UNCHANGED vars
  BY <1>1, <1>4 DEF ExpireKey, Tick, vars, Running
<1>5. QED
  BY <1>1, <1>2, <1>3, <1>4 DEF Next

\* What was counted stays, but for what Redis drops for its age.
LEMMA NextCountedRetained ==
    TypeOK /\ Timeline /\ CallsEnd /\ CountedRetained /\ [Next]_vars => CountedRetained'
<1> SUFFICES ASSUME TypeOK, Timeline, CallsEnd, CountedRetained, [Next]_vars PROVE CountedRetained'
  OBVIOUS
<1>k. GlobalKey \in Keys /\ MaxTtl \in Nat /\ now \in Nat
  BY ConstantsAssumption DEF Keys, TypeOK
<1>1. ASSUME NEW q \in Requests, Step(q) PROVE CountedRetained'
  <2>1. ASSUME NEW x \in zset[GlobalKey] PROVE x \in zset'[GlobalKey] \/ x + MaxTtl <= now
    <3>1. CASE UNCHANGED zset
      BY <3>1
    <3>2. ASSUME NEW key \in Keys, NEW t \in Nat, t <= now, ExecIncrement(key, t)
          PROVE  x \in zset'[GlobalKey] \/ x + MaxTtl <= now
      BY <1>k, <3>2, ExecIncrementTimeline
    <3>3. client[q] \in Keys /\ stamp[q] \in Nat /\ stamp[q] <= now /\ at[q] \in Nat /\ at[q] <= now
      BY DEF TypeOK, Keys, Timeline, ReadingsInPast
    <3>4. \/ UNCHANGED zset \/ ExecIncrement(client[q], stamp[q]) \/ ExecIncrement(GlobalKey, at[q])
      BY <1>1 DEF Step, Refuse, Admit, IncrementClient, IncrementFails, SelectQuotas, BeginCheck,
                  PassCheck, DenyCheck, CheckFails, AllChecked, IncrementGlobal
    <3>5. QED
      BY <1>k, <3>1, <3>2, <3>3, <3>4
  <2>2. ASSUME NEW r \in Requests, result'[r] = "limited"
        PROVE  \/ result[r] = "limited" /\ at'[r] = at[r]
               \/ r = q /\ at'[r] = at[r] /\ at[r] \in zset'[GlobalKey]
    <3>1. CASE r # q
      BY <1>1, <2>2, <3>1, StepCalls
    <3>2. CASE r = q /\ IncrementGlobal(q)
      BY <1>k, <3>2 DEF IncrementGlobal, ExecIncrement, TypeOK
    <3>3. CASE r = q /\ ~IncrementGlobal(q)
      <4>1. result[q] = "none"
        BY <1>1, StepCalls DEF CallsEnd
      <4>2. QED
        BY <1>1, <2>2, <3>3, <4>1
        DEF Step, Refuse, Admit, IncrementClient, IncrementFails, SelectQuotas, BeginCheck,
            PassCheck, DenyCheck, CheckFails, AllChecked, Finish, TypeOK
    <3>4. QED
      BY <3>1, <3>2, <3>3
  <2>3. now' = now
    BY <1>1, StepCalls
  <2>4. QED
    BY <2>1, <2>2, <2>3 DEF CountedRetained
<1>2. ASSUME NEW k \in Keys, ExpireKey(k) PROVE CountedRetained'
  <2>1. \A x \in zset[k] : x + MaxTtl <= now
    BY <1>2, ConstantsAssumption DEF ExpireKey, TypeOK, Timeline, KeysOutliveMembers
  <2>2. QED
    BY <1>2, <1>k, <2>1 DEF ExpireKey, TypeOK, CountedRetained
<1>3. CASE Tick
  <2>1. now' = now + 1 /\ UNCHANGED <<zset, result, at>> /\ \A q \in Requests : at[q] \in Nat
    BY <1>3 DEF Tick, TypeOK
  <2>2. QED
    BY <1>k, <2>1 DEF CountedRetained
<1>4. CASE UNCHANGED vars
  BY <1>4 DEF vars, CountedRetained
<1>5. QED
  BY <1>1, <1>2, <1>3, <1>4 DEF Next

\* A check stays numbered by a reading there was.
LEMMA NextPassesNumbered == TypeOK /\ PassesNumbered /\ [Next]_vars => PassesNumbered'
<1> SUFFICES ASSUME TypeOK, PassesNumbered, [Next]_vars PROVE PassesNumbered'
  OBVIOUS
<1>1. ASSUME NEW q \in Requests, BeginCheck(q) PROVE PassesNumbered'
  BY <1>1 DEF BeginCheck, TypeOK, PassesNumbered
<1>2. ASSUME NEW q \in Requests, Step(q), ~BeginCheck(q) PROVE UNCHANGED <<reads, readNo>>
  BY <1>2 DEF Step, Refuse, Admit, IncrementClient, IncrementFails, SelectQuotas, PassCheck,
              DenyCheck, CheckFails, AllChecked, IncrementGlobal, history
<1>3. CASE (\E k \in Keys : ExpireKey(k)) \/ Tick \/ UNCHANGED vars
  BY <1>3 DEF ExpireKey, Tick, vars, history, PassesNumbered
<1>4. QED
  BY <1>1, <1>2, <1>3 DEF Next, PassesNumbered
\* No step adds to the calls that began a check by the n-th, and of those none is
\* taken up again once it has ended.
LEMMA BeganShrinks ==
    ASSUME TypeOK, Timeline, CallsEnd, PassesNumbered, [Next]_vars,
           NEW n \in Nat, n <= reads, NEW r \in Requests, Began(r, n)'
    PROVE  /\ Began(r, n)
           /\ r \in Running' => r \in Running
           /\ result'[r] = "limited" =>
                at'[r] = at[r] /\ (result[r] = "limited" \/ r \in Running)
<1>1. ASSUME Began(r, n) PROVE pc[r] # "idle"
  BY <1>1 DEF Began, Timeline, PassersStarted
<1>2. ASSUME UNCHANGED <<pc, passes, readNo, result, at>>
      PROVE  /\ Began(r, n)
             /\ r \in Running' => r \in Running
             /\ result'[r] = "limited" => at'[r] = at[r] /\ result[r] = "limited"
  BY <1>2 DEF Began, Running
<1>3. ASSUME NEW q \in Requests, Step(q)
      PROVE  /\ Began(r, n)
             /\ r \in Running' => r \in Running
             /\ result'[r] = "limited" =>
                  at'[r] = at[r] /\ (result[r] = "limited" \/ r \in Running)
  <2>1. Began(r, n)
    <3>1. CASE BeginCheck(q)
      <4>1. /\ passes' = passes /\ readNo' = [readNo EXCEPT ![q] = reads + 1]
            /\ pc' = [pc EXCEPT ![q] = "check"] /\ reads \in Nat
        BY <3>1 DEF BeginCheck, TypeOK
      <4>2. QED
        BY <4>1 DEF Began, TypeOK
    <3>2. CASE PassCheck(q)
      <4>1. /\ passes' = passes \cup {[req |-> q, quota |-> checking[q], no |-> readNo[q]]}
            /\ pc[q] = "check" /\ pc' = [pc EXCEPT ![q] = "next"] /\ readNo' = readNo
        BY <3>2 DEF PassCheck
      <4>2. QED
        BY <4>1 DEF Began, TypeOK
    <3>3. CASE ~BeginCheck(q) /\ ~PassCheck(q)
      <4>1. /\ UNCHANGED <<passes, readNo>>
            /\ \A t \in Requests : pc'[t] = "check" => pc[t] = "check"
        BY <1>3, <3>3
        DEF Step, Refuse, Admit, IncrementClient, IncrementFails, SelectQuotas, DenyCheck,
            CheckFails, AllChecked, IncrementGlobal, Finish, TypeOK, history
      <4>2. QED
        BY <4>1 DEF Began
    <3>4. QED
      BY <3>1, <3>2, <3>3
  <2>2. r \in Running' => r \in Running
    BY <1>1, <1>3, <2>1, StepCalls DEF Running
  <2>3. ASSUME result'[r] = "limited"
        PROVE  at'[r] = at[r] /\ (result[r] = "limited" \/ r \in Running)
    <3>1. CASE r # q
      BY <1>3, <2>3, <3>1, StepCalls
    <3>2. CASE r = q
      <4>1. result[q] = "none" /\ pc[q] # "done"
        BY <1>3, StepCalls DEF CallsEnd
      <4>2. IncrementGlobal(q)
        BY <1>3, <2>3, <3>2, <4>1
        DEF Step, Refuse, Admit, IncrementClient, IncrementFails, SelectQuotas, BeginCheck,
            PassCheck, DenyCheck, CheckFails, AllChecked, Finish, TypeOK
      <4>3. QED
        BY <3>2, <4>1, <4>2 DEF IncrementGlobal, Running
    <3>3. QED
      BY <3>1, <3>2
  <2>4. QED
    BY <2>1, <2>2, <2>3
<1>4. CASE (\E k \in Keys : ExpireKey(k)) \/ Tick \/ UNCHANGED vars
  BY <1>2, <1>4 DEF ExpireKey, Tick, vars, history
<1>5. QED
  BY <1>3, <1>4 DEF Next

\* What a check could not see was running when it read the clock.
LEMMA NextUnseenFew ==
    TypeOK /\ Timeline /\ CallsEnd /\ Overshoot /\ [Next]_vars => UnseenFew'
<1> SUFFICES ASSUME TypeOK, Timeline, CallsEnd, Overshoot, [Next]_vars,
                    NEW q \in Requests, pc'[q] = "check"
             PROVE  Cardinality(Unseen(q)') <= MaxInFlight
  BY DEF UnseenFew, Overshoot
<1>s. Unseen(q) \in SUBSET Requests /\ Unseen(q)' \in SUBSET Requests /\ Running \in SUBSET Requests
  BY DEF Unseen, Running
<1>m. MaxInFlight \in Nat
  BY ConstantsAssumption
<1>1. CASE BeginCheck(q)
  <2>1. /\ at' = [at EXCEPT ![q] = now] /\ pc' = [pc EXCEPT ![q] = "check"] /\ pc[q] = "next"
        /\ UNCHANGED result
    BY <1>1 DEF BeginCheck
  <2>2. \A r \in Requests : at'[r] <= now /\ at'[q] = now /\ now \in Nat /\ at'[r] \in Nat
    BY <2>1 DEF TypeOK, Timeline, ReadingsInPast
  <2>3. Unseen(q)' \subseteq Running'
    BY <2>2 DEF Unseen
  <2>4. Running' = Running
    BY <2>1 DEF Running, TypeOK
  <2>5. Cardinality(Unseen(q)') <= Cardinality(Running)
    BY <1>s, <2>3, <2>4, RequestsFinite, FS_Subset
  <2>6. QED
    BY <1>s, <1>m, <2>5, RequestsFinite DEF Overshoot, InFlight
<1>2. CASE ~BeginCheck(q)
  <2>1. pc[q] = "check" /\ readNo'[q] = readNo[q] /\ at'[q] = at[q]
    <3>1. ASSUME NEW r \in Requests, Step(r), r # q
          PROVE  pc[q] = "check" /\ readNo'[q] = readNo[q] /\ at'[q] = at[q]
      <4>1. readNo'[q] = readNo[q]
        BY <3>1 DEF Step, Refuse, Admit, IncrementClient, IncrementFails, SelectQuotas, BeginCheck,
                    PassCheck, DenyCheck, CheckFails, AllChecked, IncrementGlobal, TypeOK, history
      <4>2. QED
        BY <3>1, <4>1, StepCalls
    <3>2. ASSUME Step(q) PROVE FALSE
      BY <1>2, <3>2 DEF Step, Refuse, Admit, IncrementClient, IncrementFails, SelectQuotas,
                  PassCheck, DenyCheck, CheckFails, AllChecked, IncrementGlobal, TypeOK, Finish
    <3>3. CASE (\E k \in Keys : ExpireKey(k)) \/ Tick \/ UNCHANGED vars
      BY <3>3 DEF ExpireKey, Tick, vars, history
    <3>4. QED
      BY <3>1, <3>2, <3>3 DEF Next
  <2>2. readNo[q] \in Nat /\ readNo[q] <= reads
    BY DEF TypeOK, Overshoot, PassesNumbered
  <2>3. ASSUME NEW r \in Unseen(q)' PROVE r \in Unseen(q)
    <3>1. r \in Requests /\ Began(r, readNo[q])' /\ (r \in Running' \/ (result'[r] = "limited" /\ at'[r] > at[q]))
      BY <2>1 DEF Unseen, Began
    <3>2. /\ Began(r, readNo[q])
          /\ r \in Running' => r \in Running
          /\ result'[r] = "limited" => at'[r] = at[r] /\ (result[r] = "limited" \/ r \in Running)
      <4>1. PICK n \in Nat : n = readNo[q]
        BY <2>2
      <4>2. Began(r, n)' /\ n <= reads
        BY <2>1, <2>2, <3>1, <4>1 DEF Began
      <4>3. QED
        BY <3>1, <4>1, <4>2, BeganShrinks DEF Overshoot
    <3>3. QED
      BY <3>1, <3>2 DEF Unseen
  <2>4. Cardinality(Unseen(q)') <= Cardinality(Unseen(q))
    BY <1>s, <2>3, RequestsFinite, FS_Subset
  <2>5. QED
    BY <1>s, <1>m, <2>1, <2>4, RequestsFinite DEF Overshoot, UnseenFew
<1>3. QED
  BY <1>1, <1>2

\* Values drawn from T and from the elements of D, and the elements of R, are no more
\* than T and a set that D and R are disjoint parts of.
LEMMA SplitSmall ==
    ASSUME NEW T, IsFiniteSet(T), NEW U, IsFiniteSet(U), NEW f,
           NEW D \in SUBSET U, NEW R \in SUBSET U, D \cap R = {},
           NEW S \in SUBSET (T \cup {f[x] : x \in D})
    PROVE  Cardinality(S) + Cardinality(R) <= Cardinality(T) + Cardinality(U)
<1> DEFINE I == {f[x] : x \in D}
<1>1. IsFiniteSet(D) /\ IsFiniteSet(R)
  BY FS_Subset
<1>2. IsFiniteSet(I) /\ Cardinality(I) <= Cardinality(D)
  BY <1>1, ImageSmall
<1>3. /\ IsFiniteSet(T \cup I)
      /\ Cardinality(T \cup I) = Cardinality(T) + Cardinality(I) - Cardinality(T \cap I)
  BY <1>2, FS_Union
<1>4. IsFiniteSet(S) /\ Cardinality(S) <= Cardinality(T \cup I)
  BY <1>3, FS_Subset
<1>5. /\ IsFiniteSet(D \cup R)
      /\ Cardinality(D \cup R) = Cardinality(D) + Cardinality(R) - Cardinality(D \cap R)
  BY <1>1, FS_Union
<1>6. Cardinality(D \cup R) <= Cardinality(U) /\ Cardinality(D \cap R) = 0
  BY FS_Subset, FS_EmptySet
<1>7. IsFiniteSet(T \cap I)
  BY FS_Subset
<1>8. /\ Cardinality(D) \in Nat /\ Cardinality(R) \in Nat /\ Cardinality(I) \in Nat
      /\ Cardinality(T) \in Nat /\ Cardinality(S) \in Nat /\ Cardinality(U) \in Nat
      /\ Cardinality(T \cap I) \in Nat
  BY <1>1, <1>2, <1>4, <1>7, FS_CardinalityType
<1> HIDE DEF I
<1>9. QED
  BY <1>2, <1>3, <1>4, <1>5, <1>6, <1>8

\* A call past its admission ends once, counted or not, and keeps the reading it was
\* counted at.
LEMMA CallSettles ==
    ASSUME TypeOK, CallsEnd, [Next]_vars, NEW r \in Requests, pc[r] # "idle"
    PROVE  /\ r \in Running' => r \in Running
           /\ result'[r] = "limited" =>
                at'[r] = at[r] /\ (result[r] = "limited" \/ r \in Running)
           /\ result'[r] = "limited" => r \notin Running'
<1>0. result'[r] = "limited" => r \notin Running'
  BY NextCallsEnd DEF CallsEnd, Running
<1>1. ASSUME NEW q \in Requests, Step(q)
      PROVE  /\ r \in Running' => r \in Running
             /\ result'[r] = "limited" =>
                  at'[r] = at[r] /\ (result[r] = "limited" \/ r \in Running)
  <2>1. r \in Running' => r \in Running
    BY <1>1, StepCalls DEF Running
  <2>2. CASE r # q
    BY <1>1, <2>1, <2>2, StepCalls
  <2>3. ASSUME r = q, result'[r] = "limited" PROVE at'[r] = at[r] /\ r \in Running
    <3>1. result[q] = "none" /\ pc[q] # "done"
      BY <1>1, StepCalls DEF CallsEnd
    <3>2. IncrementGlobal(q)
      BY <1>1, <2>3, <3>1
      DEF Step, Refuse, Admit, IncrementClient, IncrementFails, SelectQuotas, BeginCheck,
          PassCheck, DenyCheck, CheckFails, AllChecked, Finish, TypeOK
    <3>3. QED
      BY <2>3, <3>1, <3>2 DEF IncrementGlobal, Running
  <2>4. QED
    BY <2>1, <2>2, <2>3
<1>2. CASE (\E k \in Keys : ExpireKey(k)) \/ Tick \/ UNCHANGED vars
  <2>1. pc' = pc /\ result' = result /\ at' = at
    BY <1>2 DEF ExpireKey, Tick, vars
  <2>2. Running' = Running
    BY <2>1 DEF Running
  <2>3. QED
    BY <1>0, <2>1, <2>2
<1>3. QED
  BY <1>0, <1>1, <1>2 DEF Next

\* As long as no call is added to those past the quota, what the counter gains is what
\* the calls under way lose.
LEMMA SettlingKeepsOvershoot ==
    ASSUME TypeOK, Timeline, CallsEnd, OvershootWithin, [Next]_vars,
           NEW z \in Quota, z.type = "Global", z.period <= MaxTtl,
           PassedOrOvertaken(z)' \subseteq PassedOrOvertaken(z)
    PROVE  Cardinality(CountedTimes(z)') + Cardinality((PassedOrOvertaken(z) \cap Running)')
             <= z.limit + MaxInFlight
<1> DEFINE U == PassedOrOvertaken(z) \cap Running
           D == {r \in PassedOrOvertaken(z)' : result'[r] = "limited" /\ result[r] # "limited"}
           R == (PassedOrOvertaken(z) \cap Running)'
<1>1. \A r \in PassedOrOvertaken(z) : r \in Requests /\ pc[r] # "idle"
  BY DEF PassedOrOvertaken, Timeline, PassersStarted
<1>2. \A r \in PassedOrOvertaken(z)' :
         /\ r \in Running' => r \in Running
         /\ result'[r] = "limited" =>
              at'[r] = at[r] /\ (result[r] = "limited" \/ r \in Running)
         /\ result'[r] = "limited" => r \notin Running'
  BY <1>1, CallSettles
<1>3. D \in SUBSET U /\ R \in SUBSET U /\ D \cap R = {}
  BY <1>2
<1>4. now' >= now /\ now' \in Nat /\ now \in Nat
  <2>1. now' = now \/ now' = now + 1
    BY StepCalls DEF Next, ExpireKey, Tick, vars
  <2>2. QED
    BY <2>1 DEF TypeOK
<1>5. CountedTimes(z)' \in SUBSET (CountedTimes(z) \cup {at[r] : r \in D})
  <2>1. ASSUME NEW r \in PassedOrOvertaken(z)', result'[r] = "limited", at'[r] + z.period > now'
        PROVE  at'[r] \in CountedTimes(z) \cup {at[x] : x \in D}
    <3>1. r \in PassedOrOvertaken(z) /\ at'[r] = at[r] /\ at[r] \in Nat /\ z.period \in Nat
      BY <1>1, <1>2, <2>1 DEF TypeOK, Quota
    <3>2. CASE result[r] = "limited"
      BY <1>4, <2>1, <3>1, <3>2 DEF CountedTimes, Counted, Recent
    <3>3. CASE result[r] # "limited"
      BY <2>1, <3>1, <3>3
    <3>4. QED
      BY <3>2, <3>3
  <2>2. QED
    BY <2>1 DEF CountedTimes, Counted, Recent
<1>6. IsFiniteSet(CountedTimes(z)) /\ IsFiniteSet(U)
  BY CountedFinite, RequestsFinite, <1>1
<1>7. Cardinality(CountedTimes(z)') + Cardinality(R) <= Cardinality(CountedTimes(z)) + Cardinality(U)
  <2> HIDE DEF U, D, R
  <2>1. QED
    BY <1>3, <1>5, <1>6, SplitSmall
<1>8. Cardinality(CountedTimes(z)) + Cardinality(U) <= z.limit + MaxInFlight
  BY DEF OvershootWithin
<1>9. /\ Cardinality(CountedTimes(z)') \in Nat /\ Cardinality(R) \in Nat
      /\ Cardinality(CountedTimes(z)) \in Nat /\ Cardinality(U) \in Nat
      /\ z.limit \in Nat /\ MaxInFlight \in Nat
  <2>1. IsFiniteSet(D) /\ IsFiniteSet(R)
    BY <1>3, <1>6, FS_Subset
  <2>2. IsFiniteSet({at[r] : r \in D})
    BY <2>1, ImageSmall
  <2>3. IsFiniteSet(CountedTimes(z) \cup {at[r] : r \in D})
    BY <1>6, <2>2, FS_Union
  <2>4. IsFiniteSet(CountedTimes(z)')
    BY <1>5, <2>3, FS_Subset
  <2>5. QED
    BY <1>6, <2>1, <2>4, FS_CardinalityType, ConstantsAssumption DEF Quota
<1>10. QED
  BY <1>7, <1>8, <1>9


\* A step that is no pass takes no call past the quota: a check that begins reads the
\* clock after all that have passed.
LEMMA OnlyPassesAdd ==
    ASSUME TypeOK, Timeline, CallsEnd, [Next]_vars, \A q \in Requests : ~PassCheck(q),
           NEW z \in Quota
    PROVE  PassedOrOvertaken(z)' \subseteq PassedOrOvertaken(z)
<1>1. ASSUME UNCHANGED passes,
             \A r \in Requests : pc'[r] = "check" =>
                \/ pc[r] = "check" /\ checking'[r] = checking[r] /\ readNo'[r] = readNo[r]
                \/ readNo'[r] = reads + 1
      PROVE  PassedOrOvertaken(z)' \subseteq PassedOrOvertaken(z)
  <2>1. \A p \in passes : p.no \in Nat /\ p.no <= reads /\ ~(reads + 1 < p.no)
    BY DEF TypeOK, Timeline, PassersStarted
  <2>2. ASSUME NEW r \in PassedOrOvertaken(z)' PROVE r \in PassedOrOvertaken(z)
    <3>1. CASE \E p \in passes : p.quota = z /\ p.req = r
      BY <1>1, <2>2, <3>1 DEF PassedOrOvertaken
    <3>2. CASE pc'[r] = "check" /\ checking'[r] = z /\ \E p \in passes : p.quota = z /\ readNo'[r] < p.no
      <4>1. r \in Requests
        BY <2>2 DEF PassedOrOvertaken
      <4>2. PICK p \in passes : p.quota = z /\ readNo'[r] < p.no
        BY <3>2
      <4>3. pc[r] = "check" /\ checking'[r] = checking[r] /\ readNo'[r] = readNo[r]
        BY <1>1, <2>1, <3>2, <4>1, <4>2
      <4>4. QED
        BY <3>2, <4>1, <4>2, <4>3 DEF PassedOrOvertaken
    <3>3. QED
      BY <1>1, <2>2, <3>1, <3>2 DEF PassedOrOvertaken
  <2>3. QED
    BY <2>2
<1>2. ASSUME NEW q \in Requests, Step(q), ~PassCheck(q)
      PROVE  /\ UNCHANGED passes
             /\ \A r \in Requests : pc'[r] = "check" =>
                   \/ pc[r] = "check" /\ checking'[r] = checking[r] /\ readNo'[r] = readNo[r]
                   \/ readNo'[r] = reads + 1
  <2>1. CASE Refuse(q) \/ Admit(q) \/ IncrementClient(q) \/ IncrementFails(q) \/ SelectQuotas(q)
    <3>1. UNCHANGED <<checking, readNo, passes>>
      BY <2>1 DEF Refuse, Admit, IncrementClient, IncrementFails, SelectQuotas, history
    <3>2. \E to \in PcState \ {"check"} : pc' = [pc EXCEPT ![q] = to]
      BY <2>1 DEF Refuse, Admit, IncrementClient, IncrementFails, SelectQuotas, Finish, PcState
    <3>3. QED
      BY <3>1, <3>2 DEF TypeOK
  <2>2. CASE BeginCheck(q)
    BY <2>2 DEF BeginCheck, TypeOK, history
  <2>3. CASE DenyCheck(q) \/ CheckFails(q) \/ AllChecked(q) \/ IncrementGlobal(q)
    BY <2>3 DEF DenyCheck, CheckFails, AllChecked, IncrementGlobal, Finish, TypeOK, history
  <2>4. QED
    BY <1>2, <2>1, <2>2, <2>3 DEF Step
<1>3. CASE (\E k \in Keys : ExpireKey(k)) \/ Tick \/ UNCHANGED vars
  BY <1>1, <1>3 DEF ExpireKey, Tick, vars, history
<1>4. QED
  BY <1>1, <1>2, <1>3 DEF Next

\* A check that passes adds only its own call, and none when it checked another quota
\* or was overtaken.
LEMMA PassAdds ==
    ASSUME TypeOK, NEW q \in Requests, PassCheck(q), NEW z \in Quota,
           checking[q] = z => \E p \in passes : p.quota = z /\ readNo[q] < p.no
    PROVE  PassedOrOvertaken(z)' \subseteq PassedOrOvertaken(z)
<1>0. /\ pc[q] = "check" /\ pc' = [pc EXCEPT ![q] = "next"]
      /\ passes' = passes \cup {[req |-> q, quota |-> checking[q], no |-> readNo[q]]}
      /\ UNCHANGED <<checking, readNo>>
  BY DEF PassCheck
<1>1. \A r \in Requests : pc'[r] = "check" => r # q /\ pc[r] = "check"
  BY <1>0 DEF TypeOK
<1>2. CASE checking[q] # z
  <2>1. \A p \in passes' : p.quota = z => p \in passes
    BY <1>0, <1>2
  <2>2. QED
    BY <1>0, <1>1, <2>1 DEF PassedOrOvertaken
<1>3. CASE checking[q] = z
  <2>1. PICK s \in passes : s.quota = z /\ readNo[q] < s.no
    BY <1>3
  <2>2. ASSUME NEW r \in PassedOrOvertaken(z)' PROVE r \in PassedOrOvertaken(z)
    <3>0. r \in Requests
      BY <2>2 DEF PassedOrOvertaken
    <3>1. ASSUME NEW p \in passes', p.quota = z, p.req = r PROVE r \in PassedOrOvertaken(z)
      <4>1. p \in passes \/ r = q
        BY <1>0, <3>1
      <4>2. QED
        BY <1>0, <1>3, <2>1, <3>0, <3>1, <4>1 DEF PassedOrOvertaken
    <3>2. ASSUME pc'[r] = "check", checking'[r] = z, NEW p \in passes', p.quota = z, readNo'[r] < p.no
          PROVE  r \in PassedOrOvertaken(z)
      <4>1. pc[r] = "check" /\ checking[r] = z
        BY <1>0, <1>1, <3>0, <3>2
      <4>2. \E t \in passes : t.quota = z /\ readNo[r] < t.no
        <5>1. CASE p \in passes
          BY <1>0, <3>2, <5>1
        <5>2. CASE p \notin passes
          <6>1. readNo[r] < readNo[q] /\ s.no \in Nat
            BY <1>0, <3>2, <5>2 DEF TypeOK
          <6>2. readNo[r] < s.no
            BY <2>1, <3>0, <6>1 DEF TypeOK
          <6>3. QED
            BY <2>1, <6>2
        <5>3. QED
          BY <5>1, <5>2
      <4>3. QED
        BY <3>0, <4>1, <4>2 DEF PassedOrOvertaken
    <3>3. QED
      BY <2>2, <3>1, <3>2 DEF PassedOrOvertaken
  <2>3. QED
    BY <2>2
<1>4. QED
  BY <1>2, <1>3

\* A check that nobody overtook passes on what it saw: of the calls past the quota those
\* counted before its reading are among the timestamps it saw, and the others are
\* among the calls it could not see.
LEMMA PassKeepsOvershoot ==
    ASSUME TypeOK, Timeline, CallsEnd, Overshoot, NEW q \in Requests, PassCheck(q),
           NEW z \in Quota, z.type = "Global", z.period <= MaxTtl, checking[q] = z,
           ~\E p \in passes : p.quota = z /\ readNo[q] < p.no
    PROVE  Cardinality(CountedTimes(z)') + Cardinality((PassedOrOvertaken(z) \cap Running)')
             <= z.limit + MaxInFlight
<1> DEFINE D == {r \in PassedOrOvertaken(z)' : result[r] = "limited" /\ at[r] > at[q]}
           R == (PassedOrOvertaken(z) \cap Running)'
<1>0. /\ pc[q] = "check" /\ pc' = [pc EXCEPT ![q] = "next"] /\ Passing(q)
      /\ passes' = passes \cup {[req |-> q, quota |-> checking[q], no |-> readNo[q]]}
      /\ UNCHANGED <<now, zset, at, result, checking, readNo>>
  BY DEF PassCheck
<1>1. \A p \in passes : p.quota = z => p.no \in Nat /\ p.no <= readNo[q]
  BY DEF TypeOK
<1>2. ASSUME NEW r \in PassedOrOvertaken(z)'
      PROVE  r \in Requests /\ Began(r, readNo[q])
  <2>0. r \in Requests
    BY <1>2 DEF PassedOrOvertaken
  <2>1. ASSUME NEW p \in passes', p.quota = z, p.req = r PROVE Began(r, readNo[q])
    <3>1. CASE p \in passes
      BY <1>1, <2>1, <3>1 DEF Began
    <3>2. CASE p \notin passes
      <4>1. r = q
        BY <1>0, <2>1, <3>2
      <4>2. QED
        BY <1>0, <4>1 DEF Began, TypeOK
    <3>3. QED
      BY <3>1, <3>2
  <2>2. ASSUME pc'[r] = "check", NEW p \in passes', p.quota = z, readNo'[r] < p.no
        PROVE  Began(r, readNo[q])
    <3>1. pc[r] = "check" /\ readNo[r] < p.no
      BY <1>0, <2>0, <2>2 DEF TypeOK
    <3>2. p.no \in Nat /\ p.no <= readNo[q]
      <4>1. CASE p \in passes
        BY <1>1, <2>2, <4>1
      <4>2. CASE p \notin passes
        BY <1>0, <4>2 DEF TypeOK
      <4>3. QED
        BY <4>1, <4>2
    <3>3. readNo[r] <= readNo[q]
      BY <2>0, <3>1, <3>2 DEF TypeOK
    <3>4. QED
      BY <3>1, <3>3 DEF Began
  <2>3. QED
    BY <1>2, <2>0, <2>1, <2>2 DEF PassedOrOvertaken
<1>3. Running' = Running
  BY <1>0 DEF Running, TypeOK
<1>4. D \in SUBSET Unseen(q) /\ R \in SUBSET Unseen(q)
  BY <1>2, <1>3 DEF Unseen
<1>5. D \cap R = {}
  BY <1>3 DEF CallsEnd, Running
<1>6. CountedTimes(z)' \in SUBSET (Seen(q) \cup {at[r] : r \in D})
  <2>1. ASSUME NEW r \in PassedOrOvertaken(z)', result[r] = "limited", at[r] + z.period > now
        PROVE  at[r] \in Seen(q) \cup {at[x] : x \in D}
    <3>0. /\ r \in Requests /\ at[r] \in Nat /\ at[q] \in Nat /\ at[q] <= now /\ now \in Nat
          /\ z.period \in Nat /\ MaxTtl \in Nat
      BY <1>2, ConstantsAssumption DEF TypeOK, Timeline, ReadingsInPast, Quota
    <3>1. CASE at[r] > at[q]
      BY <2>1, <3>1
    <3>2. CASE ~(at[r] > at[q])
      <4>1. at[r] \in zset[GlobalKey]
        BY <2>1, <3>0 DEF Overshoot, CountedRetained
      <4>2. at[r] <= at[q] /\ at[q] <= at[r] + z.period
        BY <2>1, <3>0, <3>2
      <4>3. QED
        BY <4>1, <4>2 DEF Seen, InWindow, KeyOf
    <3>3. QED
      BY <3>1, <3>2
  <2>2. QED
    BY <1>0, <2>1 DEF CountedTimes, Counted, Recent
<1>7. /\ IsFiniteSet(Seen(q)) /\ Cardinality(Seen(q)) <= z.limit
      /\ IsFiniteSet(Unseen(q)) /\ Cardinality(Unseen(q)) <= MaxInFlight
  <2>1. IsFiniteSet(Seen(q)) /\ Cardinality(Seen(q)) <= z.limit
    BY <1>0, SeenWithinLimit
  <2>2. Unseen(q) \in SUBSET Requests
    BY DEF Unseen
  <2>3. QED
    BY <1>0, <2>1, <2>2, RequestsFinite DEF Overshoot, UnseenFew
<1>8. Cardinality(CountedTimes(z)') + Cardinality(R) <= Cardinality(Seen(q)) + Cardinality(Unseen(q))
  <2> HIDE DEF D, R
  <2>1. QED
    BY <1>4, <1>5, <1>6, <1>7, SplitSmall
<1>9. /\ Cardinality(CountedTimes(z)') \in Nat /\ Cardinality(R) \in Nat
      /\ Cardinality(Seen(q)) \in Nat /\ Cardinality(Unseen(q)) \in Nat
      /\ z.limit \in Nat /\ MaxInFlight \in Nat
  <2>1. IsFiniteSet(D) /\ IsFiniteSet(R)
    BY <1>4, <1>7, FS_Subset
  <2>2. IsFiniteSet({at[r] : r \in D})
    BY <2>1, ImageSmall
  <2>3. IsFiniteSet(Seen(q) \cup {at[r] : r \in D})
    BY <1>7, <2>2, FS_Union
  <2>4. IsFiniteSet(CountedTimes(z)')
    BY <1>6, <2>3, FS_Subset
  <2>5. QED
    BY <1>7, <2>1, <2>4, FS_CardinalityType, ConstantsAssumption DEF Quota
<1>10. QED
  BY <1>7, <1>8, <1>9

\* Every step keeps the overshoot within the bound.
LEMMA NextOvershootWithin ==
    TypeOK /\ Timeline /\ CallsEnd /\ Overshoot /\ [Next]_vars => OvershootWithin'
<1> SUFFICES ASSUME TypeOK, Timeline, CallsEnd, Overshoot, [Next]_vars,
                    NEW z \in Quota, z.type = "Global", z.period <= MaxTtl
             PROVE  Cardinality(CountedTimes(z)') + Cardinality((PassedOrOvertaken(z) \cap Running)')
                      <= z.limit + MaxInFlight
  BY DEF OvershootWithin
<1>1. CASE \A q \in Requests : ~PassCheck(q)
  BY <1>1, OnlyPassesAdd, SettlingKeepsOvershoot DEF Overshoot
<1>2. ASSUME NEW q \in Requests, PassCheck(q)
      PROVE  Cardinality(CountedTimes(z)') + Cardinality((PassedOrOvertaken(z) \cap Running)')
               <= z.limit + MaxInFlight
  <2>0. ASSUME PassedOrOvertaken(z)' \subseteq PassedOrOvertaken(z)
        PROVE  Cardinality(CountedTimes(z)') + Cardinality((PassedOrOvertaken(z) \cap Running)')
                 <= z.limit + MaxInFlight
    BY <2>0, SettlingKeepsOvershoot DEF Overshoot
  <2>1. CASE checking[q] = z => \E p \in passes : p.quota = z /\ readNo[q] < p.no
    <3>1. PassedOrOvertaken(z)' \subseteq PassedOrOvertaken(z)
      BY <1>2, <2>1, PassAdds
    <3>2. QED
      BY <2>0, <3>1
  <2>2. CASE checking[q] = z /\ ~\E p \in passes : p.quota = z /\ readNo[q] < p.no
    BY <1>2, <2>2, PassKeepsOvershoot
  <2>3. QED
    BY <2>1, <2>2
<1>3. QED
  BY <1>1, <1>2

\* The calls counted include those that passed, so the property follows.
LEMMA OvershootImpliesBound ==
    TypeOK /\ Overshoot => GlobalOvershootBound
<1> SUFFICES ASSUME TypeOK, Overshoot,
                    NEW z \in CheckedQuotas, z.type = "Global", z.period <= MaxTtl
             PROVE  Cardinality(Recent({at[q] : q \in {p \in Passed(z) : result[p] = "limited"}}, z))
                      + Cardinality(Passed(z) \cap Running) <= z.limit + MaxInFlight
  BY DEF GlobalOvershootBound
<1> DEFINE S == Recent({at[q] : q \in {p \in Passed(z) : result[p] = "limited"}}, z)
           T == CountedTimes(z)
           A == Passed(z) \cap Running
           B == PassedOrOvertaken(z) \cap Running
<1>1. z \in Quota
  BY DEF CheckedQuotas, TypeOK
<1>2. Passed(z) \subseteq PassedOrOvertaken(z)
  BY DEF Passed, PassedOrOvertaken, TypeOK
<1>3. S \subseteq T /\ A \subseteq B /\ B \in SUBSET Requests
  BY <1>2 DEF CountedTimes, Counted, Recent, PassedOrOvertaken
<1>4. IsFiniteSet(T) /\ IsFiniteSet(B)
  BY <1>1, <1>3, CountedFinite, RequestsFinite
<1>5. Cardinality(T) + Cardinality(B) <= z.limit + MaxInFlight
  BY <1>1 DEF Overshoot, OvershootWithin
<1>6. Cardinality(S) <= Cardinality(T) /\ Cardinality(A) <= Cardinality(B)
  BY <1>3, <1>4, FS_Subset
<1>7. /\ Cardinality(S) \in Nat /\ Cardinality(A) \in Nat /\ Cardinality(T) \in Nat
      /\ Cardinality(B) \in Nat /\ z.limit \in Nat /\ MaxInFlight \in Nat
  BY <1>1, <1>3, <1>4, FS_Subset, FS_CardinalityType, ConstantsAssumption DEF Quota
<1> HIDE DEF S, T, A, B
<1>8. Cardinality(S) + Cardinality(A) <= z.limit + MaxInFlight
  BY <1>5, <1>6, <1>7
<1>9. QED
  BY <1>8 DEF S, A

\* The calls past a route's global quota, counted in the last period or still to be
\* counted, never exceed its limit by more than the calls the server runs at once
\* (client.rs:117-135 counts a call only after its checks).
THEOREM OvershootBounded == Spec => []GlobalOvershootBound
<1>1. TypeOK /\ Timeline /\ CallsEnd /\ Overshoot /\ [Next]_vars => Overshoot'
  BY NextInFlight, NextCountedRetained, NextUnseenFew, NextPassesNumbered, NextOvershootWithin
  DEF Overshoot
<1>2. QED
  BY <1>1, InitTypeOK, InitTimeline, InitCallsEnd, InitOvershoot, NextTypeOK, NextTimeline,
     NextCallsEnd, OvershootImpliesBound, PTL DEF Spec
============================================================================

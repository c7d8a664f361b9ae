------------------------- MODULE DataPrivacyProofs -------------------------
(***************************************************************************)
(* A confirmed protection is seen by every later lookup, for any number of *)
(* requests, lookups and accounts.  The argument is the cache's lock: a    *)
(* list that was read before an insert cannot be stored after the clear    *)
(* that follows the insert, because the fill holds the lock the clear      *)
(* waits for.  And a handler that ran beside no other one leaves exact row  *)
(* policies: nobody else writes the table between its SELECT and the last  *)
(* policy it replaces.                                                     *)
(***************************************************************************)
EXTENDS DataPrivacy, TLAPS

FillHoldsLock ==
    \A r \in Lookups : pc[r] \in {"query", "store"} => lock = r

\* What is confirmed is in the table, in the cached list and in a list about
\* to be cached.
ConfirmedEverywhere ==
    /\ confirmed \subseteq table
    /\ cached => confirmed \subseteq list
    /\ \A r \in Lookups : pc[r] = "store" => confirmed \subseteq snapshot[r]

\* What a lookup must see is still confirmed while it runs.
MustSeeConfirmed ==
    \A r \in Lookups : pc[r] \in {"lock", "query", "store"} => mustSee[r] \subseteq confirmed

Inv ==
    /\ TypeOK
    /\ FillHoldsLock
    /\ ConfirmedEverywhere
    /\ MustSeeConfirmed
    /\ ConfirmedAccountsHidden

\* The invariant holds at the start.
LEMMA InitInv == Init => Inv
<1> SUFFICES ASSUME Init PROVE Inv
  OBVIOUS
<1>1. TypeOK
  <2>1. /\ pc \in [Processes -> PcState]
        /\ snapshot \in [Processes -> SUBSET Accounts]
    BY DEF Init, PcState
  <2>2. /\ policy \in [Policies -> SUBSET Accounts]
        /\ nextPolicy \in [Handlers -> Policies]
        /\ mustSee \in [Lookups -> SUBSET Accounts]
    BY DEF Init, Policies
  <2>3. QED
    BY <2>1, <2>2 DEF Init, TypeOK
<1>2. \A r \in Lookups : pc[r] = "idle"
  BY DEF Init, Processes
<1>3. QED
  BY <1>1, <1>2 DEF Init, Inv, FillHoldsLock, ConfirmedEverywhere, MustSeeConfirmed,
                    ConfirmedAccountsHidden

\* Every step keeps the types.
LEMMA NextTypeOK == TypeOK /\ [Next]_vars => TypeOK'
<1> SUFFICES ASSUME TypeOK, [Next]_vars PROVE TypeOK'
  OBVIOUS
<1> USE DEF TypeOK, Processes, PcState, Policies, Goto, stored, server, history
<1>1. ASSUME NEW h \in Handlers, HandlerStep(h)
      PROVE  TypeOK'
  <2>1. CASE Begin(h)
    BY <2>1 DEF Begin, Active
  <2>2. CASE WriteTable(h)
    BY <2>2 DEF WriteTable, Write
  <2>3. CASE ClearCache(h)
    BY <2>3 DEF ClearCache
  <2>4. CASE SelectAccounts(h)
    BY <2>4 DEF SelectAccounts
  <2>5. CASE DropPolicies(h)
    BY <2>5 DEF DropPolicies
  <2>6. CASE ReplacePolicy(h)
    BY <2>6 DEF ReplacePolicy
  <2>7. CASE HandlerFails(h)
    BY <2>7 DEF HandlerFails, Write
  <2>8. QED
    BY <1>1, <2>1, <2>2, <2>3, <2>4, <2>5, <2>6, <2>7 DEF HandlerStep
<1>2. ASSUME NEW r \in Lookups, LookupStep(r)
      PROVE  TypeOK'
  BY <1>2 DEF LookupStep, LookupBegin, LookupHit, LookupMiss, LookupQuery, LookupStore,
              LookupFails
<1>3. CASE CacheExpires
  BY <1>3 DEF CacheExpires
<1>4. CASE Restart
  BY <1>4 DEF Restart
<1>5. CASE UNCHANGED vars
  BY <1>5 DEF vars
<1>6. QED
  BY <1>1, <1>2, <1>3, <1>4, <1>5 DEF Next

\* A handler's step keeps the invariant.
LEMMA HandlerKeepsInv ==
    ASSUME Inv, TypeOK', NEW h \in Handlers, HandlerStep(h)
    PROVE  Inv'
<1> USE ConstantsAssumption DEF Inv, TypeOK, Processes, Goto, stored, server, history
<1>0. /\ lock' = lock
      /\ \A r \in Lookups : pc'[r] = pc[r] /\ snapshot'[r] = snapshot[r]
  BY DEF HandlerStep, Begin, WriteTable, ClearCache, SelectAccounts, DropPolicies,
         ReplacePolicy, HandlerFails
<1>1. FillHoldsLock'
  BY <1>0 DEF FillHoldsLock
<1>2. CASE UNCHANGED <<table, cached, list, confirmed, mustSee>>
  BY <1>0, <1>1, <1>2 DEF ConfirmedEverywhere, MustSeeConfirmed, ConfirmedAccountsHidden
<1>3. CASE Write(h) /\ UNCHANGED <<cached, list>>
  BY <1>0, <1>1, <1>3 DEF Write, ConfirmedEverywhere, MustSeeConfirmed, ConfirmedAccountsHidden
<1>4. CASE ClearCache(h)
  <2>1. /\ lock = Nobody /\ ~cached' /\ UNCHANGED <<table, list, mustSee>>
        /\ confirmed \subseteq confirmed' /\ confirmed' \subseteq confirmed \cup table
    BY <1>4 DEF ClearCache
  <2>2. \A r \in Lookups : pc'[r] # "store"
    BY <1>0, <2>1 DEF FillHoldsLock
  <2>3. ConfirmedEverywhere'
    BY <2>1, <2>2 DEF ConfirmedEverywhere
  <2>4. MustSeeConfirmed' /\ ConfirmedAccountsHidden'
    BY <1>0, <2>1 DEF MustSeeConfirmed, ConfirmedAccountsHidden
  <2>5. QED
    BY <1>1, <2>3, <2>4
<1>5. QED
  BY <1>2, <1>3, <1>4 DEF HandlerStep, Begin, WriteTable, SelectAccounts, DropPolicies,
                          ReplacePolicy, HandlerFails

\* A lookup's step keeps the invariant.
LEMMA LookupKeepsInv ==
    ASSUME Inv, TypeOK', NEW r \in Lookups, LookupStep(r)
    PROVE  Inv'
<1> USE ConstantsAssumption DEF Inv, TypeOK, Processes, Goto, stored, server, history
<1>1. CASE LookupBegin(r)
  BY <1>1 DEF LookupBegin, FillHoldsLock, ConfirmedEverywhere, MustSeeConfirmed,
              ConfirmedAccountsHidden
<1>2. CASE LookupHit(r)
  BY <1>2 DEF LookupHit, FillHoldsLock, ConfirmedEverywhere, MustSeeConfirmed,
              ConfirmedAccountsHidden
<1>3. CASE LookupMiss(r)
  BY <1>3 DEF LookupMiss, FillHoldsLock, ConfirmedEverywhere, MustSeeConfirmed,
              ConfirmedAccountsHidden
<1>4. CASE LookupQuery(r)
  BY <1>4 DEF LookupQuery, FillHoldsLock, ConfirmedEverywhere, MustSeeConfirmed,
              ConfirmedAccountsHidden
<1>5. CASE LookupStore(r)
  BY <1>5 DEF LookupStore, FillHoldsLock, ConfirmedEverywhere, MustSeeConfirmed,
              ConfirmedAccountsHidden
<1>6. CASE LookupFails(r)
  BY <1>6 DEF LookupFails, FillHoldsLock, ConfirmedEverywhere, MustSeeConfirmed,
              ConfirmedAccountsHidden
<1>7. QED
  BY <1>1, <1>2, <1>3, <1>4, <1>5, <1>6 DEF LookupStep

\* Every step of the system keeps the invariant.
LEMMA NextInv == Inv /\ [Next]_vars => Inv'
<1> SUFFICES ASSUME Inv, [Next]_vars PROVE Inv'
  OBVIOUS
<1>0. TypeOK'
  BY NextTypeOK DEF Inv
<1>1. CASE \E h \in Handlers : HandlerStep(h)
  BY <1>0, <1>1, HandlerKeepsInv
<1>2. CASE \E r \in Lookups : LookupStep(r)
  BY <1>0, <1>2, LookupKeepsInv
<1>3. CASE CacheExpires
  BY <1>0, <1>3
  DEF CacheExpires, Inv, stored, history, FillHoldsLock, ConfirmedEverywhere,
      MustSeeConfirmed, ConfirmedAccountsHidden
<1>4. CASE Restart
  <2>1. /\ ~cached' /\ UNCHANGED <<table, list, snapshot, confirmed, mustSee>>
        /\ \A r \in Lookups : /\ pc'[r] \notin {"lock", "query", "store"}
                              /\ pc'[r] = "answered" => pc[r] = "answered"
    BY <1>4 DEF Restart, Inv, TypeOK, Processes, stored, history
  <2>2. QED
    BY <1>0, <2>1 DEF Inv, FillHoldsLock, ConfirmedEverywhere, MustSeeConfirmed,
                      ConfirmedAccountsHidden
<1>5. CASE UNCHANGED vars
  BY <1>0, <1>5
  DEF vars, server, stored, history, Inv, FillHoldsLock, ConfirmedEverywhere,
      MustSeeConfirmed, ConfirmedAccountsHidden
<1>6. QED
  BY <1>1, <1>2, <1>3, <1>4, <1>5 DEF Next

\* The privacy state keeps its declared types (data_privacy/mod.rs).
THEOREM TypeCorrect == Spec => []TypeOK
<1>1. Inv => TypeOK
  BY DEF Inv
<1>2. QED
  BY <1>1, InitInv, NextInv, PTL DEF Spec

\* A lookup that begins after a protection was confirmed sees it, until it is
\* withdrawn (data_privacy/mod.rs:23-44, services/steam/client.rs:289-307).
THEOREM ProtectionSeen == Spec => []ConfirmedAccountsHidden
<1>1. Inv => ConfirmedAccountsHidden
  BY DEF Inv
<1>2. QED
  BY <1>1, InitInv, NextInv, PTL DEF Spec

----------------------------------------------------------------------------
\* The row policies

\* Two handlers that are under way at once both count as overlapped.
OverlapNoticed ==
    \A g, h \in Active : g # h => h \in overlapped

\* A handler that has not read the accounts yet has replaced no policy.
PoliciesUntouched ==
    \A h \in Handlers : pc[h] \in {"idle", "write", "clear", "select"} => nextPolicy[h] = 1

\* The list a lone handler applies is the table as it is, and the policies it
\* has replaced so far hide exactly that.
LoneListCurrent ==
    \A h \in Handlers \ overlapped : pc[h] = "apply" =>
        /\ snapshot[h] = table
        /\ \A i \in 1..(nextPolicy[h] - 1) : policy[i] = table

PolicyInv == OverlapNoticed /\ PoliciesUntouched /\ LoneListCurrent

\* The invariant of the policies holds at the start.
LEMMA InitPolicyInv == Init => PolicyInv
  BY DEF Init, PolicyInv, OverlapNoticed, PoliciesUntouched, LoneListCurrent, Active, Processes

\* A step that sets no handler going and touches nothing of the policies keeps
\* their invariant.
LEMMA PolicyInvKept ==
    ASSUME PolicyInv, TypeOK, UNCHANGED <<stored, nextPolicy, overlapped>>,
           \A h \in Handlers : pc'[h] \in {pc[h], "failed"} /\ snapshot'[h] = snapshot[h]
    PROVE  PolicyInv'
<1>1. Active' \subseteq Active
  BY DEF Active
<1>2. OverlapNoticed'
  BY <1>1 DEF PolicyInv, OverlapNoticed
<1>3. PoliciesUntouched'
  BY DEF PolicyInv, PoliciesUntouched
<1>4. LoneListCurrent'
  BY DEF PolicyInv, LoneListCurrent, stored
<1>5. QED
  BY <1>2, <1>3, <1>4 DEF PolicyInv

\* While one handler is under way another one that does not overlap is not, so
\* what the first does to the table and the policies concerns nobody else.
LEMMA OthersKept ==
    ASSUME PolicyInv, TypeOK, NEW h \in Active,
           \A g \in Handlers \ {h} : /\ pc'[g] = pc[g] /\ snapshot'[g] = snapshot[g]
                                     /\ nextPolicy'[g] = nextPolicy[g],
           overlapped' = overlapped,
           pc'[h] \in {"write", "clear", "select"} => nextPolicy'[h] = 1,
           pc'[h] # "idle",
           h \notin overlapped /\ pc'[h] = "apply" =>
              snapshot'[h] = table' /\ \A i \in 1..(nextPolicy'[h] - 1) : policy'[i] = table'
    PROVE  PolicyInv'
<1>1. Active' \subseteq Active
  BY DEF Active
<1>2. OverlapNoticed'
  BY <1>1 DEF PolicyInv, OverlapNoticed
<1>3. PoliciesUntouched'
  BY DEF PolicyInv, PoliciesUntouched
<1>4. ASSUME NEW g \in Handlers, g \notin overlapped, pc[g] = "apply"
      PROVE  g = h
  BY <1>4 DEF PolicyInv, OverlapNoticed, Active
<1>5. LoneListCurrent'
  BY <1>4 DEF LoneListCurrent
<1>6. QED
  BY <1>2, <1>3, <1>5 DEF PolicyInv

\* Every step of a handler keeps the invariant of the policies.
LEMMA HandlerKeepsPolicyInv ==
    ASSUME PolicyInv, TypeOK, NEW h \in Handlers, HandlerStep(h)
    PROVE  PolicyInv'
<1> USE DEF TypeOK, Processes, Policies, Goto, stored, server, history
<1>1. CASE Begin(h)
  <2>1. /\ pc[h] = "idle" /\ nextPolicy[h] = 1
        /\ UNCHANGED <<stored, nextPolicy, snapshot>>
        /\ \A g \in Handlers \ {h} : pc'[g] = pc[g]
        /\ \/ pc'[h] = "failed" /\ overlapped' = overlapped
           \/ /\ pc'[h] = "write"
              /\ overlapped' = IF Active = {} THEN overlapped ELSE overlapped \cup Active \cup {h}
    BY <1>1 DEF Begin, PolicyInv, PoliciesUntouched
  <2>2. Active' \subseteq Active \cup {h} /\ overlapped \subseteq overlapped'
    BY <2>1 DEF Active
  <2>3. OverlapNoticed'
    BY <2>1, <2>2 DEF PolicyInv, OverlapNoticed, Active
  <2>4. PoliciesUntouched'
    BY <2>1 DEF PolicyInv, PoliciesUntouched
  <2>5. LoneListCurrent'
    BY <2>1, <2>2 DEF PolicyInv, LoneListCurrent
  <2>6. QED
    BY <2>3, <2>4, <2>5 DEF PolicyInv
<1>2. CASE WriteTable(h)
  BY <1>2, OthersKept DEF WriteTable, Active, PolicyInv, PoliciesUntouched, Write
<1>3. CASE ClearCache(h)
  BY <1>3, OthersKept DEF ClearCache, Active, PolicyInv, PoliciesUntouched
<1>4. CASE SelectAccounts(h)
  BY <1>4, OthersKept DEF SelectAccounts, Active, PolicyInv, PoliciesUntouched
<1>5. CASE DropPolicies(h)
  BY <1>5, OthersKept DEF DropPolicies, Active
<1>6. CASE ReplacePolicy(h)
  <2>1. /\ h \in Active /\ pc[h] = "apply" /\ nextPolicy[h] \in Policies
        /\ policy' = [policy EXCEPT ![nextPolicy[h]] = snapshot[h]]
        /\ UNCHANGED <<table, snapshot, overlapped>>
        /\ \A g \in Handlers \ {h} : pc'[g] = pc[g] /\ nextPolicy'[g] = nextPolicy[g]
        /\ \/ pc'[h] = "apply" /\ nextPolicy'[h] = nextPolicy[h] + 1
           \/ pc'[h] = "ok"
    BY <1>6 DEF ReplacePolicy, Active
  <2>2. h \notin overlapped /\ pc'[h] = "apply" =>
            snapshot'[h] = table' /\ \A i \in 1..(nextPolicy'[h] - 1) : policy'[i] = table'
    BY <2>1 DEF PolicyInv, LoneListCurrent
  <2>3. QED
    BY <2>1, <2>2, OthersKept
<1>7. CASE HandlerFails(h)
  BY <1>7, OthersKept DEF HandlerFails, Active
<1>8. QED
  BY <1>1, <1>2, <1>3, <1>4, <1>5, <1>6, <1>7 DEF HandlerStep

\* Every step of the system keeps the invariant of the policies.
LEMMA NextPolicyInv == PolicyInv /\ TypeOK /\ [Next]_vars => PolicyInv'
<1> SUFFICES ASSUME PolicyInv, TypeOK, [Next]_vars PROVE PolicyInv'
  OBVIOUS
<1>1. CASE \E h \in Handlers : HandlerStep(h)
  BY <1>1, HandlerKeepsPolicyInv
<1>2. ASSUME NEW r \in Lookups, LookupStep(r)
      PROVE  PolicyInv'
  <2>1. /\ UNCHANGED <<stored, nextPolicy, overlapped>>
        /\ \A h \in Handlers : pc'[h] = pc[h] /\ snapshot'[h] = snapshot[h]
    BY <1>2, ConstantsAssumption
    DEF LookupStep, LookupBegin, LookupHit, LookupMiss, LookupQuery, LookupStore, LookupFails,
        TypeOK, Processes, Goto, history
  <2>2. QED
    BY <2>1, PolicyInvKept
<1>3. CASE CacheExpires
  BY <1>3, PolicyInvKept DEF CacheExpires, history
<1>4. CASE Restart
  <2>1. \A h \in Handlers : pc'[h] \in {pc[h], "failed"}
    BY <1>4 DEF Restart, Processes
  <2>2. QED
    BY <1>4, <2>1, PolicyInvKept DEF Restart, history
<1>5. CASE UNCHANGED vars
  BY <1>5, PolicyInvKept DEF vars, history
<1>6. QED
  BY <1>1, <1>2, <1>3, <1>4, <1>5 DEF Next

\* A handler that ran beside no other one and succeeds leaves all three row
\* policies hiding exactly the protected accounts, if there are any
\* (data_privacy/mod.rs:72-103).
THEOREM LoneUpdateExact == Spec => LonePolicyUpdateExact
<1>1. ASSUME TypeOK, PolicyInv, [Next]_vars
      PROVE  [\A h \in Handlers :
                /\ pc[h] = "apply" /\ pc'[h] = "ok"
                /\ h \notin overlapped
                /\ table # {}
                => \A i \in Policies : policy'[i] = table']_vars
  <2> SUFFICES ASSUME NEW h \in Handlers, pc[h] = "apply", pc'[h] = "ok",
                      h \notin overlapped, table # {}, Next
               PROVE  \A i \in Policies : policy'[i] = table'
    BY <1>1 DEF vars
  <2>1. /\ snapshot[h] = table
        /\ \A i \in 1..(nextPolicy[h] - 1) : policy[i] = table
    BY <1>1 DEF PolicyInv, LoneListCurrent
  <2>2. ReplacePolicy(h)
    <3>1. CASE HandlerStep(h)
      BY <1>1, <2>1, <3>1
      DEF HandlerStep, Begin, WriteTable, ClearCache, SelectAccounts, DropPolicies, HandlerFails,
          TypeOK, Processes, Goto
    <3>2. CASE \E g \in Handlers \ {h} : HandlerStep(g)
      BY <1>1, <3>2
      DEF HandlerStep, Begin, WriteTable, ClearCache, SelectAccounts, DropPolicies, ReplacePolicy,
          HandlerFails, TypeOK, Processes, Goto
    <3>3. CASE \E r \in Lookups : LookupStep(r)
      BY <1>1, <3>3, ConstantsAssumption
      DEF LookupStep, LookupBegin, LookupHit, LookupMiss, LookupQuery, LookupStore, LookupFails,
          TypeOK, Processes, Goto
    <3>4. CASE CacheExpires
      BY <3>4 DEF CacheExpires
    <3>5. CASE Restart
      BY <3>5 DEF Restart, Processes
    <3>6. QED
      BY <3>1, <3>2, <3>3, <3>4, <3>5 DEF Next
  <2>3. nextPolicy[h] = 3 /\ table' = table
        /\ policy' = [policy EXCEPT ![nextPolicy[h]] = snapshot[h]]
    BY <1>1, <2>2 DEF ReplacePolicy, TypeOK, Processes, Policies, Goto
  <2>4. QED
    BY <1>1, <2>1, <2>3 DEF TypeOK, Policies
<1>2. Init => TypeOK
  BY InitInv DEF Inv
<1>3. QED
  BY <1>1, <1>2, InitPolicyInv, NextTypeOK, NextPolicyInv, PTL DEF Spec, LonePolicyUpdateExact
============================================================================

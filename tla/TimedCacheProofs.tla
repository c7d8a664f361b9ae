-------------------------- MODULE TimedCacheProofs --------------------------
(***************************************************************************)
(* A cached function keeps the contract its callers rely on, and where it  *)
(* runs under a lock it runs once per key, for any number of callers, keys *)
(* and versions.                                                           *)
(***************************************************************************)
EXTENDS TimedCache, TLAPS

\* The clock is ahead of every time on record, a run is within its limit, and
\* only what came before the current version has ended.
Timed ==
    /\ now # 0
    /\ \A c \in Running : since[c] <= now /\ now <= since[c] + MaxRun
    /\ \A k \in Keys : entry[k].at <= now /\ entry[k].value <= version
    /\ \A v \in Versions : version <= v => endedAt[v] = 0
    /\ \A c \in Callers : reply[c] <= version /\ (pc[c] # "done" => reply[c] = 0)

\* A value read by a run that is still under way ended after the run began, and
\* an entry is at most one run older than the end of its value.
ValuesRecent ==
    /\ \A c \in Callers : pc[c] = "store" =>
          /\ value[c] \in 1..version
          /\ endedAt[value[c]] = 0 \/ since[c] <= endedAt[value[c]]
    /\ \A k \in Keys : entry[k].value # 0 =>
          endedAt[entry[k].value] = 0 \/ entry[k].at <= endedAt[entry[k].value] + MaxRun

\* With a lock, its holders are the callers under way, one for each key.
Locked ==
    Mode # "none" => holders = Running /\ \A c, d \in Running : key[c] = key[d] => c = d

\* With a lock, no entry and no value on its way to one is older than an answer.
NeverBack ==
    Mode # "none" =>
        \A d \in Callers : pc[d] = "done" =>
            /\ entry[key[d]].value # 0 => reply[d] <= entry[key[d]].value
            /\ \A c \in Callers : pc[c] = "store" /\ key[c] = key[d] => reply[d] <= value[c]

\* A floor is an answer that was given before.
FloorGiven ==
    \A c \in Callers :
        floor[c] # 0 => \E d \in Callers : pc[d] = "done" /\ key[d] = key[c] /\ reply[d] = floor[c]

NegativesTimed ==
    \A k \in Keys : entry[k].at # 0 /\ entry[k].value = 0 =>
        ~OkOnly /\ failedAt[k] = entry[k].at

Inv == TypeOK /\ Timed /\ ValuesRecent /\ Locked /\ NeverBack /\ FloorGiven

----------------------------------------------------------------------------
\* Versions are values, 0 is the value that is none of them, and all are numbers.
LEMMA Ranges ==
  /\ Versions \subseteq Values /\ Values \subseteq Nat /\ 0 \in Values /\ 0 \notin Versions
  /\ \A v \in Values : v # 0 => v \in Versions
  /\ \A v \in Versions : \A w \in 0..v : w \in Values
  /\ \A v \in Versions : v < MaxVersion => v + 1 \in Versions
  BY ConstantsAssumption DEF Versions, Values

\* The invariant holds at the start: nothing is cached and nobody runs.
LEMMA InitInv == Init => Inv /\ NegativesTimed
  BY ConstantsAssumption
  DEF Init, Inv, TypeOK, PcState, Versions, Values, Timed, ValuesRecent, Locked, NeverBack,
      FloorGiven, NegativesTimed, Running

\* Every step keeps the types.
LEMMA NextTypeOK == TypeOK /\ [Next]_vars => TypeOK'
<1> SUFFICES ASSUME TypeOK, [Next]_vars PROVE TypeOK'
  OBVIOUS
<1> USE ConstantsAssumption, Ranges DEF TypeOK, PcState, Running
<1>1. ASSUME NEW c \in Callers, Ask(c) \/ Proceed(c) \/ HangUp(c) PROVE TypeOK'
  <2>1. CASE Ask(c)
    <3>1. PICK v \in 0..version : floor' = [floor EXCEPT ![c] = v]
      BY <2>1 DEF Ask
    <3>2. QED
      BY <2>1, <3>1 DEF Ask
  <2>2. CASE Hit(c)
    BY <2>2 DEF Hit
  <2>3. CASE Miss(c)
    BY <2>3 DEF Miss
  <2>4. CASE Read(c)
    BY <2>4 DEF Read
  <2>5. CASE Store(c)
    BY <2>5 DEF Store
  <2>6. CASE RunFails(c)
    <3>1. entry' = entry \/ entry' = [entry EXCEPT ![key[c]] = [at |-> now, value |-> 0]]
      BY <2>6 DEF RunFails
    <3>2. QED
      BY <2>6, <3>1 DEF RunFails
  <2>7. CASE HangUp(c)
    BY <2>7 DEF HangUp
  <2>8. QED
    BY <1>1, <2>1, <2>2, <2>3, <2>4, <2>5, <2>6, <2>7 DEF Proceed
<1>2. CASE Change
  BY <1>2 DEF Change
<1>3. CASE Tick
  BY <1>3 DEF Tick
<1>4. CASE UNCHANGED vars
  BY <1>4 DEF vars
<1>5. QED
  BY <1>1, <1>2, <1>3, <1>4 DEF Next

\* Times on record stay behind the clock, and runs within their limit.
LEMMA NextTimed == TypeOK /\ Timed /\ ValuesRecent /\ [Next]_vars => Timed'
<1> SUFFICES ASSUME TypeOK, Timed, ValuesRecent, [Next]_vars PROVE Timed'
  OBVIOUS
<1> USE ConstantsAssumption, Ranges DEF TypeOK, Timed, Running
<1>1. ASSUME NEW c \in Callers, Ask(c) \/ Proceed(c) \/ HangUp(c) PROVE Timed'
  <2>1. CASE Ask(c) \/ Miss(c)
    BY <2>1 DEF Ask, Miss
  <2>2. CASE Hit(c)
    BY <2>2 DEF Hit
  <2>3. CASE Store(c)
    BY <2>3 DEF Store, ValuesRecent
  <2>4. CASE Read(c) \/ HangUp(c)
    BY <2>4 DEF Read, HangUp
  <2>5. CASE RunFails(c)
    <3>1. entry' = entry \/ entry' = [entry EXCEPT ![key[c]] = [at |-> now, value |-> 0]]
      BY <2>5 DEF RunFails
    <3>2. /\ UNCHANGED <<now, version, endedAt, since, reply>> /\ pc' = [pc EXCEPT ![c] = "done"]
          /\ pc[c] = "run"
      BY <2>5 DEF RunFails
    <3>3. \A k \in Keys : entry'[k].at <= now /\ entry'[k].value <= version
      BY <3>1
    <3>4. QED
      BY <3>2, <3>3
  <2>6. QED
    BY <1>1, <2>1, <2>2, <2>3, <2>4, <2>5 DEF Proceed
<1>2. CASE Change
  <2>1. /\ version' = version + 1 /\ version \in Nat /\ now' = now
        /\ UNCHANGED <<entry, pc, since, reply>>
        /\ endedAt' = [endedAt EXCEPT ![version] = now]
    BY <1>2 DEF Change
  <2>2. \A v \in Versions : version + 1 <= v => endedAt'[v] = 0
    BY <2>1
  <2>3. \A k \in Keys : entry[k].value \in Nat
    OBVIOUS
  <2>4. \A c \in Callers : reply[c] \in Nat
    OBVIOUS
  <2>5. QED
    BY <2>1, <2>2, <2>3, <2>4
<1>3. CASE Tick
  BY <1>3 DEF Tick
<1>4. CASE UNCHANGED vars
  BY <1>4 DEF vars
<1>5. QED
  BY <1>1, <1>2, <1>3, <1>4 DEF Next

\* A value that is read or stored stays within a run of the end of its version.
LEMMA NextRecent == TypeOK /\ Timed /\ ValuesRecent /\ [Next]_vars => ValuesRecent'
<1> SUFFICES ASSUME TypeOK, Timed, ValuesRecent, [Next]_vars PROVE ValuesRecent'
  OBVIOUS
<1> USE ConstantsAssumption, Ranges DEF TypeOK, Timed, ValuesRecent, Running
<1>1. ASSUME NEW c \in Callers, Ask(c) \/ Proceed(c) \/ HangUp(c) PROVE ValuesRecent'
  <2>1. CASE Ask(c) \/ Hit(c) \/ Miss(c)
    BY <2>1 DEF Ask, Hit, Miss
  <2>2. CASE Read(c)
    <3>1. version \in 1..version /\ endedAt[version] = 0
      BY DEF Versions
    <3>2. QED
      BY <2>2, <3>1 DEF Read
  <2>3. CASE HangUp(c)
    BY <2>3 DEF HangUp
  <2>4. CASE RunFails(c)
    <3>1. entry' = entry \/ entry' = [entry EXCEPT ![key[c]] = [at |-> now, value |-> 0]]
      BY <2>4 DEF RunFails
    <3>2. QED
      BY <2>4, <3>1 DEF RunFails
  <2>5. CASE Store(c)
    <3>1. /\ value[c] \in 1..version /\ value[c] \in Versions
          /\ endedAt[value[c]] \in Nat /\ since[c] \in Nat
          /\ endedAt[value[c]] = 0 \/ now <= endedAt[value[c]] + MaxRun
      BY <2>5 DEF Store, Versions
    <3>2. \A k \in Keys : entry'[k] = entry[k] \/ (entry'[k].at = now /\ entry'[k].value = value[c])
      BY <2>5 DEF Store
    <3>3. QED
      BY <2>5, <3>1, <3>2 DEF Store
  <2>6. QED
    BY <1>1, <2>1, <2>2, <2>3, <2>4, <2>5 DEF Proceed
<1>2. CASE Change
  BY <1>2 DEF Change
<1>3. CASE Tick \/ UNCHANGED vars
  BY <1>3 DEF Tick, vars
<1>4. QED
  BY <1>1, <1>2, <1>3 DEF Next

\* Under a lock one caller at a time runs for a key.
LEMMA NextLocked == TypeOK /\ Locked /\ [Next]_vars => Locked'
<1> SUFFICES ASSUME TypeOK, Locked, [Next]_vars, Mode # "none" PROVE Locked'
  BY DEF Locked
<1> USE ConstantsAssumption DEF TypeOK, Locked, Running
<1>1. ASSUME NEW c \in Callers, Ask(c) \/ Proceed(c) \/ HangUp(c) PROVE Locked'
  <2>1. CASE Ask(c) \/ Hit(c) \/ Read(c)
    BY <2>1 DEF Ask, Hit, Read
  <2>2. CASE Miss(c)
    <3>1. holders' = holders \cup {c} /\ key' = key /\ Running' = Running \cup {c}
      BY <2>2 DEF Miss
    <3>2. \A d \in Running : key[d] # key[c]
      BY <2>2 DEF Miss, Blockers
    <3>3. QED
      BY <3>1, <3>2
  <2>3. CASE Store(c) \/ RunFails(c) \/ HangUp(c)
    <3>1. key' = key /\ holders' = holders \ {c}
      BY <2>3 DEF Store, RunFails, HangUp
    <3>2. Running' = Running \ {c}
      BY <2>3 DEF Store, RunFails, HangUp
    <3>3. QED
      BY <3>1, <3>2
  <2>4. QED
    BY <1>1, <2>1, <2>2, <2>3 DEF Proceed
<1>2. CASE Change \/ Tick \/ UNCHANGED vars
  BY <1>2 DEF Change, Tick, vars
<1>3. QED
  BY <1>1, <1>2 DEF Next

\* Under a lock no entry, and no value on its way to one, gets older than an
\* answer.
LEMMA NextNeverBack == Inv /\ [Next]_vars => NeverBack'
<1> SUFFICES ASSUME Inv, [Next]_vars, Mode # "none" PROVE NeverBack'
  BY DEF NeverBack
<1> USE ConstantsAssumption, Ranges DEF Inv, TypeOK, Timed, Locked, NeverBack, Running
<1>1. ASSUME NEW c \in Callers, Ask(c) \/ Proceed(c) \/ HangUp(c) PROVE NeverBack'
  <2>1. CASE Ask(c) \/ Miss(c)
    BY <2>1 DEF Ask, Miss
  <2>2. CASE Hit(c)
    <3>1. \A d \in Callers : pc[d] = "store" => key[d] # key[c]
      BY <2>2 DEF Hit, Blockers
    <3>2. entry' = entry /\ value' = value /\ key' = key /\ key[c] \in Keys
      BY <2>2 DEF Hit
    <3>3. \A d \in Callers : pc'[d] = "done" => d = c \/ (pc[d] = "done" /\ reply'[d] = reply[d])
      BY <2>2 DEF Hit
    <3>4. reply'[c] = entry[key[c]].value /\ reply'[c] \in Nat
      BY <2>2 DEF Hit
    <3>5. \A d \in Callers : pc'[d] = "store" => pc[d] = "store" /\ d # c
      BY <2>2 DEF Hit
    <3>6. QED
      BY <3>1, <3>2, <3>3, <3>4, <3>5
  <2>3. CASE Read(c)
    BY <2>3 DEF Read
  <2>4. CASE Store(c)
    <3>1. \A d \in Callers : d # c /\ pc[d] = "store" => key[d] # key[c]
      BY <2>4 DEF Store
    <3>2. /\ value' = value /\ key' = key /\ pc[c] = "store" /\ value[c] \in Nat
          /\ \A k \in Keys : entry'[k].value = IF k = key[c] THEN value[c] ELSE entry[k].value
      BY <2>4 DEF Store
    <3>3. \A d \in Callers : pc'[d] = "done" => d = c \/ (pc[d] = "done" /\ reply'[d] = reply[d])
      BY <2>4 DEF Store
    <3>4. reply'[c] = value[c]
      BY <2>4 DEF Store
    <3>5. \A d \in Callers : pc'[d] = "store" => pc[d] = "store" /\ d # c
      BY <2>4 DEF Store
    <3>6. QED
      BY <3>1, <3>2, <3>3, <3>4, <3>5
  <2>5. CASE RunFails(c) \/ HangUp(c)
    <3>1. /\ value' = value /\ key' = key /\ reply' = reply /\ reply[c] = 0
          /\ \A k \in Keys : entry'[k].value \in {0, entry[k].value}
      BY <2>5 DEF RunFails, HangUp
    <3>2. \A d \in Callers : pc'[d] = "done" => d = c \/ pc[d] = "done"
      BY <2>5 DEF RunFails, HangUp
    <3>3. \A d \in Callers : pc'[d] = "store" => pc[d] = "store"
      BY <2>5 DEF RunFails, HangUp
    <3>4. \A d \in Callers : value[d] \in Nat /\ entry[key[d]].value \in Nat
      OBVIOUS
    <3>5. ASSUME NEW d \in Callers, pc'[d] = "done"
          PROVE  /\ entry'[key[d]].value # 0 => reply[d] <= entry'[key[d]].value
                 /\ \A e \in Callers : pc'[e] = "store" /\ key[e] = key[d] => reply[d] <= value[e]
      <4>1. CASE d = c
        BY <3>1, <3>4, <4>1
      <4>2. CASE pc[d] = "done"
        BY <3>1, <3>3, <3>4, <4>2
      <4>3. QED
        BY <3>2, <3>5, <4>1, <4>2
    <3>6. QED
      BY <3>1, <3>5
  <2>6. QED
    BY <1>1, <2>1, <2>2, <2>3, <2>4, <2>5 DEF Proceed
<1>2. CASE Change \/ Tick \/ UNCHANGED vars
  BY <1>2 DEF Change, Tick, vars
<1>3. QED
  BY <1>1, <1>2 DEF Next

\* A floor stays an answer that was given.
LEMMA NextFloor == TypeOK /\ FloorGiven /\ [Next]_vars => FloorGiven'
<1> SUFFICES ASSUME TypeOK, FloorGiven, [Next]_vars PROVE FloorGiven'
  OBVIOUS
<1> USE DEF TypeOK, FloorGiven
<1>1. ASSUME NEW c \in Callers, Ask(c) PROVE FloorGiven'
  BY <1>1 DEF Ask, AnsweredUpTo
<1>2. ASSUME NEW c \in Callers, Proceed(c) \/ HangUp(c) PROVE FloorGiven'
  <2>1. floor' = floor /\ key' = key
    BY <1>2 DEF Proceed, Hit, Miss, Read, Store, RunFails, HangUp
  <2>2. \A d \in Callers : pc[d] = "done" => pc'[d] = "done" /\ reply'[d] = reply[d]
    BY <1>2 DEF Proceed, Hit, Miss, Read, Store, RunFails, HangUp
  <2>3. QED
    BY <2>1, <2>2
<1>3. CASE Change \/ Tick \/ UNCHANGED vars
  BY <1>3 DEF Change, Tick, vars
<1>4. QED
  BY <1>1, <1>2, <1>3 DEF Next

\* Every step preserves the invariant, part by part.
LEMMA NextInv == Inv /\ [Next]_vars => Inv'
  BY NextTypeOK, NextTimed, NextRecent, NextLocked, NextNeverBack, NextFloor DEF Inv

\* The invariant holds throughout.
LEMMA Invariance == Spec => []Inv
  BY InitInv, NextInv, PTL DEF Spec

\* Every state of a cached function has its types.
THEOREM TypeCorrect == Spec => []TypeOK
  BY Invariance, PTL DEF Inv

\* Under a lock, a function never runs twice at a time for one key.
THEOREM RunsOncePerKey == Spec => []OneRunPerKey
<1>1. Inv => OneRunPerKey
  BY DEF Inv, Locked, OneRunPerKey
<1>2. QED
  BY <1>1, Invariance, PTL

----------------------------------------------------------------------------
\* A failure that is kept has its time on record.
LEMMA NextNegatives == TypeOK /\ Timed /\ ValuesRecent /\ NegativesTimed /\ [Next]_vars => NegativesTimed'
<1> SUFFICES ASSUME TypeOK, Timed, ValuesRecent, NegativesTimed, [Next]_vars PROVE NegativesTimed'
  OBVIOUS
<1> USE DEF TypeOK, NegativesTimed, Versions, Values
<1>1. ASSUME NEW c \in Callers, Store(c) PROVE NegativesTimed'
  BY <1>1 DEF Store, ValuesRecent
<1>2. ASSUME NEW c \in Callers, RunFails(c) PROVE NegativesTimed'
  <2>1. CASE ~OkOnly
    BY <1>2, <2>1 DEF RunFails
  <2>2. CASE OkOnly
    BY <1>2, <2>2 DEF RunFails
  <2>3. QED
    BY <2>1, <2>2
<1>3. ASSUME NEW c \in Callers, Ask(c) \/ Hit(c) \/ Miss(c) \/ Read(c) \/ HangUp(c)
      PROVE  NegativesTimed'
  BY <1>3 DEF Ask, Hit, Miss, Read, HangUp
<1>4. CASE Change \/ Tick \/ UNCHANGED vars
  BY <1>4 DEF Change, Tick, vars
<1>5. QED
  BY <1>1, <1>2, <1>3, <1>4 DEF Next, Proceed

\* A cached negative answer is given for at most a lifespan after its failure.
THEOREM NegativesForgotten == Spec => []NegativeForgotten
<1>1. NegativesTimed => NegativeForgotten
  BY DEF NegativesTimed, NegativeForgotten, Alive
<1>2. QED
  BY <1>1, InitInv, NextInv, NextNegatives, PTL DEF Spec, Inv

----------------------------------------------------------------------------
\* What a caller of the contract sees of c.
View(c) == IF pc[c] = "idle" THEN "idle" ELSE IF pc[c] = "done" THEN "answered" ELSE "waiting"

\* An initial state of the cache is one of the contract.
LEMMA InitRefines == Init => Contract!Init
  BY DEF Init, Contract!Init, Versions

\* An answer, with the value the caller is given, is an answer of the contract.
LEMMA AnswerRefines ==
  ASSUME Inv, NEW c \in Callers, pc[c] \notin {"idle", "done"},
         pc' = [pc EXCEPT ![c] = "done"],
         UNCHANGED <<now, version, endedAt, key, floor>>,
         NEW v \in Values, reply' = [reply EXCEPT ![c] = v],
         v # 0 => /\ v <= version
                  /\ endedAt[v] = 0 \/ now <= endedAt[v] + (Ttl + MaxRun)
                  /\ Mode # "none" => floor[c] <= v
  PROVE  Contract!Answer(c)
<1>1. [d \in Callers |-> View(d)]' = [[d \in Callers |-> View(d)] EXCEPT ![c] = "answered"]
  BY DEF View, Inv, TypeOK
<1>2. v = 0 => reply' = reply
  BY DEF Inv, TypeOK, Timed
<1>3. v # 0 => v \in 1..version
  BY DEF Inv, TypeOK, Values, Versions
<1>4. QED
  BY <1>1, <1>2, <1>3 DEF Contract!Answer, Contract!Recent, View

\* Every step of the cache is a step of the contract or none.
LEMMA StepRefines == Inv /\ [Next]_vars => [Contract!Next]_(Contract!vars)
<1> SUFFICES ASSUME Inv, [Next]_vars PROVE [Contract!Next]_(Contract!vars)
  OBVIOUS
<1> USE ConstantsAssumption
<1>1. ASSUME NEW c \in Callers, Ask(c) PROVE Contract!Ask(c)
  <2>1. [d \in Callers |-> View(d)]' = [[d \in Callers |-> View(d)] EXCEPT ![c] = "waiting"]
    BY <1>1 DEF View, Ask, Inv, TypeOK
  <2>2. QED
    BY <1>1, <2>1 DEF Contract!Ask, Contract!AnsweredUpTo, Ask, AnsweredUpTo, View
<1>2. ASSUME NEW c \in Callers, Hit(c) PROVE Contract!Answer(c)
  <2> DEFINE v == entry[key[c]].value
  <2>1. v \in Values /\ v <= version
    BY DEF Inv, TypeOK, Timed
  <2>2. v # 0 => endedAt[v] = 0 \/ now <= endedAt[v] + (Ttl + MaxRun)
    <3>1. key[c] \in Keys /\ now < entry[key[c]].at + Ttl /\ entry[key[c]].at \in Nat /\ now \in Nat
      BY <1>2 DEF Hit, Alive, Inv, TypeOK
    <3>2. v # 0 => endedAt[v] \in Nat
      BY <2>1 DEF Inv, TypeOK, Values, Versions
    <3>3. QED
      BY <3>1, <3>2 DEF Inv, ValuesRecent
  <2>3. Mode # "none" /\ v # 0 => floor[c] <= v
    BY <2>1 DEF Inv, NeverBack, FloorGiven, TypeOK, Values
  <2>4. QED
    BY <1>2, <2>1, <2>2, <2>3, AnswerRefines DEF Hit
<1>3. ASSUME NEW c \in Callers, Store(c) PROVE Contract!Answer(c)
  <2>1. value[c] \in Values /\ value[c] \in 1..version /\ version \in Nat
    BY <1>3 DEF Store, Inv, TypeOK, ValuesRecent, Versions
  <2>2. endedAt[value[c]] = 0 \/ now <= endedAt[value[c]] + (Ttl + MaxRun)
    <3>1. /\ endedAt[value[c]] \in Nat /\ since[c] \in Nat /\ now \in Nat
          /\ now <= since[c] + MaxRun
      BY <1>3, <2>1 DEF Store, Inv, TypeOK, Timed, Running, Versions
    <3>2. QED
      BY <1>3, <3>1 DEF Store, Inv, ValuesRecent
  <2>3. Mode # "none" => floor[c] <= value[c]
    BY <1>3, <2>1 DEF Store, Inv, NeverBack, FloorGiven, TypeOK, Values
  <2>4. pc[c] \notin {"idle", "done"} /\ pc' = [pc EXCEPT ![c] = "done"]
        /\ UNCHANGED <<now, version, endedAt, key, floor>> /\ reply' = [reply EXCEPT ![c] = value[c]]
    BY <1>3 DEF Store
  <2>5. value[c] <= version
    BY <2>1
  <2>6. QED
    BY <2>1, <2>2, <2>3, <2>4, <2>5, AnswerRefines
<1>4. ASSUME NEW c \in Callers, RunFails(c) \/ HangUp(c) PROVE Contract!Answer(c)
  <2>1. pc[c] \notin {"idle", "done"} /\ pc' = [pc EXCEPT ![c] = "done"]
        /\ UNCHANGED <<now, version, endedAt, key, floor>> /\ reply' = reply
    BY <1>4 DEF RunFails, HangUp
  <2>2. reply' = [reply EXCEPT ![c] = 0] /\ 0 \in Values
    BY <2>1 DEF Inv, TypeOK, Timed, Values
  <2>3. QED
    BY <2>1, <2>2, AnswerRefines
<1>5. ASSUME NEW c \in Callers, Miss(c) \/ Read(c) PROVE UNCHANGED Contract!vars
  <2>1. [d \in Callers |-> View(d)]' = [d \in Callers |-> View(d)]
    BY <1>5 DEF View, Miss, Read, Inv, TypeOK
  <2>2. QED
    BY <1>5, <2>1 DEF Contract!vars, View, Miss, Read
<1>6. CASE Change
  BY <1>6 DEF Change, Contract!Change, Contract!Next
<1>7. CASE Tick
  BY <1>7 DEF Tick, Contract!Tick, Contract!Next
<1>8. CASE UNCHANGED vars
  BY <1>8 DEF vars, Contract!vars
<1>9. QED
  BY <1>1, <1>2, <1>3, <1>4, <1>5, <1>6, <1>7, <1>8 DEF Next, Proceed, Contract!Next

\* Every behaviour of a cached function is one its contract allows.
THEOREM Refinement == Spec => KeepsContract
  BY InitRefines, StepRefines, Invariance, PTL DEF Spec, KeepsContract, Contract!Spec
=============================================================================

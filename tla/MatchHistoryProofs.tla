------------------------ MODULE MatchHistoryProofs ------------------------
(***************************************************************************)
(* No answer loses a match an earlier one showed, duplicates need calls    *)
(* that overlap, a fetch ends within its page limit, and a forced answer   *)
(* has all that was played a lifespan of the cache before it, for any      *)
(* number of calls and matches.                                            *)
(***************************************************************************)
EXTENDS MatchHistory, FiniteSetTheorems, WellFoundedInduction, TLAPS

\* Past the read of the stored history.
HasRead == {"limit", "lock", "page", "insert", "ok"}

\* What was shown before a call began is in what it read, and what it read or
\* answered is stored, all but for failed inserts.
ShownIsStored ==
    \A q \in Requests :
        /\ stored[q] \subseteq StoredMatches
        /\ answer[q] \ lost \subseteq StoredMatches
        /\ pc[q] \in HasRead => shown[q] \ lost \subseteq stored[q]
        /\ pc[q] = "ok" => stored[q] \subseteq answer[q]

PagesLeft ==
    \A q \in Requests :
        /\ pages[q] <= MaxRefetch + 1
        /\ pc[q] = "page" => pages[q] <= MaxRefetch
        /\ pc[q] \in {"idle", "limit", "lock"} => pages[q] = 0

\* Calls that run at once have met, and the first call to insert a match has met
\* every running call that does not know the match.
FirstInsertMet ==
    /\ \A q, r \in Running : q # r => {q, r} \in met
    /\ \A m \in Matches : rows[m] > 0 =>
          \E q \in Requests :
              /\ pc[q] = "ok" /\ m \in Missing(q)
              /\ \A r \in Running : m \notin stored[r] => {q, r} \in met

\* What a page holds.
LEMMA PageParsed == ASSUME TypeOK, NEW c \in Cursors
                    PROVE  Parsed(PageAt(c)) \subseteq Matches /\ NextCursors(c) \subseteq Cursors
  BY ConstantsAssumption DEF TypeOK, Parsed, PageAt, Newest, From, NextCursors, HonestCursors, Cursors

\* The types hold at the start.
LEMMA InitTypeOK == Init => TypeOK
  BY ConstantsAssumption
  DEF Init, TypeOK, NoEntry, Cursors, PcState, FetchKinds, Kind, Running, Ended

\* Every step of a call keeps the types.
LEMMA StepTypeOK == ASSUME TypeOK, NEW q \in Requests, Step(q) PROVE TypeOK'
<1> USE ConstantsAssumption DEF TypeOK, PcState, Running, Ended, Goto, Answer, Fail, fetch, history
<1>1. CASE Begin(q)
  <2>1. UNION {answer[r] : r \in Requests} \subseteq Matches /\ StoredMatches \subseteq Matches
    BY DEF StoredMatches
  <2>2. met' \subseteq SUBSET Requests
    <3>1. met' = met \cup {{q, r} : r \in Running}
      BY <1>1 DEF Begin
    <3>2. {{q, r} : r \in Running} \subseteq SUBSET Requests /\ met \subseteq SUBSET Requests
      OBVIOUS
    <3>3. QED
      BY <3>1, <3>2
  <2>3. /\ pc' \in [Requests -> PcState]
        /\ stored' \in [Requests -> SUBSET Matches]
        /\ answer' \in [Requests -> SUBSET Matches]
    <3>1. stored' = stored \/ stored' = [stored EXCEPT ![q] = StoredMatches]
      BY <1>1 DEF Begin
    <3>2. answer' = answer \/ answer' = [answer EXCEPT ![q] = StoredMatches]
      BY <1>1 DEF Begin
    <3>3. \E label \in {"limit", "ok", "failed"} : pc' = [pc EXCEPT ![q] = label]
      BY <1>1 DEF Begin
    <3>4. QED
      BY <2>1, <3>1, <3>2, <3>3
  <2>4. askedAt' \in [Requests -> Nat] /\ shown' \in [Requests -> SUBSET Matches]
    BY <1>1, <2>1 DEF Begin
  <2>5. \A r \in Running' : kind'[r] \in FetchKinds
    <3>1. kind' = kind /\ q \in Requests
      BY <1>1 DEF Begin
    <3>2. \A r \in Requests : r # q => pc'[r] = pc[r]
      BY <1>1 DEF Begin
    <3>3. q \in Running' => kind[q] \in FetchKinds
      BY <1>1 DEF Begin, FetchKinds, Kind
    <3>4. QED
      BY <3>1, <3>2, <3>3
  <2>6. QED
    BY <1>1, <2>2, <2>3, <2>4, <2>5 DEF Begin
<1>2. CASE Limit(q)
  BY <1>2 DEF Limit
<1>3. CASE CacheHit(q)
  BY <1>3 DEF CacheHit, EntryOf
<1>4. CASE CacheMiss(q)
  BY <1>4 DEF CacheMiss
<1>5. CASE FetchPage(q)
  <2>1. PICK next \in NextCursors(cursor[q]) :
           LET list == Parsed(PageAt(cursor[q]))
               all  == fetched[q] \cup list
           IN  /\ fetched' = [fetched EXCEPT ![q] = all]
               /\ IF LastPage(q, list, next)
                  THEN /\ cache' = [cache EXCEPT ![kind[q]] = [at |-> now, list |-> all]]
                       /\ lock' = [lock EXCEPT ![kind[q]] = Nobody]
                       /\ steamOk' = steamOk \cup {q}
                       /\ Goto(q, "insert")
                       /\ UNCHANGED cursor
                  ELSE /\ cursor' = [cursor EXCEPT ![q] = next]
                       /\ UNCHANGED <<cache, lock, steamOk, pc>>
    BY <1>5 DEF FetchPage
  <2>2. Parsed(PageAt(cursor[q])) \subseteq Matches /\ next \in Cursors
    BY PageParsed
  <2>3. fetched' \in [Requests -> SUBSET Matches] /\ cursor' \in [Requests -> Cursors]
    <3>1. fetched[q] \cup Parsed(PageAt(cursor[q])) \subseteq Matches
      BY <2>2
    <3>2. fetched' = [fetched EXCEPT ![q] = fetched[q] \cup Parsed(PageAt(cursor[q]))]
      BY <2>1
    <3>3. cursor' = cursor \/ cursor' = [cursor EXCEPT ![q] = next]
      BY <2>1
    <3>4. QED
      BY <2>2, <3>1, <3>2, <3>3
  <2>4. cache' \in [FetchKinds -> [at : Nat, list : SUBSET Matches]]
    <3>1. fetched[q] \cup Parsed(PageAt(cursor[q])) \subseteq Matches
      BY <2>2
    <3>2. [at |-> now, list |-> fetched[q] \cup Parsed(PageAt(cursor[q]))]
             \in [at : Nat, list : SUBSET Matches]
      BY <3>1
    <3>3. \/ cache' = cache
          \/ cache' = [cache EXCEPT ![kind[q]] =
                          [at |-> now, list |-> fetched[q] \cup Parsed(PageAt(cursor[q]))]]
      BY <2>1
    <3>4. QED
      BY <3>2, <3>3
  <2>5. /\ lock' \in [FetchKinds -> Requests \cup {Nobody}]
        /\ pc' \in [Requests -> PcState]
        /\ steamOk' \subseteq Requests
    <3>1. lock' = lock \/ lock' = [lock EXCEPT ![kind[q]] = Nobody]
      BY <2>1
    <3>2. pc' = pc \/ pc' = [pc EXCEPT ![q] = "insert"]
      BY <2>1
    <3>3. steamOk' = steamOk \/ steamOk' = steamOk \cup {q}
      BY <2>1
    <3>4. QED
      BY <3>1, <3>2, <3>3
  <2>6. pages' \in [Requests -> Nat] /\ \A r \in Running' : kind'[r] \in FetchKinds
    <3>1. pages' = [pages EXCEPT ![q] = @ + 1] /\ kind' = kind /\ pc[q] = "page"
      BY <1>5 DEF FetchPage
    <3>2. pc' = pc \/ pc' = [pc EXCEPT ![q] = "insert"]
      BY <2>1
    <3>3. QED
      <4>1. pages' \in [Requests -> Nat]
        BY <3>1
      <4>2. Running' \subseteq Running
        BY <3>1, <3>2
      <4>3. QED
        BY <3>1, <4>1, <4>2
  <2>7. QED
    BY <1>5, <2>3, <2>4, <2>5, <2>6 DEF FetchPage
<1>6. CASE PageFails(q)
  BY <1>6 DEF PageFails
<1>7. CASE InsertMissing(q)
  <2>1. rows' \in [Matches -> Nat]
    BY <1>7 DEF InsertMissing
  <2>2. QED
    BY <1>7, <2>1 DEF InsertMissing, Combined
<1>8. CASE InsertFails(q)
  BY <1>8 DEF InsertFails, Combined, Missing
<1>9. CASE HangUp(q)
  BY <1>9 DEF HangUp
<1>10. QED
  BY <1>1, <1>2, <1>3, <1>4, <1>5, <1>6, <1>7, <1>8, <1>9 DEF Step, Proceed

\* Every step keeps the types.
LEMMA NextTypeOK == TypeOK /\ [Next]_vars => TypeOK'
<1> SUFFICES ASSUME TypeOK, [Next]_vars PROVE TypeOK'
  OBVIOUS
<1>1. CASE \E q \in Requests : Step(q)
  BY <1>1, StepTypeOK
<1>2. CASE \E m \in Matches : PlayMatch(m)
  BY <1>2 DEF TypeOK, PlayMatch, Running, fetch
<1>3. CASE Tick
  BY <1>3 DEF TypeOK, Tick, Running, fetch, history
<1>4. CASE UNCHANGED vars
  BY <1>4 DEF TypeOK, vars, Running, fetch, history
<1>5. QED
  BY <1>1, <1>2, <1>3, <1>4 DEF Next

\* Every state of a match history has its types.
THEOREM TypeCorrect == Spec => []TypeOK
  BY InitTypeOK, NextTypeOK, PTL DEF Spec

----------------------------------------------------------------------------
\* A row, once stored, stays.
LEMMA StoredGrows == ASSUME TypeOK, [Next]_vars PROVE StoredMatches \subseteq StoredMatches'
<1>1. \A m \in Matches : rows[m] > 0 => rows'[m] > 0
  <2>1. ASSUME NEW q \in Requests, InsertMissing(q)
        PROVE  \A m \in Matches : rows[m] > 0 => rows'[m] > 0
    BY <2>1 DEF InsertMissing, TypeOK
  <2>2. (\A q \in Requests : ~InsertMissing(q)) => rows' = rows
    BY DEF Next, vars, Step, Proceed, Begin, Limit, CacheHit, CacheMiss, FetchPage, PageFails,
       InsertFails, HangUp, PlayMatch, Tick
  <2>3. QED
    BY <2>1, <2>2
<1>2. QED
  BY <1>1 DEF StoredMatches

\* A step of a call hides nothing that was shown, but for inserts that fail.
LEMMA StepShown == ASSUME TypeOK, ShownIsStored, NEW q \in Requests, Step(q) PROVE ShownIsStored'
<1> USE DEF TypeOK, ShownIsStored, HasRead, Goto, Answer, Fail, fetch, history
<1>0. StoredMatches \subseteq StoredMatches'
  BY StoredGrows DEF Next
<1>1. CASE Begin(q)
  <2>1. lost' = lost /\ StoredMatches' = StoredMatches
    BY <1>1 DEF Begin, StoredMatches
  <2>2. ASSUME NEW m, m \in UNION {answer[r] : r \in Requests}, m \notin lost
        PROVE  m \in StoredMatches
    <3>1. PICK list \in {answer[r] : r \in Requests} : m \in list
      BY <2>2
    <3>2. PICK r \in Requests : list = answer[r]
      BY <3>1
    <3>3. answer[r] \ lost \subseteq StoredMatches
      OBVIOUS
    <3>4. QED
      BY <2>2, <3>1, <3>2, <3>3
  <2>3. shown'[q] \ lost \subseteq StoredMatches /\ stored'[q] \in {StoredMatches, stored[q]}
    BY <1>1, <2>2 DEF Begin
  <2>4. \A r \in Requests \ {q} : /\ shown'[r] = shown[r] /\ stored'[r] = stored[r]
                                  /\ answer'[r] = answer[r] /\ pc'[r] = pc[r]
    BY <1>1 DEF Begin
  <2>5. /\ pc'[q] \in {"limit", "ok"} => stored'[q] = StoredMatches
        /\ pc'[q] = "ok" => answer'[q] = StoredMatches
        /\ pc'[q] \in {"limit", "ok", "failed"}
        /\ answer'[q] \in {answer[q], StoredMatches}
    BY <1>1 DEF Begin
  <2>6. QED
    BY <2>1, <2>3, <2>4, <2>5
<1>2. CASE Limit(q)
  BY <1>0, <1>2 DEF Limit
<1>3. CASE CacheHit(q)
  BY <1>0, <1>3 DEF CacheHit
<1>4. CASE CacheMiss(q)
  BY <1>0, <1>4 DEF CacheMiss
<1>5. CASE FetchPage(q)
  BY <1>0, <1>5 DEF FetchPage
<1>6. CASE PageFails(q)
  BY <1>0, <1>6 DEF PageFails
<1>7. CASE InsertMissing(q)
  <2>1. Missing(q) \subseteq StoredMatches'
    BY <1>7 DEF InsertMissing, StoredMatches, Missing
  <2>2. QED
    BY <1>0, <1>7, <2>1 DEF InsertMissing, Missing, Combined
<1>8. CASE InsertFails(q)
  BY <1>0, <1>8 DEF InsertFails, Missing, Combined
<1>9. CASE HangUp(q)
  BY <1>0, <1>9 DEF HangUp
<1>10. QED
  BY <1>1, <1>2, <1>3, <1>4, <1>5, <1>6, <1>7, <1>8, <1>9 DEF Step, Proceed

\* What has been shown stays stored or shown, whatever the other calls do.
LEMMA NextShown == TypeOK /\ ShownIsStored /\ [Next]_vars => ShownIsStored'
<1> SUFFICES ASSUME TypeOK, ShownIsStored, [Next]_vars PROVE ShownIsStored'
  OBVIOUS
<1>1. CASE \E q \in Requests : Step(q)
  BY <1>1, StepShown
<1>2. CASE (\E m \in Matches : PlayMatch(m)) \/ Tick \/ UNCHANGED vars
  BY <1>2 DEF PlayMatch, Tick, vars, history, ShownIsStored, StoredMatches
<1>3. QED
  BY <1>1, <1>2 DEF Next

\* No answer loses a match an earlier answer showed, except for failed inserts.
THEOREM NeverShrinks == Spec => []AnswersNeverShrink
<1>1. Init => ShownIsStored
  BY DEF Init, ShownIsStored, HasRead, StoredMatches
<1>2. ShownIsStored => AnswersNeverShrink
  BY DEF ShownIsStored, AnswersNeverShrink, HasRead
<1>3. QED
  BY <1>1, <1>2, InitTypeOK, NextTypeOK, NextShown, PTL DEF Spec

----------------------------------------------------------------------------
\* A fetch never turns more pages than it may.
LEMMA NextPages == TypeOK /\ PagesLeft /\ [Next]_vars => PagesLeft'
<1> SUFFICES ASSUME TypeOK, PagesLeft, [Next]_vars PROVE PagesLeft'
  OBVIOUS
<1> USE ConstantsAssumption DEF TypeOK, PagesLeft, Goto, Answer, Fail, fetch
<1>1. CASE \E q \in Requests : Step(q)
  <2> PICK q \in Requests : Step(q)
    BY <1>1
  <2>1. CASE FetchPage(q)
    BY <2>1 DEF FetchPage, LastPage
  <2>2. CASE Begin(q) \/ Limit(q) \/ CacheHit(q) \/ CacheMiss(q)
    BY <2>2 DEF Begin, Limit, CacheHit, CacheMiss
  <2>3. CASE PageFails(q) \/ InsertMissing(q) \/ InsertFails(q) \/ HangUp(q)
    BY <2>3 DEF PageFails, InsertMissing, InsertFails, HangUp
  <2>4. QED
    BY <2>1, <2>2, <2>3 DEF Step, Proceed
<1>2. CASE (\E m \in Matches : PlayMatch(m)) \/ Tick \/ UNCHANGED vars
  BY <1>2 DEF PlayMatch, Tick, vars
<1>3. QED
  BY <1>1, <1>2 DEF Next

\* A fetch asks Steam for at most one page more than the constant says.
THEOREM PagesWithinBound == Spec => []PagesBounded
<1>1. Init => PagesLeft
  BY ConstantsAssumption DEF Init, PagesLeft
<1>2. PagesLeft => PagesBounded
  BY DEF PagesLeft, PagesBounded
<1>3. QED
  BY <1>1, <1>2, InitTypeOK, NextTypeOK, NextPages, PTL DEF Spec

----------------------------------------------------------------------------
\* What every step does that neither begins a call nor inserts.
Moves ==
    /\ rows' = rows /\ met' = met /\ stored' = stored
    /\ Running' \subseteq Running
    /\ \A r \in Requests : pc[r] = "ok" => pc'[r] = "ok" /\ fetched'[r] = fetched[r]

\* Time and new matches change nothing a call has read or met.
LEMMA MovesKeep == ASSUME FirstInsertMet, DuplicatesNeedOverlap, Moves
                   PROVE  FirstInsertMet' /\ DuplicatesNeedOverlap'
<1>1. \A r \in Requests : pc[r] = "ok" => Missing(r)' = Missing(r)
  BY DEF Moves, Missing
<1>2. FirstInsertMet'
  BY <1>1 DEF Moves, FirstInsertMet
<1>3. DuplicatesNeedOverlap'
  BY <1>1 DEF Moves, DuplicatesNeedOverlap
<1>4. QED
  BY <1>2, <1>3

\* A call that begins reads what is inserted, and meets those that run.
LEMMA BeginMet == ASSUME TypeOK, FirstInsertMet, DuplicatesNeedOverlap, NEW q \in Requests, Begin(q)
                  PROVE  FirstInsertMet' /\ DuplicatesNeedOverlap'
<1>1. rows' = rows /\ fetched' = fetched /\ met \subseteq met'
      /\ \A r \in Running : {q, r} \in met' /\ {r, q} \in met'
  BY DEF Begin, fetch
<1>2. \A r \in Requests \ {q} : pc'[r] = pc[r] /\ stored'[r] = stored[r]
  BY DEF Begin, Fail, Answer, Goto, TypeOK
<1>3. pc[q] = "idle" /\ pc'[q] \in {"limit", "ok", "failed"}
  BY DEF Begin, Fail, Answer, Goto, TypeOK
<1>4. pc'[q] = "limit" => stored'[q] = StoredMatches
  BY DEF Begin, Fail, Answer, Goto, TypeOK
<1>5. \A r \in Requests : pc[r] = "ok" => pc'[r] = "ok" /\ r # q /\ Missing(r)' = Missing(r)
  BY <1>1, <1>2, <1>3 DEF Missing
<1>6. \A r, s \in Running' : r # s => {r, s} \in met'
  BY <1>1, <1>2 DEF FirstInsertMet, Running
<1>7. ASSUME NEW m \in Matches, rows'[m] > 0
      PROVE  \E r \in Requests :
                /\ pc'[r] = "ok" /\ m \in Missing(r)'
                /\ \A s \in Running' : m \notin stored'[s] => {r, s} \in met'
  <2>1. PICK r \in Requests :
            /\ pc[r] = "ok" /\ m \in Missing(r)
            /\ \A s \in Running : m \notin stored[s] => {r, s} \in met
    BY <1>1, <1>7 DEF FirstInsertMet
  <2>2. q \in Running' => m \in stored'[q]
    BY <1>1, <1>3, <1>4, <1>7 DEF StoredMatches, Running, Ended
  <2>3. \A s \in Running' : s # q => s \in Running
    BY <1>2 DEF Running
  <2>4. QED
    BY <1>1, <1>2, <1>5, <2>1, <2>2, <2>3 DEF Running
<1>8. DuplicatesNeedOverlap'
  BY <1>1, <1>5 DEF DuplicatesNeedOverlap
<1>9. QED
  BY <1>6, <1>7, <1>8 DEF FirstInsertMet

\* A call that inserts has met all that run.
LEMMA InsertMet == ASSUME TypeOK, FirstInsertMet, DuplicatesNeedOverlap, NEW q \in Requests, InsertMissing(q)
                   PROVE  FirstInsertMet' /\ DuplicatesNeedOverlap'
<1>1. met' = met /\ stored' = stored /\ fetched' = fetched
  BY DEF InsertMissing, fetch, history
<1>2. pc'[q] = "ok" /\ q \in Running /\ \A r \in Requests \ {q} : pc'[r] = pc[r]
  BY DEF InsertMissing, Answer, Goto, TypeOK, Running, Ended
<1>3. Running' \subseteq Running \ {q}
  BY <1>2 DEF Running, Ended
<1>4. \A r \in Requests : Missing(r)' = Missing(r)
  BY <1>1 DEF Missing
<1>5. \A m \in Matches : rows'[m] = IF m \in Missing(q) THEN rows[m] + 1 ELSE rows[m]
  BY DEF InsertMissing
<1>6. \A m \in Matches : rows[m] \in Nat
  BY DEF TypeOK
<1>7. ASSUME NEW m \in Matches, rows'[m] > 0
      PROVE  \E r \in Requests :
                /\ pc'[r] = "ok" /\ m \in Missing(r)'
                /\ \A s \in Running' : m \notin stored'[s] => {r, s} \in met'
  <2>1. CASE rows[m] > 0
    BY <1>1, <1>2, <1>3, <1>4, <2>1 DEF FirstInsertMet
  <2>2. CASE rows[m] = 0
    <3>1. m \in Missing(q)
      BY <1>5, <1>7, <2>2
    <3>2. \A s \in Running' : {q, s} \in met'
      BY <1>1, <1>2, <1>3 DEF FirstInsertMet
    <3>3. QED
      BY <1>2, <1>4, <3>1, <3>2
  <2>3. QED
    BY <1>6, <2>1, <2>2
<1>8. ASSUME NEW m \in Matches, rows'[m] > 1
      PROVE  \E r, s \in Requests :
                /\ r # s /\ pc'[r] = "ok" /\ pc'[s] = "ok"
                /\ {r, s} \in met' /\ m \in Missing(r)' \cap Missing(s)'
  <2>1. CASE rows[m] > 1
    <3>1. PICK r, s \in Requests :
              /\ r # s /\ pc[r] = "ok" /\ pc[s] = "ok"
              /\ {r, s} \in met /\ m \in Missing(r) \cap Missing(s)
      BY <2>1 DEF DuplicatesNeedOverlap
    <3>2. QED
      BY <1>1, <1>2, <1>4, <3>1
  <2>2. CASE ~(rows[m] > 1)
    <3>1. m \in Missing(q) /\ rows[m] > 0
      BY <1>5, <1>6, <1>8, <2>2
    <3>2. PICK r \in Requests :
              /\ pc[r] = "ok" /\ m \in Missing(r)
              /\ \A s \in Running : m \notin stored[s] => {r, s} \in met
      BY <3>1 DEF FirstInsertMet
    <3>3. r # q /\ pc'[r] = "ok" /\ {r, q} \in met'
      BY <1>1, <1>2, <3>1, <3>2 DEF Missing, Running, Ended
    <3>4. QED
      BY <1>2, <1>4, <3>1, <3>2, <3>3
  <2>3. QED
    BY <2>1, <2>2
<1>9. \A r, s \in Running' : r # s => {r, s} \in met'
  BY <1>1, <1>3 DEF FirstInsertMet
<1>10. QED
  BY <1>7, <1>8, <1>9 DEF FirstInsertMet, DuplicatesNeedOverlap

\* The first to insert a match has met every running call that does not know it,
\* whatever step follows.
LEMMA NextMet ==
  TypeOK /\ FirstInsertMet /\ DuplicatesNeedOverlap /\ [Next]_vars
     => FirstInsertMet' /\ DuplicatesNeedOverlap'
<1> SUFFICES ASSUME TypeOK, FirstInsertMet, DuplicatesNeedOverlap, [Next]_vars
             PROVE  FirstInsertMet' /\ DuplicatesNeedOverlap'
  OBVIOUS
<1>1. CASE \E q \in Requests : Step(q)
  <2> PICK q \in Requests : Step(q)
    BY <1>1
  <2> USE DEF Moves, TypeOK, Running, Ended, Goto, Answer, Fail, fetch, history
  <2>1. CASE Limit(q) \/ CacheHit(q) \/ CacheMiss(q)
    <3>1. Moves
      BY <2>1 DEF Limit, CacheHit, CacheMiss
    <3>2. QED
      BY <3>1, MovesKeep
  <2>2. CASE FetchPage(q)
    <3>1. /\ rows' = rows /\ met' = met /\ stored' = stored /\ pc[q] = "page"
          /\ pc' = pc \/ pc' = [pc EXCEPT ![q] = "insert"]
          /\ \A r \in Requests \ {q} : fetched'[r] = fetched[r]
      BY <2>2 DEF FetchPage
    <3>2. Moves
      BY <3>1
    <3>3. QED
      BY <3>2, MovesKeep
  <2>3. CASE PageFails(q) \/ InsertFails(q) \/ HangUp(q)
    <3>1. Moves
      BY <2>3 DEF PageFails, InsertFails, HangUp
    <3>2. QED
      BY <3>1, MovesKeep
  <2>4. QED
    BY <2>1, <2>2, <2>3, BeginMet, InsertMet DEF Step, Proceed
<1>2. CASE (\E m \in Matches : PlayMatch(m)) \/ Tick \/ UNCHANGED vars
  <2>1. Moves
    BY <1>2 DEF Moves, PlayMatch, Tick, vars, fetch, history, Running
  <2>2. QED
    BY <2>1, MovesKeep
<1>3. QED
  BY <1>1, <1>2 DEF Next

\* Two rows of one match come from two calls that ran at the same time.
THEOREM DuplicatesOverlap == Spec => []DuplicatesNeedOverlap
<1>1. Init => FirstInsertMet /\ DuplicatesNeedOverlap
  BY DEF Init, FirstInsertMet, DuplicatesNeedOverlap, Running
<1>2. QED
  BY <1>1, InitTypeOK, NextTypeOK, NextMet, PTL DEF Spec
----------------------------------------------------------------------------
\* A forced answer is complete

\* Steam's matches come in order, and no call began in the future.
SteamInOrder ==
    /\ IsFiniteSet(steam)
    /\ \A m \in steam : \A x \in Matches : x < m => x \in steam
    /\ now # 0
    /\ \A q \in Requests : askedAt[q] <= now

\* The matches of the player that were there when r began.
Old(r) == {m \in Parsed(steam) : playedAt[m] < askedAt[r]}
Above(c) == {m \in steam : m >= c}

\* A call that filled the cache, and one whose fetch succeeded, is past its fetch.
PastFetch ==
    \A q \in Requests :
        filledAt[q] # 0 \/ q \in steamOk => pc[q] \in {"insert", "ok", "failed"}

\* Page by page, a forced fetch has what was there above its cursor, and the pages
\* so far were full.
Followed(q) ==
    /\ cursor[q] \in steam
    /\ Old(q) \cap Above(cursor[q]) \subseteq fetched[q]
    /\ Cardinality(Above(cursor[q])) >= pages[q] * PageSize

PagesFollowed ==
    \A q \in Requests :
        /\ pc[q] \in {"idle", "limit", "lock"} => cursor[q] = 0 /\ pages[q] = 0
        /\ pc[q] = "page" /\ cursor[q] = 0 => pages[q] = 0
        /\ pc[q] = "page" /\ cursor[q] # 0 /\ kind[q] = "force" /\ ~astray => Followed(q)

\* A list that has what was there when the forced call r began.
Complete(list, r) == kind[r] = "force" /\ Old(r) \subseteq list

CacheComplete ==
    PagesCover /\ ~astray /\ cache["force"].at # 0 =>
        \E r \in Requests :
            filledAt[r] = cache["force"].at /\ Complete(cache["force"].list, r)

FetchComplete ==
    \A q \in steamOk : PagesCover /\ ~astray /\ kind[q] = "force" =>
        \E r \in Requests :
            /\ filledAt[r] # 0 /\ askedAt[q] < filledAt[r] + CacheTtl
            /\ pc[q] = "insert" => Complete(fetched[q], r)
            /\ pc[q] = "ok" => Complete(answer[q], r)

Refetching == SteamInOrder /\ PastFetch /\ PagesFollowed /\ CacheComplete /\ FetchComplete

\* A set of numbers that is not empty has a least one.
LEMMA LeastNat == ASSUME NEW T \in SUBSET Nat, T # {} PROVE \E x \in T : \A y \in T : x <= y
<1> DEFINE R == OpToRel(<, Nat)
<1>1. IsWellFoundedOn(R, Nat)
  BY NatLessThanWellFounded
<1>2. R = {ss \in Nat \X Nat : ss[1] < ss[2]}
  BY DEF OpToRel
<1> HIDE DEF R
<1>3. PICK x \in T : \A y \in T : ~(<<y, x>> \in R)
  BY <1>1, WFMin
<1>4. ASSUME NEW y \in T, y < x PROVE FALSE
  <2>1. <<y, x>> \in Nat \X Nat /\ <<y, x>>[1] = y /\ <<y, x>>[2] = x
    OBVIOUS
  <2>2. <<y, x>> \in R
    BY <1>2, <1>4, <2>1
  <2>3. QED
    BY <1>3, <2>2
<1>5. QED
  BY <1>4

\* A finite set of numbers that is not empty has a greatest one: the one that has the
\* fewest above it.
LEMMA GreatestNat ==
    ASSUME NEW S \in SUBSET Nat, IsFiniteSet(S), S # {}
    PROVE  \E x \in S : \A y \in S : y <= x
<1> DEFINE Higher(x) == {y \in S : y > x}
           T == {Cardinality(Higher(x)) : x \in S}
<1>1. \A x \in S : IsFiniteSet(Higher(x)) /\ Cardinality(Higher(x)) \in Nat
  BY FS_Subset, FS_CardinalityType
<1>2. PICK n \in T : \A k \in T : n <= k
  <2>1. T \in SUBSET Nat /\ T # {}
    BY <1>1
  <2>2. QED
    BY <2>1, LeastNat
<1>3. PICK x \in S : n = Cardinality(Higher(x))
  OBVIOUS
<1>4. ASSUME NEW y \in S, y > x PROVE FALSE
  <2>1. Higher(y) \in SUBSET Higher(x) /\ y \in Higher(x) /\ y \notin Higher(y)
    <3>1. ASSUME NEW z \in Higher(y) PROVE z \in Higher(x)
      <4>1. x \in Nat /\ y \in Nat /\ z \in Nat /\ z \in S /\ z > y
        OBVIOUS
      <4>2. z > x
        BY <1>4, <4>1
      <4>3. QED
        BY <4>1, <4>2
    <3>2. y \in Higher(x) /\ y \in Nat
      BY <1>4
    <3>3. y \notin Higher(y)
      BY <3>2
    <3>4. QED
      BY <3>1, <3>2, <3>3
  <2>2. /\ Cardinality(Higher(y)) <= Cardinality(Higher(x))
        /\ Cardinality(Higher(x)) = Cardinality(Higher(y)) => Higher(x) = Higher(y)
    BY <1>1, <2>1, FS_Subset
  <2>3. Cardinality(Higher(x)) <= Cardinality(Higher(y))
    BY <1>2, <1>3
  <2> HIDE DEF Higher, T
  <2>4. QED
    BY <1>1, <2>1, <2>2, <2>3
<1>5. QED
  BY <1>4

\* A page holds whatever is above one of its matches.
LEMMA NewestUpward ==
    ASSUME NEW L \in SUBSET Nat, IsFiniteSet(L), NEW n \in Nat,
           NEW p \in Newest(L, n), NEW m \in L, m >= p
    PROVE  m \in Newest(L, n)
<1> DEFINE M == {x \in L : x > m}
           P == {x \in L : x > p}
<1>1. P \in SUBSET L /\ M \in SUBSET P /\ p \in L /\ Cardinality(P) < n
  <2>1. p \in L /\ Cardinality(P) < n
    BY DEF Newest
  <2>2. ASSUME NEW x \in M PROVE x \in P
    <3>1. p \in Nat /\ m \in Nat /\ x \in Nat /\ x \in L /\ x > m /\ m >= p
      BY <2>1
    <3>2. x > p
      BY <3>1
    <3>3. QED
      BY <3>1, <3>2
  <2>3. P \in SUBSET L /\ M \in SUBSET P
    BY <2>2
  <2>4. QED
    BY <2>1, <2>3
<1>2. IsFiniteSet(P) /\ IsFiniteSet(M) /\ Cardinality(M) <= Cardinality(P)
  BY <1>1, FS_Subset
<1>3. Cardinality(P) \in Nat /\ Cardinality(M) \in Nat
  BY <1>2, FS_CardinalityType
<1>4. Cardinality(M) < n
  <2> HIDE DEF M, P
  <2>1. QED
    BY <1>1, <1>2, <1>3
<1>5. QED
  BY <1>4 DEF Newest

\* A page that is not all there is is full.
LEMMA NewestFull ==
    ASSUME NEW L \in SUBSET Nat, IsFiniteSet(L), NEW n \in Nat, Newest(L, n) # L
    PROVE  IsFiniteSet(Newest(L, n)) /\ Cardinality(Newest(L, n)) >= n
<1>1. Newest(L, n) \in SUBSET L
  BY DEF Newest
<1>2. PICK m \in L \ Newest(L, n) : \A y \in L \ Newest(L, n) : y <= m
  <2>1. L \ Newest(L, n) # {} /\ L \ Newest(L, n) \in SUBSET Nat /\ L \ Newest(L, n) \in SUBSET L
    BY <1>1
  <2>2. IsFiniteSet(L \ Newest(L, n))
    BY <2>1, FS_Subset
  <2>3. QED
    BY <2>1, <2>2, GreatestNat
<1> DEFINE M == {x \in L : x > m}
<1>3. M \in SUBSET Newest(L, n)
  <2>1. ASSUME NEW x \in M, x \notin Newest(L, n) PROVE FALSE
    <3>1. x \in Nat /\ m \in Nat /\ x > m /\ x <= m
      BY <1>2, <2>1
    <3>2. QED
      BY <3>1
  <2>2. QED
    BY <2>1
<1>4. IsFiniteSet(Newest(L, n)) /\ IsFiniteSet(M) /\ Cardinality(M) <= Cardinality(Newest(L, n))
  BY <1>1, <1>3, FS_Subset
<1>5. ~(Cardinality(M) < n)
  BY <1>2 DEF Newest
<1>6. Cardinality(M) \in Nat /\ Cardinality(Newest(L, n)) \in Nat
  BY <1>4, FS_CardinalityType
<1> HIDE DEF M
<1>7. QED
  BY <1>4, <1>5, <1>6

\* A product grows with its factor: pages times the page size.
LEMMA Times ==
    ASSUME NEW a \in Nat, NEW b \in Nat, NEW n \in Nat, a >= b
    PROVE  a * n \in Nat /\ a * n >= b * n /\ (a + 1) * n = a * n + n
<1>1. PICK d \in Nat : a = b + d
  <2>1. a - b \in Nat /\ a = b + (a - b)
    OBVIOUS
  <2>2. QED
    BY <2>1
<1>2. a * n = b * n + d * n /\ d * n \in Nat /\ b * n \in Nat
  BY <1>1
<1>3. QED
  BY <1>1, <1>2

\* The constants and the ids are numbers.
LEMMA Numbers ==
    /\ Matches \in SUBSET Nat /\ 0 \notin Matches /\ Cursors \in SUBSET Nat
    /\ PageSize \in Nat /\ MaxRefetch \in Nat /\ CacheTtl \in Nat /\ CacheTtl # 0
<1>1. Matches \in SUBSET Nat /\ 0 \notin Matches
  BY ConstantsAssumption
<1>2. PageSize \in Nat /\ MaxRefetch \in Nat /\ CacheTtl \in Nat /\ CacheTtl # 0
  BY ConstantsAssumption
<1>3. QED
  BY <1>1, <1>2 DEF Cursors

\* What a page of an honest Steam leaves to do: nothing after the last, and after
\* another the matches below its cursor.
LEMMA PageFollowed ==
    ASSUME TypeOK, SteamInOrder, PagesFollowed, NEW q \in Requests,
           pc[q] = "page", kind[q] = "force", ~astray,
           NEW next \in HonestCursors(cursor[q])
    PROVE  /\ From(cursor[q]) = PageAt(cursor[q]) =>
                next = 0 /\ Old(q) \subseteq fetched[q] \cup Parsed(PageAt(cursor[q]))
           /\ From(cursor[q]) # PageAt(cursor[q]) =>
                /\ next \in steam /\ next # 0
                /\ cursor[q] # 0 => next < cursor[q]
                /\ \A y \in From(cursor[q]) \ PageAt(cursor[q]) : y < next
                /\ Old(q) \cap Above(next) \subseteq fetched[q] \cup Parsed(PageAt(cursor[q]))
                /\ Cardinality(Above(next)) >= (pages[q] + 1) * PageSize
<1> DEFINE c == cursor[q]
           F == From(c)
           P == PageAt(c)
           B == IF c = 0 THEN {} ELSE Above(c)
<1>0. steam \in SUBSET Nat /\ 0 \notin steam /\ IsFiniteSet(steam) /\ PageSize \in Nat /\ c \in Nat
      /\ pages[q] \in Nat
  BY Numbers DEF TypeOK, SteamInOrder
<1>1. F \in SUBSET steam /\ IsFiniteSet(F) /\ F \in SUBSET Nat /\ P \in SUBSET F
  <2>1. F \in SUBSET steam /\ P \in SUBSET F
    BY DEF From, PageAt, Newest
  <2>2. QED
    BY <1>0, <2>1, FS_Subset
<1>2. \A m \in Old(q) : m \in F \/ m \in fetched[q]
  <2>1. ASSUME NEW m \in Old(q), m \notin F PROVE m \in fetched[q]
    <3>1. m \in steam /\ m \in Nat
      BY <1>0 DEF Old, Parsed
    <3>2. c # 0 /\ m >= c
      BY <1>0, <2>1, <3>1 DEF From
    <3>3. QED
      BY <2>1, <3>1, <3>2 DEF PagesFollowed, Followed, Above
  <2>2. QED
    BY <2>1
<1>3. CASE F = P
  <2>1. next = 0
    BY <1>3 DEF HonestCursors
  <2>2. \A m \in Old(q) : m \notin Unparsable
    BY DEF Old, Parsed
  <2>3. Old(q) \subseteq fetched[q] \cup Parsed(P)
    BY <1>2, <1>3, <2>2 DEF Parsed
  <2>4. QED
    BY <1>3, <2>1, <2>3
<1>4. CASE F # P
  <2>1. next \in P /\ \A x \in P : next <= x
    BY <1>4 DEF HonestCursors
  <2>2. next \in steam /\ next # 0 /\ next \in Nat
    BY <1>0, <1>1, <2>1
  <2>3. c # 0 => \A x \in P : x < c
    BY <1>1 DEF From
  <2>4. \A m \in F : m >= next => m \in P
    BY <1>0, <1>1, <2>1, NewestUpward DEF PageAt
  <2>5. \A y \in F \ P : y < next
    BY <1>1, <2>2, <2>4
  <2>6. Old(q) \cap Above(next) \subseteq fetched[q] \cup Parsed(P)
    <3>1. ASSUME NEW m \in Old(q), m >= next, m \in F PROVE m \in Parsed(P)
      BY <2>4, <3>1 DEF Old, Parsed
    <3>2. QED
      BY <1>2, <3>1 DEF Above
  <2>7. Cardinality(Above(next)) >= (pages[q] + 1) * PageSize
    <3>1. IsFiniteSet(P) /\ Cardinality(P) >= PageSize
      BY <1>0, <1>1, <1>4, NewestFull DEF PageAt
    <3>2. B \in SUBSET steam /\ IsFiniteSet(B)
      <4>1. B \in SUBSET steam
        BY DEF Above
      <4>2. QED
        BY <1>0, <4>1, FS_Subset
    <3>3. Cardinality(B) >= pages[q] * PageSize
      <4>1. CASE c = 0
        <5>1. pages[q] = 0
          BY <4>1 DEF PagesFollowed
        <5>2. B = {} /\ Cardinality(B) = 0
          BY <4>1, FS_EmptySet
        <5>3. QED
          BY <1>0, <5>1, <5>2
      <4>2. CASE c # 0
        BY <4>2 DEF PagesFollowed, Followed
      <4>3. QED
        BY <4>1, <4>2
    <3>4. B \cap P = {}
      <4>1. ASSUME NEW x \in B, x \in P PROVE FALSE
        <5>1. c # 0 /\ x >= c /\ x < c /\ x \in Nat
          BY <1>0, <1>1, <2>3, <3>2, <4>1 DEF Above
        <5>2. QED
          BY <1>0, <5>1
      <4>2. QED
        BY <4>1
    <3>5. B \cup P \in SUBSET Above(next)
      <4>1. \A x \in P : x \in Above(next)
        BY <1>1, <2>1 DEF Above
      <4>2. ASSUME NEW x \in B PROVE x \in Above(next)
        <5>1. c # 0 /\ x \in steam /\ x >= c /\ next < c /\ x \in Nat
          BY <1>0, <2>1, <2>3, <4>2 DEF Above
        <5>2. QED
          BY <1>0, <2>2, <5>1 DEF Above
      <4>3. QED
        BY <4>1, <4>2
    <3>6. Above(next) \in SUBSET steam /\ IsFiniteSet(Above(next))
      <4>1. Above(next) \in SUBSET steam
        BY DEF Above
      <4>2. QED
        BY <1>0, <4>1, FS_Subset
    <3>7. /\ IsFiniteSet(B \cup P)
          /\ Cardinality(B \cup P) = Cardinality(B) + Cardinality(P) - Cardinality(B \cap P)
      BY <3>1, <3>2, FS_Union
    <3>8. Cardinality(B \cap P) = 0 /\ Cardinality(B \cup P) <= Cardinality(Above(next))
      BY <3>4, <3>5, <3>6, FS_EmptySet, FS_Subset
    <3>9. /\ Cardinality(B) \in Nat /\ Cardinality(P) \in Nat
          /\ Cardinality(B \cup P) \in Nat /\ Cardinality(Above(next)) \in Nat
      BY <3>1, <3>2, <3>6, <3>7, FS_CardinalityType
    <3>10. pages[q] * PageSize \in Nat /\ (pages[q] + 1) * PageSize = pages[q] * PageSize + PageSize
      BY <1>0, Times
    <3> HIDE DEF B, P, c, F
    <3>11. QED
      BY <1>0, <3>1, <3>3, <3>7, <3>8, <3>9, <3>10
  <2>8. QED
    BY <1>4, <2>1, <2>2, <2>3, <2>5, <2>6, <2>7
<1>5. QED
  BY <1>3, <1>4

\* Where the pages cover the history, the last page completes it.
LEMMA LastPageCompletes ==
    ASSUME TypeOK, SteamInOrder, PagesFollowed, PagesCover, NEW q \in Requests,
           pc[q] = "page", kind[q] = "force", ~astray,
           NEW next \in HonestCursors(cursor[q]),
           LastPage(q, Parsed(PageAt(cursor[q])), next)
    PROVE  Old(q) \subseteq fetched[q] \cup Parsed(PageAt(cursor[q]))
<1> DEFINE c == cursor[q]
           F == From(c)
           P == PageAt(c)
<1>0. /\ steam \in SUBSET Matches /\ Matches \subseteq Nat /\ IsFiniteSet(steam) /\ c \in Nat
      /\ pages[q] \in Nat /\ PageSize \in Nat /\ MaxRefetch \in Nat
  BY Numbers DEF TypeOK, SteamInOrder
<1>1. F \in SUBSET steam /\ IsFiniteSet(F) /\ F \in SUBSET Nat /\ P \in SUBSET F
  <2>1. F \in SUBSET steam /\ P \in SUBSET F
    BY DEF From, PageAt, Newest
  <2>2. QED
    BY <1>0, <2>1, FS_Subset
<1>2. CASE F = P
  BY <1>2, PageFollowed
<1>3. CASE F # P
  <2>1. /\ next \in steam /\ next # 0 /\ (c # 0 => next < c)
        /\ \A y \in F \ P : y < next
        /\ Cardinality(Above(next)) >= (pages[q] + 1) * PageSize
    BY <1>3, PageFollowed
  <2>2. CASE Parsed(P) = {}
    <3>1. F # {}
      BY <1>1, <1>3
    <3>2. PICK m \in F : \A x \in F : x <= m
      BY <1>1, <3>1, GreatestNat
    <3>3. m \in Matches /\ m \in steam
      BY <1>0, <1>1
    <3>4. {x \in Matches : x <= m} = F
      <4>1. ASSUME NEW x \in Matches, x <= m PROVE x \in F
        <5>1. x = m \/ x < m
          <6>1. x \in Nat /\ m \in Nat
            BY <1>0, <3>3, <4>1
          <6>2. QED
            BY <4>1, <6>1
        <5>2. x \in steam
          BY <3>3, <5>1 DEF SteamInOrder
        <5>3. c # 0 => m < c
          BY <3>2 DEF From
        <5>4. QED
          BY <1>0, <3>3, <4>1, <5>2, <5>3 DEF From
      <4>2. QED
        BY <1>0, <1>1, <3>2, <4>1
    <3>5. F = Newest(F, PageSize) \/ Parsed(Newest(F, PageSize)) # {}
      BY <3>3, <3>4 DEF PagesCover
    <3>6. QED
      BY <1>3, <2>2, <3>5 DEF PageAt
  <2>3. CASE pages[q] + 1 > MaxRefetch
    <3>1. PICK y \in F : y \notin P
      BY <1>1, <1>3
    <3>2. y \in steam /\ y \notin Above(next) /\ Above(next) \in SUBSET steam
      BY <1>0, <1>1, <2>1, <3>1 DEF Above
    <3>3. /\ IsFiniteSet(Above(next))
          /\ Cardinality(Above(next)) <= Cardinality(steam)
          /\ Cardinality(steam) # Cardinality(Above(next))
      BY <1>0, <3>2, FS_Subset
    <3>4. Cardinality(steam) <= Cardinality(Matches) /\ IsFiniteSet(Matches)
      BY <1>0, FS_Subset DEF PagesCover
    <3>5. Cardinality(Matches) <= PageSize * (MaxRefetch + 1)
      BY DEF PagesCover
    <3>6. (pages[q] + 1) * PageSize >= (MaxRefetch + 1) * PageSize
      <4>1. pages[q] + 1 \in Nat /\ MaxRefetch + 1 \in Nat /\ pages[q] + 1 >= MaxRefetch + 1
        BY <1>0, <2>3
      <4>2. QED
        BY <1>0, <4>1, Times
    <3>7. PageSize * (MaxRefetch + 1) = (MaxRefetch + 1) * PageSize
      BY <1>0
    <3>8. /\ Cardinality(steam) \in Nat /\ Cardinality(Above(next)) \in Nat
          /\ Cardinality(Matches) \in Nat
          /\ (pages[q] + 1) * PageSize \in Nat /\ (MaxRefetch + 1) * PageSize \in Nat
      <4>1. pages[q] + 1 \in Nat /\ MaxRefetch + 1 \in Nat
        BY <1>0
      <4>2. QED
        BY <1>0, <3>3, <3>4, <4>1, Times, FS_CardinalityType
    <3>9. QED
      BY <2>1, <3>3, <3>4, <3>5, <3>6, <3>7, <3>8
  <2>4. QED
    BY <1>0, <2>1, <2>2, <2>3 DEF LastPage
<1>4. QED
  BY <1>2, <1>3

\* The two ways a turn of the loop ends.
LEMMA PageTurns ==
    ASSUME TypeOK, NEW q \in Requests, FetchPage(q)
    PROVE  /\ pc[q] = "page" /\ UNCHANGED <<now, steam, rows, kind, stored, answer, playedAt, askedAt>>
           /\ \E next \in NextCursors(cursor[q]) :
                 /\ fetched' = [fetched EXCEPT ![q] = fetched[q] \cup Parsed(PageAt(cursor[q]))]
                 /\ pages' = [pages EXCEPT ![q] = pages[q] + 1]
                 /\ ~astray' => ~astray /\ next \in HonestCursors(cursor[q])
                 /\ \/ /\ LastPage(q, Parsed(PageAt(cursor[q])), next)
                       /\ cache' = [cache EXCEPT ![kind[q]] =
                                      [at |-> now, list |-> fetched[q] \cup Parsed(PageAt(cursor[q]))]]
                       /\ steamOk' = steamOk \cup {q}
                       /\ filledAt' = [filledAt EXCEPT ![q] = now]
                       /\ pc' = [pc EXCEPT ![q] = "insert"]
                       /\ cursor' = cursor
                    \/ /\ ~LastPage(q, Parsed(PageAt(cursor[q])), next)
                       /\ cursor' = [cursor EXCEPT ![q] = next]
                       /\ UNCHANGED <<cache, steamOk, filledAt, pc>>
<1>1. pages' = [pages EXCEPT ![q] = pages[q] + 1]
  BY DEF FetchPage
<1>2. PICK next \in NextCursors(cursor[q]) :
          LET list == Parsed(PageAt(cursor[q]))
              all  == fetched[q] \cup list
          IN  /\ fetched' = [fetched EXCEPT ![q] = all]
              /\ astray' = (astray \/ next \notin HonestCursors(cursor[q]))
              /\ IF LastPage(q, list, next)
                 THEN /\ cache' = [cache EXCEPT ![kind[q]] = [at |-> now, list |-> all]]
                      /\ lock' = [lock EXCEPT ![kind[q]] = Nobody]
                      /\ steamOk' = steamOk \cup {q}
                      /\ filledAt' = [filledAt EXCEPT ![q] = now]
                      /\ Goto(q, "insert")
                      /\ UNCHANGED cursor
                 ELSE /\ cursor' = [cursor EXCEPT ![q] = next]
                      /\ UNCHANGED <<cache, lock, steamOk, filledAt, pc>>
  BY DEF FetchPage
<1>3. ~astray' => ~astray /\ next \in HonestCursors(cursor[q])
  BY <1>2
<1>4. pc[q] = "page" /\ UNCHANGED <<now, steam, rows, kind, stored, answer, playedAt, askedAt>>
  BY DEF FetchPage
<1>5. QED
  BY <1>1, <1>2, <1>3, <1>4 DEF Goto

\* A step of a call leaves the other calls, the player's matches and the clock alone.
LEMMA StepAlone ==
    ASSUME TypeOK, NEW q \in Requests, Step(q)
    PROVE  /\ now' = now /\ steam' = steam /\ playedAt' = playedAt /\ kind' = kind
           /\ astray => astray'
           /\ \A r \in Requests \ {q} :
                 /\ pc'[r] = pc[r] /\ fetched'[r] = fetched[r] /\ cursor'[r] = cursor[r]
                 /\ pages'[r] = pages[r] /\ answer'[r] = answer[r]
                 /\ filledAt'[r] = filledAt[r] /\ askedAt'[r] = askedAt[r]
                 /\ r \in steamOk' => r \in steamOk
           /\ askedAt'[q] = askedAt[q] \/ (pc[q] = "idle" /\ askedAt'[q] = now)
           /\ filledAt'[q] = filledAt[q] \/ pc[q] = "page"
           /\ pc[q] \notin Ended \/ HangUp(q)
<1> USE DEF TypeOK, Goto, Answer, Fail, fetch, history, Ended
<1>1. CASE Begin(q)
  BY <1>1 DEF Begin
<1>2. CASE Limit(q) \/ CacheHit(q) \/ CacheMiss(q)
  BY <1>2 DEF Limit, CacheHit, CacheMiss
<1>3. CASE FetchPage(q)
  <2>1. astray => astray'
    BY <1>3 DEF FetchPage
  <2>2. QED
    BY <1>3, <2>1, PageTurns
<1>4. CASE PageFails(q) \/ InsertMissing(q) \/ InsertFails(q) \/ HangUp(q)
  BY <1>4 DEF PageFails, InsertMissing, InsertFails, HangUp
<1>5. QED
  BY <1>1, <1>2, <1>3, <1>4 DEF Step, Proceed

\* Steam only adds newer matches, and pages only look back.
LEMMA NextSteamInOrder == TypeOK /\ SteamInOrder /\ [Next]_vars => SteamInOrder'
<1> SUFFICES ASSUME TypeOK, SteamInOrder, [Next]_vars PROVE SteamInOrder'
  OBVIOUS
<1>1. ASSUME NEW q \in Requests, Step(q) PROVE SteamInOrder'
  <2>1. steam' = steam /\ now' = now
    BY <1>1, StepAlone
  <2>2. \A r \in Requests : askedAt'[r] = askedAt[r] \/ askedAt'[r] = now
    BY <1>1, StepAlone DEF TypeOK
  <2>3. QED
    BY <2>1, <2>2 DEF SteamInOrder, TypeOK
<1>2. ASSUME NEW m \in Matches, PlayMatch(m) PROVE SteamInOrder'
  <2>1. steam' = steam \cup {m} /\ now' = now /\ askedAt' = askedAt
    BY <1>2 DEF PlayMatch
  <2>2. \A x \in Matches : x < m => x \in steam
    BY <1>2 DEF PlayMatch
  <2>3. IsFiniteSet(steam')
    BY <2>1, FS_AddElement DEF SteamInOrder
  <2>4. QED
    BY <2>1, <2>2, <2>3 DEF SteamInOrder
<1>3. CASE Tick
  BY <1>3 DEF Tick, history, SteamInOrder, TypeOK
<1>4. CASE UNCHANGED vars
  BY <1>4 DEF vars, history, SteamInOrder
<1>5. QED
  BY <1>1, <1>2, <1>3, <1>4 DEF Next

\* What was there when a call began does not change.
LEMMA OldStays ==
    ASSUME TypeOK, SteamInOrder, [Next]_vars, NEW r \in Requests, pc[r] # "idle"
    PROVE  Old(r)' = Old(r) /\ askedAt'[r] = askedAt[r] /\ kind'[r] = kind[r]
<1>1. ASSUME NEW q \in Requests, Step(q)
      PROVE  Old(r)' = Old(r) /\ askedAt'[r] = askedAt[r] /\ kind'[r] = kind[r]
  <2>1. askedAt'[r] = askedAt[r] /\ kind'[r] = kind[r]
    BY <1>1, StepAlone
  <2>2. steam' = steam /\ playedAt' = playedAt
    BY <1>1, StepAlone
  <2>3. QED
    BY <2>1, <2>2 DEF Old, Parsed
<1>2. ASSUME NEW m \in Matches, PlayMatch(m)
      PROVE  Old(r)' = Old(r) /\ askedAt'[r] = askedAt[r] /\ kind'[r] = kind[r]
  <2>1. /\ m \notin steam /\ steam' = steam \cup {m} /\ playedAt' = [playedAt EXCEPT ![m] = now]
        /\ askedAt' = askedAt /\ kind' = kind
    BY <1>2 DEF PlayMatch
  <2>2. askedAt[r] <= now /\ now \in Nat /\ askedAt[r] \in Nat /\ ~(now < askedAt[r])
    BY DEF SteamInOrder, TypeOK
  <2>3. m \notin Old(r) /\ m \notin Old(r)'
    BY <2>1, <2>2 DEF Old, Parsed, TypeOK
  <2>4. ASSUME NEW x, x # m PROVE x \in Old(r)' <=> x \in Old(r)
    BY <2>1, <2>4 DEF Old, Parsed, TypeOK
  <2>5. QED
    BY <2>1, <2>3, <2>4
<1>3. CASE Tick \/ UNCHANGED vars
  BY <1>3 DEF Tick, vars, history, Old, Parsed
<1>4. QED
  BY <1>1, <1>2, <1>3 DEF Next

\* A call whose fetch has succeeded or filled the cache stays past it.
LEMMA NextPastFetch == TypeOK /\ PastFetch /\ [Next]_vars => PastFetch'
<1> SUFFICES ASSUME TypeOK, PastFetch, [Next]_vars PROVE PastFetch'
  OBVIOUS
<1> USE DEF TypeOK, PastFetch, Goto, Answer, Fail, fetch, history
<1>1. CASE \E q \in Requests : Step(q)
  <2> PICK q \in Requests : Step(q)
    BY <1>1
  <2>1. CASE FetchPage(q)
    <3>1. \/ UNCHANGED <<filledAt, steamOk, pc>>
          \/ /\ filledAt' = [filledAt EXCEPT ![q] = now] /\ steamOk' = steamOk \cup {q}
             /\ pc' = [pc EXCEPT ![q] = "insert"]
      BY <2>1 DEF FetchPage
    <3>2. QED
      BY <3>1
  <2>2. CASE Begin(q) \/ Limit(q) \/ CacheHit(q) \/ CacheMiss(q)
    <3>1. /\ pc[q] \in {"idle", "limit", "lock"} /\ filledAt' = filledAt
          /\ \A r \in Requests : r # q => pc'[r] = pc[r]
      BY <2>2 DEF Begin, Limit, CacheHit, CacheMiss
    <3>2. steamOk' = steamOk \/ (steamOk' = steamOk \cup {q} /\ pc'[q] = "insert")
      BY <2>2 DEF Begin, Limit, CacheHit, CacheMiss
    <3>3. QED
      BY <3>1, <3>2
  <2>3. CASE PageFails(q) \/ InsertMissing(q) \/ InsertFails(q) \/ HangUp(q)
    BY <2>3 DEF PageFails, InsertMissing, InsertFails, HangUp
  <2>4. QED
    BY <2>1, <2>2, <2>3 DEF Step, Proceed
<1>2. CASE (\E m \in Matches : PlayMatch(m)) \/ Tick \/ UNCHANGED vars
  BY <1>2 DEF PlayMatch, Tick, vars
<1>3. QED
  BY <1>1, <1>2 DEF Next

\* What a call has from Steam is not disturbed by the others.
LEMMA FollowedStays ==
    ASSUME TypeOK, SteamInOrder, [Next]_vars, NEW r \in Requests, pc[r] # "idle",
           Followed(r), cursor'[r] = cursor[r], pages'[r] = pages[r], fetched'[r] = fetched[r]
    PROVE  Followed(r)'
<1>1. Old(r)' = Old(r) /\ steam \subseteq steam' /\ TypeOK'
  <2>1. steam \subseteq steam'
    <3>1. CASE \E q \in Requests : Step(q)
      BY <3>1, StepAlone
    <3>2. CASE (\E m \in Matches : PlayMatch(m)) \/ Tick \/ UNCHANGED vars
      BY <3>2 DEF PlayMatch, Tick, vars
    <3>3. QED
      BY <3>1, <3>2 DEF Next
  <2>2. QED
    BY <2>1, OldStays, NextTypeOK
<1>2. PICK c \in steam : c = cursor[r]
  BY DEF Followed
<1>3. Above(c) \subseteq Above(c)'
  BY <1>1 DEF Above
<1>4. IsFiniteSet(Above(c)')
  <2>1. IsFiniteSet(steam') /\ Above(c)' \in SUBSET steam'
    BY NextSteamInOrder DEF SteamInOrder, Above
  <2>2. QED
    BY <2>1, FS_Subset
<1>5. /\ IsFiniteSet(Above(c)) /\ Cardinality(Above(c)) <= Cardinality(Above(c)')
      /\ Cardinality(Above(c)) \in Nat /\ Cardinality(Above(c)') \in Nat
  BY <1>3, <1>4, FS_Subset, FS_CardinalityType
<1>6. pages[r] * PageSize \in Nat /\ Cardinality(Above(c)) >= pages[r] * PageSize
  BY <1>2, Numbers, Times DEF TypeOK, Followed
<1>7. Cardinality(Above(c)') >= pages[r] * PageSize
  BY <1>5, <1>6
<1>8. Old(r) \cap Above(c)' \subseteq fetched[r]
  BY <1>2 DEF Followed, Above, Old, Parsed
<1>9. QED
  BY <1>1, <1>2, <1>7, <1>8 DEF Followed, Above

\* Page by page, a fetch has everything above its cursor that was played before it
\* asked.
LEMMA NextPagesFollowed == TypeOK /\ SteamInOrder /\ PagesFollowed /\ [Next]_vars => PagesFollowed'
<1> SUFFICES ASSUME TypeOK, SteamInOrder, PagesFollowed, [Next]_vars, NEW r \in Requests
             PROVE  /\ pc'[r] \in {"idle", "limit", "lock"} => cursor'[r] = 0 /\ pages'[r] = 0
                    /\ pc'[r] = "page" /\ cursor'[r] = 0 => pages'[r] = 0
                    /\ pc'[r] = "page" /\ cursor'[r] # 0 /\ kind'[r] = "force" /\ ~astray' => Followed(r)'
  BY DEF PagesFollowed
<1>1. ASSUME pc'[r] = pc[r], kind'[r] = kind[r], astray => astray',
             cursor'[r] = cursor[r], pages'[r] = pages[r], fetched'[r] = fetched[r]
      PROVE  /\ pc'[r] \in {"idle", "limit", "lock"} => cursor'[r] = 0 /\ pages'[r] = 0
             /\ pc'[r] = "page" /\ cursor'[r] = 0 => pages'[r] = 0
             /\ pc'[r] = "page" /\ cursor'[r] # 0 /\ kind'[r] = "force" /\ ~astray' => Followed(r)'
  <2>1. ASSUME pc[r] = "page", cursor[r] # 0, kind[r] = "force", ~astray PROVE Followed(r)'
    <3>1. Followed(r)
      BY <2>1 DEF PagesFollowed
    <3>2. QED
      BY <1>1, <2>1, <3>1, FollowedStays
  <2>2. QED
    BY <1>1, <2>1 DEF PagesFollowed
<1>2. ASSUME NEW q \in Requests, Step(q), r # q
      PROVE  /\ pc'[r] = pc[r] /\ kind'[r] = kind[r] /\ (astray => astray')
             /\ cursor'[r] = cursor[r] /\ pages'[r] = pages[r] /\ fetched'[r] = fetched[r]
  BY <1>2, StepAlone
<1>3. CASE FetchPage(r)
  <2>1. PICK next \in NextCursors(cursor[r]) :
           /\ fetched' = [fetched EXCEPT ![r] = fetched[r] \cup Parsed(PageAt(cursor[r]))]
           /\ pages' = [pages EXCEPT ![r] = pages[r] + 1]
           /\ ~astray' => ~astray /\ next \in HonestCursors(cursor[r])
           /\ \/ pc' = [pc EXCEPT ![r] = "insert"]
              \/ /\ ~LastPage(r, Parsed(PageAt(cursor[r])), next)
                 /\ cursor' = [cursor EXCEPT ![r] = next]
                 /\ pc' = pc
    BY <1>3, PageTurns
  <2>2. pc[r] = "page" /\ UNCHANGED <<steam, kind, playedAt, askedAt>>
    BY <1>3, PageTurns
  <2>3. CASE pc' = [pc EXCEPT ![r] = "insert"]
    BY <2>3 DEF TypeOK
  <2>4. CASE pc' = pc /\ cursor' = [cursor EXCEPT ![r] = next] /\ ~LastPage(r, Parsed(PageAt(cursor[r])), next)
    <3>1. next # 0 /\ cursor'[r] = next /\ pages'[r] = pages[r] + 1
          /\ fetched'[r] = fetched[r] \cup Parsed(PageAt(cursor[r]))
      BY <2>1, <2>4 DEF LastPage, TypeOK
    <3>2. ASSUME kind[r] = "force", ~astray' PROVE Followed(r)'
      <4>1. ~astray /\ next \in HonestCursors(cursor[r])
        BY <2>1, <3>2
      <4>2. /\ next \in steam
            /\ Old(r) \cap Above(next) \subseteq fetched'[r]
            /\ Cardinality(Above(next)) >= pages'[r] * PageSize
        BY <2>2, <3>1, <3>2, <4>1, PageFollowed
      <4>3. PICK c \in steam : c = next
        BY <4>2
      <4>4. Old(r)' = Old(r) /\ Above(c)' = Above(c) /\ steam' = steam
        BY <2>2 DEF Old, Above, Parsed
      <4>5. cursor'[r] = c
        BY <3>1, <4>3
      <4>6. Old(r)' \cap Above(c)' \subseteq fetched'[r] /\ Cardinality(Above(c)') >= pages'[r] * PageSize
        BY <4>2, <4>3, <4>4
      <4>7. QED
        BY <4>4, <4>5, <4>6 DEF Followed, Above
    <3>3. QED
      BY <2>2, <2>4, <3>1, <3>2
  <2>5. QED
    BY <2>1, <2>3, <2>4
<1>4. CASE Step(r) /\ ~FetchPage(r)
  <2>1. /\ pages' = pages /\ cursor' = cursor
        /\ pc'[r] \in {"idle", "limit", "lock", "page"} => pc[r] \in {"idle", "limit", "lock"}
    <3> USE DEF TypeOK, Goto, Answer, Fail, fetch, Ended
    <3>1. CASE Begin(r) \/ Limit(r) \/ CacheHit(r) \/ CacheMiss(r)
      BY <3>1 DEF Begin, Limit, CacheHit, CacheMiss
    <3>2. CASE PageFails(r) \/ InsertMissing(r) \/ InsertFails(r) \/ HangUp(r)
      BY <3>2 DEF PageFails, InsertMissing, InsertFails, HangUp
    <3>3. QED
      BY <1>4, <3>1, <3>2 DEF Step, Proceed
  <2>2. QED
    BY <2>1 DEF PagesFollowed
<1>5. CASE (\E m \in Matches : PlayMatch(m)) \/ Tick \/ UNCHANGED vars
  <2>1. /\ pc' = pc /\ kind' = kind /\ astray' = astray
        /\ cursor' = cursor /\ pages' = pages /\ fetched' = fetched
    BY <1>5 DEF PlayMatch, Tick, vars, fetch, history
  <2>2. QED
    BY <1>1, <2>1
<1>6. QED
  BY <1>1, <1>2, <1>3, <1>4, <1>5 DEF Next

\* The call behind a complete list goes on and does not fill the cache again.
LEMMA SourceStays ==
    ASSUME TypeOK, SteamInOrder, PastFetch, [Next]_vars, NEW r \in Requests, filledAt[r] # 0
    PROVE  filledAt'[r] = filledAt[r] /\ kind'[r] = kind[r] /\ Old(r)' = Old(r)
<1>1. pc[r] \notin {"idle", "page"}
  BY DEF PastFetch
<1>2. ASSUME NEW q \in Requests, Step(q) PROVE filledAt'[r] = filledAt[r]
  BY <1>1, <1>2, StepAlone
<1>3. CASE (\E m \in Matches : PlayMatch(m)) \/ Tick \/ UNCHANGED vars
  BY <1>1, <1>3, OldStays DEF PlayMatch, Tick, vars, history
<1>4. QED
  BY <1>1, <1>2, <1>3, OldStays DEF Next

\* The cached list stays one that was complete when its fetch began, while pages
\* cover what is new.
LEMMA NextCacheComplete ==
    TypeOK /\ SteamInOrder /\ PastFetch /\ PagesFollowed /\ CacheComplete /\ [Next]_vars => CacheComplete'
<1> SUFFICES ASSUME TypeOK, SteamInOrder, PastFetch, PagesFollowed, CacheComplete, [Next]_vars,
                    PagesCover, ~astray', cache'["force"].at # 0
             PROVE  \E r \in Requests :
                       /\ filledAt'[r] = cache'["force"].at /\ kind'[r] = "force"
                       /\ Old(r)' \subseteq cache'["force"].list
  BY DEF CacheComplete, Complete, PagesCover, Newest, Parsed
<1>1. ASSUME cache'["force"] = cache["force"], ~astray
      PROVE  \E r \in Requests :
                /\ filledAt'[r] = cache'["force"].at /\ kind'[r] = "force"
                /\ Old(r)' \subseteq cache'["force"].list
  <2>1. PICK r \in Requests : /\ filledAt[r] = cache["force"].at /\ kind[r] = "force"
                              /\ Old(r) \subseteq cache["force"].list
    BY <1>1 DEF CacheComplete, Complete
  <2>2. filledAt'[r] = filledAt[r] /\ kind'[r] = kind[r] /\ Old(r)' = Old(r)
    BY <1>1, <2>1, SourceStays
  <2>3. QED
    BY <1>1, <2>1, <2>2
<1>2. ASSUME NEW q \in Requests, FetchPage(q)
      PROVE  \E r \in Requests :
                /\ filledAt'[r] = cache'["force"].at /\ kind'[r] = "force"
                /\ Old(r)' \subseteq cache'["force"].list
  <2>1. PICK next \in NextCursors(cursor[q]) :
           /\ ~astray' => ~astray /\ next \in HonestCursors(cursor[q])
           /\ \/ /\ LastPage(q, Parsed(PageAt(cursor[q])), next)
                 /\ cache' = [cache EXCEPT ![kind[q]] =
                                [at |-> now, list |-> fetched[q] \cup Parsed(PageAt(cursor[q]))]]
                 /\ filledAt' = [filledAt EXCEPT ![q] = now]
              \/ UNCHANGED cache
    BY <1>2, PageTurns
  <2>2. pc[q] = "page" /\ kind' = kind /\ kind[q] \in FetchKinds
    BY <1>2, PageTurns DEF TypeOK, Running, Ended
  <2>3. CASE UNCHANGED cache \/ kind[q] # "force"
    BY <1>1, <2>1, <2>3 DEF TypeOK, FetchKinds
  <2>4. CASE ~UNCHANGED cache /\ kind[q] = "force"
    <3>1. /\ cache'["force"] = [at |-> now, list |-> fetched[q] \cup Parsed(PageAt(cursor[q]))]
          /\ filledAt'[q] = now
      BY <2>1, <2>4 DEF TypeOK, FetchKinds
    <3>2. Old(q) \subseteq fetched[q] \cup Parsed(PageAt(cursor[q]))
      BY <2>1, <2>2, <2>4, LastPageCompletes
    <3>3. Old(q)' = Old(q)
      BY <2>2, OldStays
    <3>4. QED
      BY <2>2, <2>4, <3>1, <3>2, <3>3
  <2>5. QED
    BY <2>3, <2>4
<1>3. ASSUME NEW q \in Requests, Step(q), ~FetchPage(q) PROVE cache' = cache /\ (astray => astray')
  <2>1. cache' = cache
    BY <1>3 DEF Step, Proceed, Begin, Limit, CacheHit, CacheMiss, PageFails, InsertMissing, InsertFails,
                HangUp, fetch
  <2>2. QED
    BY <1>3, <2>1, StepAlone
<1>4. CASE (\E m \in Matches : PlayMatch(m)) \/ Tick \/ UNCHANGED vars
  <2>1. cache' = cache /\ astray' = astray
    BY <1>4 DEF PlayMatch, Tick, vars, fetch, history
  <2>2. QED
    BY <1>1, <2>1
<1>5. QED
  BY <1>1, <1>2, <1>3, <1>4 DEF Next

\* What a call has fetched, by itself or from the cache, is complete, and so is its
\* answer.
LEMMA NextFetchComplete == TypeOK /\ Refetching /\ [Next]_vars => FetchComplete'
<1> SUFFICES ASSUME TypeOK, Refetching, [Next]_vars PROVE FetchComplete'
  OBVIOUS
<1>t. TypeOK'
  BY NextTypeOK
<1> SUFFICES ASSUME NEW q \in Requests, q \in steamOk',
                    PagesCover, ~astray', kind'[q] = "force"
             PROVE  \E r \in Requests :
                       /\ filledAt'[r] # 0 /\ askedAt'[q] < filledAt'[r] + CacheTtl
                       /\ pc'[q] = "insert" => kind'[r] = "force" /\ Old(r)' \subseteq fetched'[q]
                       /\ pc'[q] = "ok" => kind'[r] = "force" /\ Old(r)' \subseteq answer'[q]
  BY <1>t DEF FetchComplete, Complete, PagesCover, Newest, Parsed, TypeOK
<1>r. SteamInOrder /\ PastFetch /\ PagesFollowed /\ CacheComplete /\ FetchComplete
  BY DEF Refetching
<1>1. ASSUME NEW r \in Requests, filledAt[r] # 0
      PROVE  filledAt'[r] = filledAt[r] /\ kind'[r] = kind[r] /\ Old(r)' = Old(r)
  BY <1>r, <1>1, SourceStays
<1>2. ASSUME q \in steamOk, ~astray, kind[q] = "force",
             \/ pc'[q] = pc[q] /\ fetched'[q] = fetched[q] /\ answer'[q] = answer[q]
             \/ pc'[q] = "failed"
             \/ pc[q] = "insert" /\ pc'[q] = "ok" /\ fetched[q] \subseteq answer'[q]
      PROVE  \E r \in Requests :
                /\ filledAt'[r] # 0 /\ askedAt'[q] < filledAt'[r] + CacheTtl
                /\ pc'[q] = "insert" => kind'[r] = "force" /\ Old(r)' \subseteq fetched'[q]
                /\ pc'[q] = "ok" => kind'[r] = "force" /\ Old(r)' \subseteq answer'[q]
  <2>1. PICK r \in Requests :
            /\ filledAt[r] # 0 /\ askedAt[q] < filledAt[r] + CacheTtl
            /\ pc[q] = "insert" => kind[r] = "force" /\ Old(r) \subseteq fetched[q]
            /\ pc[q] = "ok" => kind[r] = "force" /\ Old(r) \subseteq answer[q]
    BY <1>r, <1>2 DEF FetchComplete, Complete
  <2>2. filledAt'[r] = filledAt[r] /\ kind'[r] = kind[r] /\ Old(r)' = Old(r)
    BY <1>1, <2>1
  <2>3. askedAt'[q] = askedAt[q]
    <3>1. pc[q] # "idle"
      BY <1>r, <1>2 DEF PastFetch
    <3>2. QED
      BY <1>r, <3>1, OldStays
  <2>4. QED
    BY <1>2, <2>1, <2>2, <2>3
<1>3. ASSUME NEW p \in Requests, Step(p), p # q
      PROVE  q \in steamOk /\ ~astray /\ kind[q] = "force"
             /\ pc'[q] = pc[q] /\ fetched'[q] = fetched[q] /\ answer'[q] = answer[q]
  BY <1>3, StepAlone
<1>4. CASE CacheHit(q)
  <2>1. /\ pc' = [pc EXCEPT ![q] = "insert"] /\ pc[q] = "lock" /\ Alive(EntryOf(q))
        /\ fetched' = [fetched EXCEPT ![q] = EntryOf(q).list]
        /\ UNCHANGED <<now, kind, askedAt, astray>>
    BY <1>4 DEF CacheHit, Goto
  <2>2. EntryOf(q) = cache["force"]
    BY <2>1 DEF EntryOf
  <2>3. PICK r \in Requests : /\ filledAt[r] = cache["force"].at /\ kind[r] = "force"
                              /\ Old(r) \subseteq cache["force"].list
    BY <1>r, <2>1, <2>2 DEF CacheComplete, Complete, Alive
  <2>4. filledAt[r] # 0 /\ now < filledAt[r] + CacheTtl
    BY <2>1, <2>2, <2>3 DEF Alive
  <2>5. askedAt[q] < filledAt[r] + CacheTtl
    <3>1. askedAt[q] <= now
      BY <1>r DEF SteamInOrder
    <3>2. QED
      BY <2>4, <3>1, Numbers DEF TypeOK
  <2>6. QED
    BY <1>1, <2>1, <2>2, <2>3, <2>4, <2>5 DEF TypeOK
<1>5. CASE FetchPage(q)
  <2>1. PICK next \in NextCursors(cursor[q]) :
           /\ fetched' = [fetched EXCEPT ![q] = fetched[q] \cup Parsed(PageAt(cursor[q]))]
           /\ ~astray' => ~astray /\ next \in HonestCursors(cursor[q])
           /\ \/ /\ LastPage(q, Parsed(PageAt(cursor[q])), next)
                 /\ filledAt' = [filledAt EXCEPT ![q] = now]
                 /\ pc' = [pc EXCEPT ![q] = "insert"]
              \/ UNCHANGED steamOk
    BY <1>5, PageTurns
  <2>2. pc[q] = "page" /\ kind' = kind /\ askedAt' = askedAt
    BY <1>5, PageTurns
  <2>3. q \notin steamOk
    BY <1>r, <2>2 DEF PastFetch
  <2>4. /\ LastPage(q, Parsed(PageAt(cursor[q])), next)
        /\ filledAt'[q] = now /\ pc'[q] = "insert"
        /\ fetched'[q] = fetched[q] \cup Parsed(PageAt(cursor[q]))
    BY <2>1, <2>3 DEF TypeOK
  <2>5. Old(q) \subseteq fetched'[q]
    BY <1>r, <2>1, <2>2, <2>4, LastPageCompletes
  <2>6. Old(q)' = Old(q)
    BY <1>r, <2>2, OldStays
  <2>7. now # 0 /\ askedAt'[q] < now + CacheTtl
    <3>1. askedAt[q] <= now /\ now # 0
      BY <1>r DEF SteamInOrder
    <3>2. QED
      BY <2>2, <3>1, Numbers DEF TypeOK
  <2>8. QED
    BY <2>2, <2>4, <2>5, <2>6, <2>7
<1>6. CASE InsertMissing(q) \/ InsertFails(q)
  <2>1. /\ pc[q] = "insert" /\ pc'[q] = "ok" /\ fetched[q] \subseteq answer'[q]
        /\ steamOk' = steamOk /\ astray' = astray /\ kind' = kind
    BY <1>6 DEF InsertMissing, InsertFails, Answer, Goto, Combined, TypeOK, history
  <2>2. QED
    BY <1>2, <2>1
<1>7. CASE HangUp(q)
  <2>1. pc'[q] = "failed" /\ steamOk' = steamOk /\ astray' = astray /\ kind' = kind
    BY <1>7 DEF HangUp, Fail, Goto, TypeOK, history
  <2>2. QED
    BY <1>2, <2>1
<1>8. CASE Begin(q) \/ Limit(q) \/ CacheMiss(q) \/ PageFails(q)
  <2>1. steamOk' = steamOk /\ pc[q] \in {"idle", "limit", "lock", "page"}
    BY <1>8 DEF Begin, Limit, CacheMiss, PageFails, history
  <2>2. QED
    BY <1>r, <2>1 DEF PastFetch
<1>9. CASE (\E m \in Matches : PlayMatch(m)) \/ Tick \/ UNCHANGED vars
  <2>1. /\ steamOk' = steamOk /\ astray' = astray /\ kind' = kind
        /\ pc' = pc /\ fetched' = fetched /\ answer' = answer
    BY <1>9 DEF PlayMatch, Tick, vars, fetch, history
  <2>2. QED
    BY <1>2, <2>1
<1>10. QED
  BY <1>2, <1>3, <1>4, <1>5, <1>6, <1>7, <1>8, <1>9 DEF Next, Step, Proceed

\* A forced answer whose fetch succeeded has every match played before the call that
\* did the fetch, for any history the pages cover: page by page the fetch has all
\* there was above its cursor, and neither a full page nor the page limit ends it
\* early.
THEOREM RefetchesComplete == Spec => []RefetchComplete
<1>1. Init => Refetching
  <2> SUFFICES ASSUME Init PROVE Refetching
    OBVIOUS
  <2>1. SteamInOrder
    BY FS_EmptySet DEF Init, SteamInOrder
  <2>2. PastFetch /\ PagesFollowed /\ CacheComplete /\ FetchComplete
    BY DEF Init, PastFetch, PagesFollowed, CacheComplete, FetchComplete, FetchKinds, NoEntry
  <2>3. QED
    BY <2>1, <2>2 DEF Refetching
<1>2. TypeOK /\ Refetching /\ [Next]_vars => Refetching'
  BY NextSteamInOrder, NextPastFetch, NextPagesFollowed, NextCacheComplete, NextFetchComplete
  DEF Refetching
<1>3. TypeOK /\ Refetching => RefetchComplete
  BY DEF TypeOK, Refetching, FetchComplete, Complete, RefetchComplete, Old
<1>4. QED
  BY <1>1, <1>2, <1>3, InitTypeOK, NextTypeOK, PTL DEF Spec
=============================================================================

-------------------------- MODULE MatchSaltsProofs --------------------------
(***************************************************************************)
(* The salts that are answered, fetched, refused and stored, for any       *)
(* matches, requests, submitted entries and answers of Steam, and any      *)
(* lifespans of the two caches; and the metadata files, which are served   *)
(* from where they are kept, however the worker moves them meanwhile.      *)
(***************************************************************************)
EXTENDS MatchFiles, FiniteSetTheorems, SequenceTheorems, WellFoundedInduction, TLAPS

SlotType == [at : Nat, known : BOOLEAN]

TableTyped ==
    /\ now \in 1..MaxTime /\ info \subseteq Matches
    /\ row \in [Matches -> ClickhouseSalts] /\ \A m \in Matches : row[m].match = m
    /\ heldAt \in [Matches -> [Kinds -> 0..now]]
    /\ fetched \in [Matches -> Nat] /\ lapses \in [Matches -> Nat]

FetchTyped ==
    /\ salts \in [Matches -> [at : 0..now, row : ClickhouseSalts]]
    /\ \A m \in Matches : salts[m].row.match = m
    /\ fpc \in [Fetches -> Locking \cup {"idle", "ok", "bad_request", "not_found", "error"}]
    /\ fmatch \in [Fetches -> Matches]
    /\ fsalts \in [Fetches -> ClickhouseSalts]
    /\ \A f \in Fetches : fsalts[f].match = fmatch[f]

IngestTyped ==
    /\ ipc \in [Ingests -> {"idle", "filter", "end", "success", "error"}]
    /\ checks \in [Ingests -> [Entries -> Querying \cup {"none", "asked", "done"}]]
    /\ slotOf \in [Ingests -> [Entries -> Nat]]
    /\ since \in [Ingests -> [Entries -> Nat]]
    /\ kept \in [Ingests -> SUBSET Entries]
    /\ \A i \in Ingests, e \in Entries :
         /\ e \in kept[i] => checks[i][e] = "done"
         /\ ipc[i] = "idle" => checks[i][e] = "none"
         /\ ipc[i] # "filter" => checks[i][e] \in {"none", "done"}

\* The slots of a key are only ever added to, so a check keeps the one it took.
SlotsTyped ==
    /\ slots \in [HasKeys -> Seq(SlotType)] /\ \A k \in HasKeys : slots[k] # <<>>
    /\ \A i \in Ingests, e \in Entries :
         checks[i][e] # "none" => slotOf[i][e] \in 1..Len(slots[Key(e)])

Typed == TableTyped /\ FetchTyped /\ IngestTyped /\ SlotsTyped

----------------------------------------------------------------------------
\* What is submitted and what is absent are rows of the table, each with its key.
LEMMA EntryKeys ==
  /\ Entries \subseteq ClickhouseSalts
  /\ \A e \in ClickhouseSalts : Key(e) \in HasKeys /\ e.match \in Matches
  /\ \A m \in Matches : Absent(m) \in ClickhouseSalts /\ Absent(m).match = m
  BY ConstantsAssumption DEF ClickhouseSalts, Key, HasKeys, Absent, Salt

\* A slot that is reset is a new one behind those there are.
LEMMA ResetKeeps ==
  ASSUME slots \in [HasKeys -> Seq(SlotType)], NEW es, ResetSlots(es)
  PROVE  /\ slots' \in [HasKeys -> Seq(SlotType)]
         /\ \A k \in HasKeys :
              /\ Len(slots'[k]) >= Len(slots[k])
              /\ slots[k] # <<>> => slots'[k] # <<>>
              /\ \A n \in 1..Len(slots[k]) : slots'[k][n] = slots[k][n]
              /\ \A n \in 1..Len(slots'[k]) : n > Len(slots[k]) => slots'[k][n] = EmptySlot
<1>1. EmptySlot \in SlotType
  BY DEF EmptySlot, SlotType
<1>2. ASSUME NEW k \in HasKeys
      PROVE  /\ slots'[k] \in Seq(SlotType)
             /\ Len(slots'[k]) >= Len(slots[k])
             /\ slots[k] # <<>> => slots'[k] # <<>>
             /\ \A n \in 1..Len(slots[k]) : slots'[k][n] = slots[k][n]
             /\ \A n \in 1..Len(slots'[k]) : n > Len(slots[k]) => slots'[k][n] = EmptySlot
  <2>1. slots[k] \in Seq(SlotType)
    OBVIOUS
  <2>2. slots'[k] = slots[k] \/ slots'[k] = Append(slots[k], EmptySlot)
    BY DEF ResetSlots
  <2>3. CASE slots'[k] = slots[k]
    BY <2>1, <2>3
  <2>4. CASE slots'[k] = Append(slots[k], EmptySlot)
    BY <1>1, <2>1, <2>4, AppendProperties
  <2>5. QED
    BY <2>2, <2>3, <2>4
<1>3. slots' \in [HasKeys -> Seq(SlotType)]
  <2>1. slots' = [k \in HasKeys |-> slots'[k]]
    BY DEF ResetSlots
  <2>2. QED
    BY <1>2, <2>1
<1>4. QED
  BY <1>2, <1>3

\* A salt the table holds is held now, and no time on record is lost.
LEMMA HeldTyped ==
  ASSUME NEW r \in ClickhouseSalts, NEW t \in Nat, NEW at \in [Kinds -> 0..t]
  PROVE  /\ Held(r, at, t) \in [Kinds -> 0..t]
         /\ \A k \in Kinds :
              /\ Held(r, at, t)[k] >= at[k]
              /\ r[k] = "set" => Held(r, at, t)[k] = t
              /\ r[k] # "set" => Held(r, at, t)[k] = at[k]
  BY DEF Held

\* What an insertion leaves: a match keeps its row, or one of those inserted for
\* it takes its place.
LEMMA StoreLeaves ==
  ASSUME TableTyped, NEW es \in SUBSET ClickhouseSalts, StoreRows(es), now' = now
  PROVE  /\ row' \in [Matches -> ClickhouseSalts]
         /\ \A m \in Matches : row'[m].match = m /\ (row'[m] = row[m] \/ row'[m] \in es)
         /\ \A e \in es : row'[e.match] \in es
         /\ heldAt' = [m \in Matches |-> Held(row'[m], heldAt[m], now)]
         /\ lapses' = [m \in Matches |->
              IF Usable(row[m]) /\ ~Usable(row'[m]) THEN lapses[m] + 1 ELSE lapses[m]]
<1>1. PICK last \in SUBSET es :
        /\ \A e \in es : Cardinality({l \in last : l.match = e.match}) = 1
        /\ row' = [m \in Matches |-> IF \E l \in last : l.match = m
                                     THEN CHOOSE l \in last : l.match = m ELSE row[m]]
        /\ lapses' = [m \in Matches |->
              IF Usable(row[m]) /\ ~Usable(row'[m]) THEN lapses[m] + 1 ELSE lapses[m]]
        /\ heldAt' = [m \in Matches |-> Held(row'[m], heldAt[m], now)]
  BY DEF StoreRows
<1>2. ASSUME NEW m \in Matches, \E l \in last : l.match = m
      PROVE  row'[m] \in last /\ row'[m].match = m
  <2>1. row'[m] = CHOOSE l \in last : l.match = m
    BY <1>1, <1>2
  <2>2. QED
    BY <1>2, <2>1
<1>3. ASSUME NEW m \in Matches, ~\E l \in last : l.match = m
      PROVE  row'[m] = row[m]
  BY <1>1, <1>3
<1>4. ASSUME NEW e \in es PROVE \E l \in last : l.match = e.match
  <2>1. Cardinality({l \in last : l.match = e.match}) = 1
    BY <1>1
  <2>2. {l \in last : l.match = e.match} # {}
    BY <2>1, FS_EmptySet
  <2>3. QED
    BY <2>2
<1>5. \A m \in Matches :
        row'[m] \in ClickhouseSalts /\ row'[m].match = m /\ (row'[m] = row[m] \/ row'[m] \in es)
  BY <1>2, <1>3 DEF TableTyped
<1>6. \A e \in es : row'[e.match] \in es
  BY <1>2, <1>4, EntryKeys
<1>7. row' \in [Matches -> ClickhouseSalts]
  BY <1>1, <1>5
<1>8. QED
  BY <1>1, <1>5, <1>6, <1>7

----------------------------------------------------------------------------
\* The types hold at the start.
LEMMA InitTyped == Init => Typed
<1> SUFFICES ASSUME Init PROVE Typed
  OBVIOUS
<1> USE ConstantsAssumption, EntryKeys DEF Init
<1>1. TableTyped
  BY DEF TableTyped
<1>2. FetchTyped
  BY DEF FetchTyped, Locking
<1>3. IngestTyped
  BY DEF IngestTyped, Querying
<1>4. SlotsTyped
  <2>1. <<EmptySlot>> \in Seq(SlotType) /\ <<EmptySlot>> # <<>>
    BY DEF EmptySlot, SlotType
  <2>2. QED
    BY <2>1 DEF SlotsTyped
<1>5. QED
  BY <1>1, <1>2, <1>3, <1>4 DEF Typed

\* The steps that neither write to the table nor let the clock run.
TableStays == UNCHANGED <<now, row, heldAt, fetched>>

\* Only the end of a fetch, the end of an ingest and the clock touch the table and
\* its history.
LEMMA TableSteps ==
  ASSUME Next
  PROVE  \/ TableStays /\ info' \subseteq info \cup Matches
            /\ (lapses' = lapses \/ \E f \in Fetches : LookInTable(f))
         \/ \E f \in Fetches : FetchEnds(f)
         \/ \E i \in Ingests : IngestEnds(i)
         \/ Tick
<1>1. ASSUME NEW f \in Fetches, FetchStep(f), ~FetchEnds(f)
      PROVE  TableStays /\ UNCHANGED info /\ (lapses' = lapses \/ LookInTable(f))
  <2>1. CASE LookInTable(f)
    BY <2>1 DEF LookInTable, TableStays
  <2>2. CASE Fetch(f)
    BY <2>2 DEF Fetch, TableStays
  <2>3. CASE LookForInfo(f) \/ Limits(f) \/ AskSteam(f) \/ WriteFetched(f)
    BY <2>3 DEF LookForInfo, Limits, AskSteam, WriteFetched, TableStays
  <2>4. QED
    BY <1>1, <2>1, <2>2, <2>3 DEF FetchStep
<1>2. ASSUME NEW i \in Ingests, StartIngest(i) \/ IngestFiltered(i)
      PROVE  TableStays /\ UNCHANGED <<info, lapses>>
  BY <1>2 DEF StartIngest, IngestFiltered, TableStays
<1>3. ASSUME NEW i \in Ingests, NEW e \in Entries, CheckStep(i, e)
      PROVE  TableStays /\ UNCHANGED <<info, lapses>>
  BY <1>3 DEF CheckStep, CheckCached, CheckQuery, CheckReads, CheckEnds, TableStays
<1>4. ASSUME NEW m \in Matches, MatchParsed(m)
      PROVE  TableStays /\ info' \subseteq info \cup Matches /\ UNCHANGED lapses
  BY <1>4 DEF MatchParsed, TableStays
<1>5. QED
  BY <1>1, <1>2, <1>3, <1>4 DEF Next

\* Every step keeps the types of the table and of its history.
LEMMA NextTable == Typed /\ [Next]_vars => TableTyped'
<1> SUFFICES ASSUME Typed, [Next]_vars PROVE TableTyped'
  OBVIOUS
<1> USE ConstantsAssumption, EntryKeys DEF TableTyped
<1>1. CASE TableStays /\ info' \subseteq info \cup Matches /\ lapses' = lapses
  BY <1>1 DEF Typed, TableStays
<1>2. ASSUME NEW f \in Fetches, LookInTable(f) PROVE TableTyped'
  <2>1. fmatch[f] \in Matches /\ UNCHANGED <<now, row, info, heldAt, fetched>>
    BY <1>2 DEF Typed, FetchTyped, LookInTable
  <2>2. lapses' = lapses \/ lapses' = [lapses EXCEPT ![fmatch[f]] = @ + 1]
    BY <1>2 DEF LookInTable, Typed
  <2>3. lapses' \in [Matches -> Nat]
    BY <2>1, <2>2 DEF Typed
  <2>4. QED
    BY <2>1, <2>3 DEF Typed
<1>3. ASSUME NEW f \in Fetches, FetchEnds(f) PROVE TableTyped'
  <2>1. fmatch[f] \in Matches /\ fsalts[f] \in ClickhouseSalts /\ fsalts[f].match = fmatch[f]
    BY DEF Typed, FetchTyped
  <2>2. PICK inserted \in BOOLEAN :
          /\ row' = IF inserted THEN [row EXCEPT ![fmatch[f]] = fsalts[f]] ELSE row
          /\ lapses' = IF inserted /\ Usable(fsalts[f]) THEN lapses
                       ELSE [lapses EXCEPT ![fmatch[f]] = @ + 1]
          /\ heldAt' = [heldAt EXCEPT ![fmatch[f]] = Held(row'[fmatch[f]], @, now)]
    BY <1>3 DEF FetchEnds
  <2>3. row' \in [Matches -> ClickhouseSalts] /\ \A m \in Matches : row'[m].match = m
    BY <2>1, <2>2 DEF Typed
  <2>4. heldAt' \in [Matches -> [Kinds -> 0..now]]
    <3>1. now \in Nat /\ heldAt[fmatch[f]] \in [Kinds -> 0..now]
      BY <2>1 DEF Typed
    <3>2. Held(row'[fmatch[f]], heldAt[fmatch[f]], now) \in [Kinds -> 0..now]
      BY <2>1, <2>3, <3>1, HeldTyped
    <3>3. QED
      BY <2>2, <3>2 DEF Typed
  <2>5. UNCHANGED <<now, info>> /\ fetched' = [fetched EXCEPT ![fmatch[f]] = @ + 1]
    BY <1>3 DEF FetchEnds
  <2>6. QED
    BY <2>2, <2>3, <2>4, <2>5 DEF Typed
<1>4. ASSUME NEW i \in Ingests, IngestEnds(i) PROVE TableTyped'
  <2>1. UNCHANGED <<now, info, fetched>> /\ (NothingStored \/ StoreRows(kept[i]))
    BY <1>4 DEF IngestEnds
  <2>2. CASE NothingStored
    BY <2>1, <2>2 DEF NothingStored, Typed
  <2>3. CASE StoreRows(kept[i])
    <3>1. kept[i] \in SUBSET ClickhouseSalts
      BY DEF Typed, IngestTyped
    <3>2. /\ row' \in [Matches -> ClickhouseSalts] /\ \A m \in Matches : row'[m].match = m
          /\ heldAt' = [m \in Matches |-> Held(row'[m], heldAt[m], now)]
          /\ lapses' = [m \in Matches |->
               IF Usable(row[m]) /\ ~Usable(row'[m]) THEN lapses[m] + 1 ELSE lapses[m]]
      BY <2>1, <2>3, <3>1, StoreLeaves DEF Typed
    <3>3. \A m \in Matches : Held(row'[m], heldAt[m], now) \in [Kinds -> 0..now]
      BY <3>2, HeldTyped DEF Typed
    <3>4. QED
      BY <2>1, <3>2, <3>3 DEF Typed
  <2>4. QED
    BY <2>1, <2>2, <2>3
<1>5. CASE Tick
  <2>1. now' = now + 1 /\ now' \in 1..MaxTime /\ UNCHANGED <<row, info, fetched, lapses>>
        /\ heldAt' = [m \in Matches |-> Held(row[m], heldAt[m], now')]
    BY <1>5 DEF Tick, Typed
  <2>2. \A m \in Matches : heldAt[m] \in [Kinds -> 0..now']
    BY <2>1 DEF Typed
  <2>3. \A m \in Matches : Held(row[m], heldAt[m], now') \in [Kinds -> 0..now']
    BY <2>1, <2>2, HeldTyped DEF Typed
  <2>4. QED
    BY <2>1, <2>3 DEF Typed
<1>6. CASE UNCHANGED vars
  BY <1>6 DEF vars, Typed
<1>7. QED
  BY <1>1, <1>2, <1>3, <1>4, <1>5, <1>6, TableSteps

\* Only a step of a fetch touches the fetches and their cache.
LEMMA OthersLeaveFetches ==
  ASSUME Typed, [Next]_vars, ~\E f \in Fetches : FetchStep(f)
  PROVE  UNCHANGED <<salts, fvars>> /\ now' >= now
<1>1. now \in Nat
  BY ConstantsAssumption DEF Typed, TableTyped
<1>2. ASSUME NEW i \in Ingests, StartIngest(i) \/ IngestFiltered(i) \/ IngestEnds(i)
      PROVE  UNCHANGED <<salts, fvars, now>>
  BY <1>2 DEF StartIngest, IngestFiltered, IngestEnds
<1>3. ASSUME NEW i \in Ingests, NEW e \in Entries, CheckStep(i, e)
      PROVE  UNCHANGED <<salts, fvars, now>>
  BY <1>3 DEF CheckStep, CheckCached, CheckQuery, CheckReads, CheckEnds
<1>4. CASE Tick \/ (\E m \in Matches : MatchParsed(m)) \/ UNCHANGED vars
  BY <1>1, <1>4 DEF Tick, MatchParsed, vars
<1>5. QED
  BY <1>1, <1>2, <1>3, <1>4 DEF Next

\* Every step keeps the types of the fetches and their cache.
LEMMA NextFetch == Typed /\ [Next]_vars => FetchTyped'
<1> SUFFICES ASSUME Typed, [Next]_vars PROVE FetchTyped'
  OBVIOUS
<1> USE ConstantsAssumption, EntryKeys DEF Typed, TableTyped, FetchTyped, Locking
<1>1. ASSUME NEW f \in Fetches, FetchStep(f) PROVE FetchTyped'
  <2>1. CASE Fetch(f)
    <3>1. UNCHANGED <<now, salts, fmatch>>
          /\ \E to \in {"ok", "table"} : fpc' = [fpc EXCEPT ![f] = to]
      BY <2>1 DEF Fetch
    <3>2. /\ salts[fmatch[f]].row \in ClickhouseSalts
          /\ salts[fmatch[f]].row.match = fmatch[f]
      OBVIOUS
    <3>3. PICK r \in ClickhouseSalts :
            r.match = fmatch[f] /\ (fsalts' = fsalts \/ fsalts' = [fsalts EXCEPT ![f] = r])
      BY <2>1, <3>2 DEF Fetch
    <3>4. fpc' \in [Fetches -> Locking \cup {"idle", "ok", "bad_request", "not_found", "error"}]
      BY <3>1
    <3>5. fsalts' \in [Fetches -> ClickhouseSalts] /\ \A g \in Fetches : fsalts'[g].match = fmatch[g]
      BY <3>3
    <3>6. QED
      BY <3>1, <3>4, <3>5
  <2>2. CASE LookInTable(f)
    <3>1. UNCHANGED <<now, fmatch>> /\ \E to \in {"ok", "info"} : fpc' = [fpc EXCEPT ![f] = to]
      BY <2>2 DEF LookInTable, Answer
    <3>2. PICK r \in ClickhouseSalts :
            /\ r.match = fmatch[f]
            /\ \/ UNCHANGED <<fsalts, salts>>
               \/ /\ fsalts' = [fsalts EXCEPT ![f] = r]
                  /\ salts' = [salts EXCEPT ![fmatch[f]] = [at |-> now, row |-> r]]
      BY <2>2 DEF LookInTable, Answer
    <3>3. [at |-> now, row |-> r] \in [at : 0..now, row : ClickhouseSalts]
      OBVIOUS
    <3>4. salts' \in [Matches -> [at : 0..now, row : ClickhouseSalts]]
      <4>1. salts' = salts \/ salts' = [salts EXCEPT ![fmatch[f]] = [at |-> now, row |-> r]]
        BY <3>2
      <4>2. salts \in [Matches -> [at : 0..now, row : ClickhouseSalts]]
        OBVIOUS
      <4> HIDE DEF Typed, TableTyped, FetchTyped
      <4>3. QED
        BY <3>3, <4>1, <4>2
    <3>5. fpc' \in [Fetches -> Locking \cup {"idle", "ok", "bad_request", "not_found", "error"}]
      BY <3>1
    <3>6. \A m \in Matches : salts'[m] = salts[m] \/ (m = fmatch[f] /\ salts'[m].row = r)
      <4>1. salts' = salts \/ salts' = [salts EXCEPT ![fmatch[f]] = [at |-> now, row |-> r]]
        BY <3>2
      <4>2. [at |-> now, row |-> r].row = r
        OBVIOUS
      <4> HIDE DEF Typed, TableTyped, FetchTyped
      <4>3. DOMAIN salts = Matches
        BY DEF Typed, FetchTyped
      <4>4. QED
        BY <4>1, <4>2, <4>3
    <3>7. \A m \in Matches : salts'[m].row.match = m
      <4>1. r.match = fmatch[f] /\ \A m \in Matches : salts[m].row.match = m
        BY <3>2
      <4> HIDE DEF Typed, TableTyped, FetchTyped
      <4>2. QED
        BY <3>6, <4>1
    <3>8. fsalts' \in [Fetches -> ClickhouseSalts] /\ \A g \in Fetches : fsalts'[g].match = fmatch[g]
      <4>1. fsalts' = fsalts \/ fsalts' = [fsalts EXCEPT ![f] = r]
        BY <3>2
      <4>2. r \in ClickhouseSalts /\ r.match = fmatch[f]
        BY <3>2
      <4>3. QED
        BY <4>1, <4>2
    <3>9. QED
      BY <3>1, <3>4, <3>5, <3>7, <3>8
  <2>3. CASE LookForInfo(f) \/ Limits(f) \/ WriteFetched(f)
    BY <2>3 DEF LookForInfo, Limits, WriteFetched
  <2>4. CASE AskSteam(f)
    <3>1. CASE UNCHANGED fsalts
      BY <2>4, <3>1 DEF AskSteam
    <3>2. CASE fsalts' # fsalts
      <4>1. PICK s \in SteamAnswers :
              fsalts' = [fsalts EXCEPT ![f] = [match |-> fmatch[f], meta |-> s.meta,
                                               replay |-> s.replay, cluster |-> s.cluster]]
        BY <2>4, <3>2 DEF AskSteam
      <4>2. [match |-> fmatch[f], meta |-> s.meta, replay |-> s.replay, cluster |-> s.cluster]
              \in ClickhouseSalts
        BY DEF ClickhouseSalts
      <4>3. /\ fsalts' \in [Fetches -> ClickhouseSalts]
            /\ \A g \in Fetches : fsalts'[g].match = fmatch[g]
        BY <4>1, <4>2
      <4>4. /\ UNCHANGED <<now, salts, fmatch>>
            /\ \E to \in {"error", "write", "not_found"} : fpc' = [fpc EXCEPT ![f] = to]
        BY <2>4 DEF AskSteam
      <4>5. QED
        BY <4>3, <4>4
    <3>3. QED
      BY <3>1, <3>2
  <2>5. CASE FetchEnds(f)
    BY <2>5 DEF FetchEnds, Answer
  <2>6. QED
    BY <1>1, <2>1, <2>2, <2>3, <2>4, <2>5 DEF FetchStep
<1>2. CASE ~\E f \in Fetches : FetchStep(f)
  <2>1. UNCHANGED <<salts, fvars>> /\ now' >= now
    BY <1>2, OthersLeaveFetches
  <2>2. now' \in Nat
    BY NextTable
  <2>3. QED
    BY <2>1, <2>2 DEF fvars
<1>3. QED
  BY <1>1, <1>2

\* The steps that leave the ingests alone.
LEMMA OthersLeaveIngests ==
  ASSUME [Next]_vars, ~\E i \in Ingests : StartIngest(i) \/ IngestFiltered(i) \/ IngestEnds(i),
         ~\E i \in Ingests, e \in Entries : CheckStep(i, e)
  PROVE  /\ UNCHANGED <<ivars, refused>>
         /\ UNCHANGED slots \/ \E f \in Fetches : WriteFetched(f)
<1>1. ASSUME NEW f \in Fetches, FetchStep(f), ~WriteFetched(f) PROVE UNCHANGED <<ivars, refused, slots>>
  <2>1. CASE Fetch(f) \/ LookInTable(f) \/ LookForInfo(f)
    BY <2>1 DEF Fetch, LookInTable, LookForInfo
  <2>2. CASE Limits(f) \/ AskSteam(f) \/ FetchEnds(f)
    BY <2>2 DEF Limits, AskSteam, FetchEnds
  <2>3. QED
    BY <1>1, <2>1, <2>2 DEF FetchStep
<1>2. ASSUME NEW f \in Fetches, WriteFetched(f) PROVE UNCHANGED <<ivars, refused>>
  BY <1>2 DEF WriteFetched
<1>3. CASE Tick \/ (\E m \in Matches : MatchParsed(m)) \/ UNCHANGED vars
  BY <1>3 DEF Tick, MatchParsed, vars
<1>4. QED
  BY <1>1, <1>2, <1>3 DEF Next

\* Every step keeps the types of the ingests, whose checks follow their order.
LEMMA NextIngest == Typed /\ [Next]_vars => IngestTyped'
<1> SUFFICES ASSUME Typed, [Next]_vars PROVE IngestTyped'
  OBVIOUS
<1> USE ConstantsAssumption DEF Typed, IngestTyped, Querying
<1>1. ASSUME NEW i \in Ingests, StartIngest(i) PROVE IngestTyped'
  <2>1. \A e \in Entries : Len(slots[Key(e)]) \in Nat
    <3>1. \A e \in Entries : slots[Key(e)] \in Seq(SlotType)
      BY EntryKeys DEF SlotsTyped
    <3>2. QED
      BY <3>1, LenProperties
  <2>2. PICK es \in SUBSET Entries :
          /\ checks' = [checks EXCEPT ![i] = [e \in Entries |-> IF e \in es THEN "asked" ELSE "none"]]
          /\ slotOf' = [slotOf EXCEPT ![i] = [e \in Entries |-> Len(slots[Key(e)])]]
    BY <1>1 DEF StartIngest
  <2>3. ipc[i] = "idle" /\ ipc' = [ipc EXCEPT ![i] = "filter"] /\ UNCHANGED <<since, kept>>
    BY <1>1 DEF StartIngest
  <2>4. [e \in Entries |-> Len(slots[Key(e)])] \in [Entries -> Nat]
    BY <2>1
  <2>5. slotOf' \in [Ingests -> [Entries -> Nat]]
    BY <2>2, <2>4
  <2>6. kept[i] = {}
    BY <2>3
  <2>7. QED
    BY <2>2, <2>3, <2>5, <2>6
<1>2. ASSUME NEW i \in Ingests, NEW e \in Entries, CheckStep(i, e) PROVE IngestTyped'
  <2>1. ipc[i] = "filter" /\ ipc' = ipc /\ slotOf' = slotOf
    BY <1>2 DEF CheckStep, CheckCached, CheckQuery, CheckReads, CheckEnds
  <2>2. since' = since \/ since' = [since EXCEPT ![i][e] = now]
    BY <1>2 DEF CheckStep, CheckCached, CheckQuery, CheckReads, CheckEnds
  <2>3. PICK to \in Querying \cup {"done"} :
          /\ checks' = [checks EXCEPT ![i][e] = to]
          /\ kept' = kept \/ (to = "done" /\ kept' = [kept EXCEPT ![i] = @ \cup {e}])
    BY <1>2 DEF CheckStep, CheckCached, CheckQuery, CheckReads, CheckEnds, Decide
  <2>4. checks[i][e] # "done"
    BY <1>2 DEF CheckStep, CheckCached, CheckQuery, CheckReads, CheckEnds
  <2>5. now \in Nat
    BY DEF TableTyped
  <2>6. since' \in [Ingests -> [Entries -> Nat]]
    <3>1. CASE since' = since
      BY <3>1
    <3>2. CASE since' = [since EXCEPT ![i][e] = now]
      BY <2>5, <3>2
    <3>3. QED
      BY <2>2, <3>1, <3>2
  <2>7. kept' \in [Ingests -> SUBSET Entries]
    <3>1. kept[i] \cup {e} \in SUBSET Entries
      OBVIOUS
    <3>2. kept' = kept \/ kept' = [kept EXCEPT ![i] = kept[i] \cup {e}]
      BY <2>3
    <3>3. QED
      BY <3>1, <3>2
  <2>8. checks' \in [Ingests -> [Entries -> Querying \cup {"none", "asked", "done"}]]
    BY <2>3
  <2>9. QED
    BY <2>1, <2>3, <2>4, <2>6, <2>7, <2>8
<1>3. ASSUME NEW i \in Ingests, IngestFiltered(i) \/ IngestEnds(i) PROVE IngestTyped'
  <2>1. /\ UNCHANGED <<checks, slotOf, since, kept>>
        /\ \E to \in {"end", "success", "error"} : ipc' = [ipc EXCEPT ![i] = to]
    BY <1>3 DEF IngestFiltered, IngestEnds
  <2>2. \A e \in Entries : checks[i][e] \in {"none", "done"}
    BY <1>3 DEF IngestFiltered, IngestEnds
  <2>3. QED
    BY <2>1, <2>2
<1>4. CASE UNCHANGED ivars
  BY <1>4 DEF ivars
<1>5. QED
  BY <1>1, <1>2, <1>3, <1>4, OthersLeaveIngests

\* A check that ends fills its own slot, and that of no other.
FillsSlot(i, e) ==
    \E s \in SlotType : slots' = [slots EXCEPT ![Key(e)][slotOf[i][e]] = s]

\* A slot that is filled keeps its place among the slots of its key.
LEMMA FillKeeps ==
  ASSUME slots \in [HasKeys -> Seq(SlotType)], NEW k \in HasKeys, NEW n \in 1..Len(slots[k]),
         NEW s \in SlotType, slots' = [slots EXCEPT ![k][n] = s]
  PROVE  /\ slots' \in [HasKeys -> Seq(SlotType)]
         /\ \A l \in HasKeys : Len(slots'[l]) = Len(slots[l]) /\ (slots[l] # <<>> => slots'[l] # <<>>)
         /\ slots'[k][n] = s
         /\ \A l \in HasKeys : \A o \in 1..Len(slots[l]) :
              <<l, o>> # <<k, n>> => slots'[l][o] = slots[l][o]
<1>1. slots[k] \in Seq(SlotType)
  OBVIOUS
<1> DEFINE t == [slots[k] EXCEPT ![n] = s]
<1>2. t \in Seq(SlotType) /\ Len(t) = Len(slots[k]) /\ t[n] = s
      /\ \A o \in 1..Len(slots[k]) : o # n => t[o] = slots[k][o]
  BY <1>1, ExceptSeq
<1>3. t # <<>>
  BY <1>1, <1>2
<1> HIDE DEF t
<1>4. slots' = [slots EXCEPT ![k] = t]
  BY DEF t
<1>5. QED
  BY <1>1, <1>2, <1>3, <1>4

\* Every step keeps the types of the slots, and every check its slot.
LEMMA NextSlots == Typed /\ [Next]_vars => SlotsTyped'
<1> SUFFICES ASSUME Typed, [Next]_vars PROVE SlotsTyped'
  OBVIOUS
<1> USE ConstantsAssumption, EntryKeys DEF Typed, SlotsTyped
<1>1. ASSUME NEW i \in Ingests, StartIngest(i) PROVE SlotsTyped'
  <2>1. \A e \in Entries : slots[Key(e)] \in Seq(SlotType) /\ slots[Key(e)] # <<>>
    OBVIOUS
  <2>2. \A e \in Entries : Len(slots[Key(e)]) \in 1..Len(slots[Key(e)])
    BY <2>1, EmptySeq, LenProperties
  <2>3. UNCHANGED slots /\ slotOf' = [slotOf EXCEPT ![i] = [e \in Entries |-> Len(slots[Key(e)])]]
        /\ \A j \in Ingests : j # i => checks'[j] = checks[j]
    BY <1>1 DEF StartIngest, IngestTyped
  <2>4. QED
    BY <2>2, <2>3 DEF IngestTyped
<1>2. ASSUME NEW i \in Ingests, NEW e \in Entries, CheckStep(i, e) PROVE SlotsTyped'
  <2>1. slotOf' = slotOf /\ \A j \in Ingests, d \in Entries : checks[j][d] = "none" => checks'[j][d] = "none"
    <3>1. slotOf' = slotOf /\ checks[i][e] # "none" /\ \E to : checks' = [checks EXCEPT ![i][e] = to]
      BY <1>2 DEF CheckStep, CheckCached, CheckQuery, CheckReads, CheckEnds, Decide, Querying
    <3>2. QED
      BY <3>1 DEF IngestTyped
  <2>2. UNCHANGED slots \/ FillsSlot(i, e)
    <3>1. CASE CheckEnds(i, e)
      <4>1. now \in Nat
        BY DEF TableTyped
      <4>2. QED
        BY <3>1, <4>1 DEF CheckEnds, FillsSlot, SlotType
    <3>2. CASE ~CheckEnds(i, e)
      BY <1>2, <3>2 DEF CheckStep, CheckCached, CheckQuery, CheckReads
    <3>3. QED
      BY <3>1, <3>2
  <2>3. CASE UNCHANGED slots
    BY <2>1, <2>3
  <2>4. CASE FillsSlot(i, e)
    <3>1. checks[i][e] # "none"
      BY <1>2 DEF CheckStep, CheckCached, CheckQuery, CheckReads, CheckEnds
    <3>2. Key(e) \in HasKeys /\ slotOf[i][e] \in 1..Len(slots[Key(e)])
      BY <3>1
    <3>3. PICK s \in SlotType : slots' = [slots EXCEPT ![Key(e)][slotOf[i][e]] = s]
      BY <2>4 DEF FillsSlot
    <3>4. slots' \in [HasKeys -> Seq(SlotType)]
          /\ \A l \in HasKeys : Len(slots'[l]) = Len(slots[l]) /\ slots'[l] # <<>>
      BY <3>2, <3>3, FillKeeps
    <3>5. QED
      BY <2>1, <3>4
  <2>5. QED
    BY <2>2, <2>3, <2>4
<1>3. ASSUME NEW es, ResetSlots(es), UNCHANGED <<checks, slotOf>> PROVE SlotsTyped'
  <2>1. /\ slots' \in [HasKeys -> Seq(SlotType)]
        /\ \A k \in HasKeys : Len(slots'[k]) >= Len(slots[k]) /\ slots'[k] # <<>>
    BY <1>3, ResetKeeps
  <2>2. \A k \in HasKeys : Len(slots[k]) \in Nat /\ Len(slots'[k]) \in Nat
    BY <2>1, LenProperties
  <2>3. QED
    BY <1>3, <2>1, <2>2
<1>4. CASE UNCHANGED <<slots, checks, slotOf>>
  BY <1>4
<1>5. ASSUME NEW i \in Ingests, IngestFiltered(i) \/ IngestEnds(i)
      PROVE  UNCHANGED <<checks, slotOf>> /\ (UNCHANGED slots \/ \E es : ResetSlots(es))
  BY <1>5 DEF IngestFiltered, IngestEnds
<1>6. ASSUME NEW f \in Fetches, WriteFetched(f) PROVE UNCHANGED <<checks, slotOf>> /\ \E es : ResetSlots(es)
  BY <1>6 DEF WriteFetched, ivars
<1>7. CASE UNCHANGED ivars /\ UNCHANGED slots
  BY <1>7, <1>4 DEF ivars
<1>8. QED
  BY <1>1, <1>2, <1>3, <1>4, <1>5, <1>6, <1>7, OthersLeaveIngests

\* Every step preserves the types.
LEMMA NextTyped == Typed /\ [Next]_vars => Typed'
  BY NextTable, NextFetch, NextIngest, NextSlots DEF Typed

\* The types hold throughout.
LEMMA TypedInvariance == Spec => []Typed
  BY InitTyped, NextTyped, PTL DEF Spec

\* Every state of the salts has its types: a check that is under way still has the
\* slot it took, whatever was written since.
THEOREM TypeCorrect == Spec => []TypeOK
<1>1. Typed => TypeOK
  BY DEF Typed, TableTyped, FetchTyped, IngestTyped, SlotsTyped, TypeOK
<1>2. QED
  BY <1>1, TypedInvariance, PTL

----------------------------------------------------------------------------
\* Salts that have passed the query or Steam make a URL.
GivesUrl(r) == r.meta = "set" /\ r.cluster # "none"

SaltsGiveUrl ==
    /\ \A m \in Matches : salts[m].at # 0 => GivesUrl(salts[m].row)
    /\ \A f \in Fetches : fpc[f] \in {"write", "end", "ok"} => GivesUrl(fsalts[f])

\* Salts come from a usable row or from Steam and are kept as they are.
LEMMA NextSaltsGiveUrl == Typed /\ SaltsGiveUrl /\ [Next]_vars => SaltsGiveUrl'
<1> SUFFICES ASSUME Typed, SaltsGiveUrl, [Next]_vars PROVE SaltsGiveUrl'
  OBVIOUS
<1> USE DEF Typed, FetchTyped, SaltsGiveUrl, Locking
<1>1. ASSUME NEW f \in Fetches, Fetch(f) PROVE SaltsGiveUrl'
  BY <1>1 DEF Fetch
<1>2. ASSUME NEW f \in Fetches, LookInTable(f) PROVE SaltsGiveUrl'
  <2>1. CASE fpc' = [fpc EXCEPT ![f] = "info"] /\ UNCHANGED <<fsalts, salts>>
    BY <2>1
  <2>2. CASE InTable(row[fmatch[f]]) /\ Answer(f, row[fmatch[f]])
    <3>1. GivesUrl(row[fmatch[f]])
      BY <2>2 DEF InTable, Usable, GivesUrl
    <3>2. QED
      BY <2>2, <3>1 DEF Answer
  <2>3. QED
    BY <1>2, <2>1, <2>2 DEF LookInTable
<1>3. ASSUME NEW f \in Fetches, LookForInfo(f) \/ Limits(f) \/ WriteFetched(f) PROVE SaltsGiveUrl'
  BY <1>3 DEF LookForInfo, Limits, WriteFetched
<1>4. ASSUME NEW f \in Fetches, AskSteam(f) PROVE SaltsGiveUrl'
  BY <1>4 DEF AskSteam, GivesUrl
<1>5. ASSUME NEW f \in Fetches, FetchEnds(f) PROVE SaltsGiveUrl'
  <2>1. GivesUrl(fsalts[f])
    BY <1>5 DEF FetchEnds
  <2>2. QED
    BY <1>5, <2>1 DEF FetchEnds, Answer
<1>6. CASE UNCHANGED <<salts, fvars>>
  BY <1>6 DEF fvars
<1>7. QED
  BY <1>1, <1>2, <1>3, <1>4, <1>5, <1>6, OthersLeaveFetches DEF FetchStep

\* Salts the endpoint answers with make a metadata URL that names a real salt,
\* whatever was submitted, stored and cached.
THEOREM AnswersAlwaysGiveUrl == Spec => []AnswersGiveUrl
<1>1. Init => SaltsGiveUrl
  BY DEF Init, SaltsGiveUrl
<1>2. SaltsGiveUrl => AnswersGiveUrl
  BY DEF SaltsGiveUrl, AnswersGiveUrl, GivesUrl
<1>3. QED
  BY <1>1, <1>2, NextSaltsGiveUrl, TypedInvariance, PTL DEF Spec

----------------------------------------------------------------------------
\* One call at a time looks for the salts of a match.
OneFetchPerMatch ==
    \A f, g \in Fetches :
        fpc[f] \in Locking /\ fpc[g] \in Locking /\ fmatch[f] = fmatch[g] => f = g

\* A call that missed the table, for a match whose next success is owed already.
PastTable(m) == \E f \in Fetches : fmatch[f] = m /\ fpc[f] \in Locking \ {"table"}

Accounted ==
    \A m \in Matches :
        /\ fetched[m] <= 1 + lapses[m]
        /\ ~Usable(row[m]) \/ PastTable(m) => fetched[m] <= lapses[m]

\* The lock of a match lets one fetch at a time get past it.
LEMMA NextOneFetch == Typed /\ OneFetchPerMatch /\ [Next]_vars => OneFetchPerMatch'
<1> SUFFICES ASSUME Typed, OneFetchPerMatch, [Next]_vars PROVE OneFetchPerMatch'
  OBVIOUS
<1> USE DEF Typed, FetchTyped, OneFetchPerMatch, Locking
<1>1. ASSUME NEW f \in Fetches, Fetch(f) PROVE OneFetchPerMatch'
  BY <1>1 DEF Fetch, MatchLocked
<1>2. ASSUME NEW f \in Fetches, FetchStep(f), ~Fetch(f) PROVE OneFetchPerMatch'
  <2>1. fmatch' = fmatch /\ fpc[f] \in Locking /\ \E to : fpc' = [fpc EXCEPT ![f] = to]
    BY <1>2 DEF FetchStep, LookInTable, LookForInfo, Limits, AskSteam, WriteFetched, FetchEnds, Answer
  <2>2. QED
    BY <2>1
<1>3. CASE UNCHANGED fvars
  BY <1>3 DEF fvars
<1>4. QED
  BY <1>1, <1>2, <1>3, OthersLeaveFetches

\* Another success of Steam for a match follows a lapse: the row of the one before
\* was lost or not stored.
LEMMA NextAccounted == Typed /\ OneFetchPerMatch /\ Accounted /\ [Next]_vars => Accounted'
<1> SUFFICES ASSUME Typed, OneFetchPerMatch, Accounted, [Next]_vars PROVE Accounted'
  OBVIOUS
<1>0. /\ fetched \in [Matches -> Nat] /\ lapses \in [Matches -> Nat]
      /\ fmatch \in [Fetches -> Matches] /\ DOMAIN fpc = Fetches
  BY DEF Typed, TableTyped, FetchTyped
<1>1. ASSUME NEW f \in Fetches, FetchStep(f), ~LookInTable(f), ~FetchEnds(f) PROVE Accounted'
  <2>1. UNCHANGED <<row, fmatch, fetched, lapses>>
    BY <1>1 DEF FetchStep, Fetch, LookForInfo, Limits, AskSteam, WriteFetched
  <2>2. PICK to : fpc' = [fpc EXCEPT ![f] = to] /\ (to \in Locking \ {"table"} => fpc[f] \in Locking \ {"table"})
    BY <1>1 DEF FetchStep, Fetch, LookForInfo, Limits, AskSteam, WriteFetched, Locking
  <2>3. \A m \in Matches : PastTable(m)' => PastTable(m)
    BY <1>0, <2>1, <2>2 DEF PastTable
  <2>4. QED
    BY <2>1, <2>3 DEF Accounted
<1>2. ASSUME NEW f \in Fetches, LookInTable(f) PROVE Accounted'
  <2> DEFINE m == fmatch[f]
  <2>1. m \in Matches /\ UNCHANGED <<row, fmatch, fetched>>
    BY <1>0, <1>2 DEF LookInTable
  <2>2. CASE fpc' = [fpc EXCEPT ![f] = "ok"] /\ UNCHANGED lapses
    <3>1. \A n \in Matches : PastTable(n)' => PastTable(n)
      BY <1>0, <2>1, <2>2 DEF PastTable, Locking
    <3>2. QED
      BY <2>1, <2>2, <3>1 DEF Accounted
  <2>3. CASE /\ fpc' = [fpc EXCEPT ![f] = "info"]
             /\ lapses' = [lapses EXCEPT ![m] = IF Usable(row[m]) THEN @ + 1 ELSE @]
    <3>1. \A n \in Matches : n # m => (PastTable(n)' => PastTable(n)) /\ lapses'[n] = lapses[n]
      BY <1>0, <2>1, <2>3 DEF PastTable
    <3>2. fetched[m] <= lapses'[m] /\ lapses'[m] \in Nat
      BY <1>0, <2>1, <2>3 DEF Accounted
    <3>3. ASSUME NEW n \in Matches
          PROVE  /\ fetched[n] <= 1 + lapses'[n]
                 /\ ~Usable(row[n]) \/ PastTable(n)' => fetched[n] <= lapses'[n]
      <4>1. CASE n = m
        <5>1. fetched[m] \in Nat
          BY <1>0, <2>1
        <5>2. QED
          BY <3>2, <4>1, <5>1
      <4>2. CASE n # m
        BY <3>1, <4>2 DEF Accounted
      <4>3. QED
        BY <4>1, <4>2
    <3>4. QED
      BY <2>1, <3>3 DEF Accounted
  <2>4. QED
    BY <1>2, <2>2, <2>3 DEF LookInTable, Answer
<1>3. ASSUME NEW f \in Fetches, FetchEnds(f) PROVE Accounted'
  <2>0. PICK m \in Matches : m = fmatch[f]
    BY <1>0
  <2>1. /\ fpc[f] = "end" /\ fmatch' = fmatch /\ fpc' = [fpc EXCEPT ![f] = "ok"]
        /\ fetched' = [fetched EXCEPT ![m] = @ + 1]
    BY <1>0, <1>3, <2>0 DEF FetchEnds, Answer
  <2>2. PICK inserted \in BOOLEAN :
          /\ row' = IF inserted THEN [row EXCEPT ![m] = fsalts[f]] ELSE row
          /\ lapses' = IF inserted /\ Usable(fsalts[f]) THEN lapses ELSE [lapses EXCEPT ![m] = @ + 1]
    BY <1>3, <2>0 DEF FetchEnds
  <2>3. PastTable(m) /\ ~PastTable(m)'
    BY <1>0, <2>0, <2>1 DEF PastTable, OneFetchPerMatch, Locking
  <2>4. \A n \in Matches : n # m => (PastTable(n)' => PastTable(n))
    BY <1>0, <2>0, <2>1 DEF PastTable
  <2>5. \A n \in Matches : n # m => row'[n] = row[n] /\ lapses'[n] = lapses[n] /\ fetched'[n] = fetched[n]
    BY <1>0, <2>0, <2>1, <2>2 DEF Typed, TableTyped
  <2>6. fetched[m] <= lapses[m] /\ fetched'[m] = fetched[m] + 1
    BY <1>0, <2>0, <2>1, <2>3 DEF Accounted
  <2>7. \/ Usable(row'[m]) /\ lapses'[m] = lapses[m]
        \/ lapses'[m] = lapses[m] + 1
    BY <1>0, <2>0, <2>1, <2>2 DEF Typed, TableTyped
  <2>8. fetched[m] \in Nat /\ lapses[m] \in Nat
    BY <1>0, <2>0, <2>1
  <2>9. /\ fetched'[m] <= 1 + lapses'[m]
        /\ ~Usable(row'[m]) \/ PastTable(m)' => fetched'[m] <= lapses'[m]
    BY <2>3, <2>6, <2>7, <2>8
  <2>10. ASSUME NEW n \in Matches, n # m
         PROVE  /\ fetched'[n] <= 1 + lapses'[n]
                /\ ~Usable(row'[n]) \/ PastTable(n)' => fetched'[n] <= lapses'[n]
    BY <2>4, <2>5, <2>10 DEF Accounted
  <2>11. QED
    BY <2>9, <2>10 DEF Accounted
<1>4. ASSUME NEW i \in Ingests, IngestEnds(i) PROVE Accounted'
  <2>1. UNCHANGED <<fpc, fmatch, fetched, now>> /\ (NothingStored \/ StoreRows(kept[i]))
    BY <1>4 DEF IngestEnds, fvars
  <2>2. \A m \in Matches : PastTable(m)' = PastTable(m)
    BY <2>1 DEF PastTable
  <2>3. CASE NothingStored
    BY <2>1, <2>2, <2>3 DEF NothingStored, Accounted
  <2>4. CASE StoreRows(kept[i])
    <3>1. kept[i] \in SUBSET ClickhouseSalts
      BY EntryKeys DEF Typed, IngestTyped
    <3>2. lapses' = [m \in Matches |->
            IF Usable(row[m]) /\ ~Usable(row'[m]) THEN lapses[m] + 1 ELSE lapses[m]]
      BY <2>1, <2>4, <3>1, StoreLeaves DEF Typed
    <3>3. QED
      BY <1>0, <2>1, <2>2, <3>2 DEF Accounted
  <2>5. QED
    BY <2>1, <2>3, <2>4
<1>5. CASE UNCHANGED <<row, fpc, fmatch, fetched, lapses>>
  BY <1>5 DEF Accounted, PastTable
<1>6. QED
  <2>1. CASE \E f \in Fetches : FetchStep(f)
    BY <1>1, <1>2, <1>3, <2>1
  <2>2. CASE \E i \in Ingests : IngestEnds(i)
    BY <1>4, <2>2
  <2>3. CASE (~\E f \in Fetches : FetchStep(f)) /\ (~\E i \in Ingests : IngestEnds(i)) /\ Next
    <3>1. UNCHANGED <<fpc, fmatch>>
      BY <2>3, OthersLeaveFetches DEF fvars
    <3>2. UNCHANGED <<row, fetched, lapses>>
      BY <2>3, TableSteps DEF FetchStep, TableStays, Tick
    <3>3. QED
      BY <1>5, <3>1, <3>2
  <2>4. CASE UNCHANGED vars
    BY <1>5, <2>4 DEF vars, fvars
  <2>5. QED
    BY <2>1, <2>2, <2>3, <2>4

\* Each successful fetch of a match beyond the first is owed to a row that was
\* lost, never stored, or not read.
THEOREM FetchesAlwaysAccountedFor == Spec => []FetchesAccountedFor
<1>1. Init => OneFetchPerMatch /\ Accounted
  BY DEF Init, OneFetchPerMatch, Accounted, Locking, PastTable
<1>2. Accounted => FetchesAccountedFor
  BY DEF Accounted, FetchesAccountedFor
<1>3. QED
  BY <1>1, <1>2, NextOneFetch, NextAccounted, TypedInvariance, PTL DEF Spec

----------------------------------------------------------------------------
\* The kinds of salts are fields of a row.
LEMMA KindFields ==
  /\ "meta" \in Kinds /\ "replay" \in Kinds
  /\ \A r \in ClickhouseSalts : r["meta"] = r.meta /\ r["replay"] = r.replay
  BY DEF Kinds, ClickhouseSalts

\* The table holds a salt now, or the time it last did is on record.
HeldNow == \A m \in Matches : \A k \in Kinds : row[m][k] = "set" => heldAt[m][k] = now

\* No time on record is lost.
HeldGrows == \A m \in Matches : \A k \in Kinds : heldAt[m][k] <= heldAt'[m][k]

\* What the table holds is on record as held now, and records are not lost.
LEMMA NextHeld == Typed /\ HeldNow /\ [Next]_vars => HeldNow' /\ HeldGrows
<1> SUFFICES ASSUME Typed, HeldNow, [Next]_vars PROVE HeldNow' /\ HeldGrows
  OBVIOUS
<1> USE ConstantsAssumption
<1>0. /\ now \in Nat /\ row \in [Matches -> ClickhouseSalts] /\ heldAt \in [Matches -> [Kinds -> 0..now]]
  BY DEF Typed, TableTyped
<1>1. CASE UNCHANGED <<now, row, heldAt>>
  BY <1>0, <1>1 DEF HeldNow, HeldGrows
<1>2. ASSUME NEW f \in Fetches, FetchEnds(f) PROVE HeldNow' /\ HeldGrows
  <2>0. PICK m \in Matches : m = fmatch[f]
    BY DEF Typed, FetchTyped
  <2>1. now' = now /\ heldAt' = [heldAt EXCEPT ![m] = Held(row'[m], @, now)]
        /\ (row' = row \/ row' = [row EXCEPT ![m] = fsalts[f]])
    BY <1>2, <2>0 DEF FetchEnds
  <2>2. row' \in [Matches -> ClickhouseSalts]
    BY NextTable DEF TableTyped
  <2>3. \A k \in Kinds :
          /\ heldAt'[m][k] >= heldAt[m][k]
          /\ row'[m][k] = "set" => heldAt'[m][k] = now
    <3>1. row'[m] \in ClickhouseSalts /\ heldAt[m] \in [Kinds -> 0..now]
      BY <1>0, <2>2
    <3>2. heldAt'[m] = Held(row'[m], heldAt[m], now)
      BY <1>0, <2>1
    <3>3. QED
      BY <1>0, <3>1, <3>2, HeldTyped
  <2>4. \A n \in Matches : n # m => heldAt'[n] = heldAt[n] /\ row'[n] = row[n]
    BY <1>0, <2>1
  <2>5. QED
    BY <1>0, <2>1, <2>3, <2>4 DEF HeldNow, HeldGrows
<1>3. ASSUME NEW i \in Ingests, IngestEnds(i), StoreRows(kept[i]) PROVE HeldNow' /\ HeldGrows
  <2>1. now' = now /\ kept[i] \in SUBSET ClickhouseSalts
    BY <1>3, EntryKeys DEF IngestEnds, Typed, IngestTyped
  <2>2. /\ row' \in [Matches -> ClickhouseSalts]
        /\ heldAt' = [m \in Matches |-> Held(row'[m], heldAt[m], now)]
    BY <1>3, <2>1, StoreLeaves DEF Typed
  <2>3. \A m \in Matches, k \in Kinds :
          /\ heldAt'[m][k] >= heldAt[m][k]
          /\ row'[m][k] = "set" => heldAt'[m][k] = now
    BY <1>0, <2>2, HeldTyped
  <2>4. QED
    BY <1>0, <2>1, <2>3 DEF HeldNow, HeldGrows
<1>4. CASE Tick
  <2>1. now' = now + 1 /\ row' = row /\ heldAt' = [m \in Matches |-> Held(row[m], heldAt[m], now')]
    BY <1>4 DEF Tick
  <2>2. \A m \in Matches : heldAt[m] \in [Kinds -> 0..now']
    BY <1>0, <2>1
  <2>3. ASSUME NEW m \in Matches
        PROVE  \A k \in Kinds :
                 /\ heldAt'[m][k] >= heldAt[m][k]
                 /\ row[m][k] = "set" => heldAt'[m][k] = now'
    <3>1. now' \in Nat /\ row[m] \in ClickhouseSalts /\ heldAt[m] \in [Kinds -> 0..now']
      BY <1>0, <2>1, <2>2
    <3>2. heldAt'[m] = Held(row[m], heldAt[m], now')
      BY <2>1
    <3>3. QED
      BY <3>1, <3>2, HeldTyped
  <2>4. QED
    BY <1>0, <2>1, <2>3 DEF HeldNow, HeldGrows
<1>5. QED
  <2>1. ASSUME NEW i \in Ingests, IngestEnds(i), ~StoreRows(kept[i]) PROVE UNCHANGED <<now, row, heldAt>>
    BY <2>1 DEF IngestEnds, NothingStored
  <2>2. CASE Next
    BY <1>1, <1>2, <1>3, <1>4, <2>1, <2>2, TableSteps DEF TableStays
  <2>3. CASE UNCHANGED vars
    BY <1>1, <2>3 DEF vars
  <2>4. QED
    BY <2>2, <2>3

\* The table held a salt that the entry brings, at time t or later.
Grounds(e, t) ==
    \E k \in Kinds : e[k] # "none" /\ heldAt[e.match][k] # 0 /\ t <= heldAt[e.match][k]

\* Grounds for a refusal do not go away.
LEMMA GroundsStay ==
  ASSUME Typed, TableTyped', HeldGrows, NEW e \in Entries, NEW t \in Nat, Grounds(e, t)
  PROVE  Grounds(e, t)'
<1>1. PICK k \in Kinds : e[k] # "none" /\ heldAt[e.match][k] # 0 /\ t <= heldAt[e.match][k]
  BY DEF Grounds
<1>2. e.match \in Matches
  BY EntryKeys
<1>3. heldAt[e.match][k] \in Nat /\ heldAt'[e.match][k] \in Nat
  BY <1>2 DEF Typed, TableTyped
<1>4. heldAt[e.match][k] <= heldAt'[e.match][k]
  BY <1>2 DEF HeldGrows
<1>5. heldAt'[e.match][k] # 0 /\ t <= heldAt'[e.match][k]
  BY <1>1, <1>3, <1>4
<1>6. QED
  BY <1>1, <1>5 DEF Grounds

\* A check that is under way began no longer than a query ago, and one that has
\* read a salt read it since it began.
ChecksGrounded ==
    \A i \in Ingests, e \in Entries :
        /\ checks[i][e] \in Querying => since[i][e] <= now /\ now <= since[i][e] + MaxQuery
        /\ checks[i][e] = "known" => Grounds(e, since[i][e])

\* A slot says yes for salts that were held at most a query before it was filled.
SlotsGrounded ==
    \A e \in Entries : \A n \in 1..Len(slots[Key(e)]) :
        slots[Key(e)][n].known =>
            \E t \in Nat : Grounds(e, t) /\ slots[Key(e)][n].at <= t + MaxQuery

\* Entries with the same key have the same grounds.
LEMMA SameKey ==
  ASSUME NEW d \in Entries, NEW e \in Entries, Key(d) = Key(e), NEW t, Grounds(e, t)
  PROVE  Grounds(d, t)
<1>1. d.match = e.match /\ (d.meta # "none") = (e.meta # "none") /\ (d.replay # "none") = (e.replay # "none")
  BY DEF Key
<1>2. \A k \in Kinds : e[k] # "none" => d[k] # "none"
  BY <1>1, KindFields, EntryKeys DEF Kinds
<1>3. QED
  BY <1>1, <1>2 DEF Grounds

\* A query that says yes has read a salt the entry brings.
LEMMA ReadGrounds ==
  ASSUME Typed, HeldNow, NEW e \in Entries, HasSalt(row[e.match], e), NEW t \in Nat, t <= now
  PROVE  Grounds(e, t)
<1>1. e \in ClickhouseSalts /\ e.match \in Matches /\ row[e.match] \in ClickhouseSalts
  BY EntryKeys DEF Typed, TableTyped
<1>2. now \in Nat \ {0}
  BY ConstantsAssumption DEF Typed, TableTyped
<1>3. PICK k \in Kinds : e[k] # "none" /\ row[e.match][k] = "set"
  BY <1>1, KindFields DEF HasSalt
<1>4. heldAt[e.match][k] = now
  BY <1>1, <1>3 DEF HeldNow
<1>5. QED
  BY <1>2, <1>3, <1>4 DEF Grounds

\* A check that finds a salt finds one that is held, and none is under way longer
\* than a query.
LEMMA NextChecksGrounded ==
  Typed /\ HeldNow /\ ChecksGrounded /\ [Next]_vars => ChecksGrounded'
<1> SUFFICES ASSUME Typed, HeldNow, ChecksGrounded, [Next]_vars PROVE ChecksGrounded'
  OBVIOUS
<1>0. /\ now \in Nat /\ MaxQuery \in Nat
      /\ checks \in [Ingests -> [Entries -> Querying \cup {"none", "asked", "done"}]]
      /\ since \in [Ingests -> [Entries -> Nat]]
  BY ConstantsAssumption DEF Typed, TableTyped, IngestTyped
<1>1. TableTyped' /\ HeldGrows
  BY NextTable, NextHeld
<1>2. ASSUME NEW i \in Ingests, NEW e \in Entries, Grounds(e, since[i][e]) PROVE Grounds(e, since[i][e])'
          \/ since' # since
  BY <1>0, <1>1, <1>2, GroundsStay DEF Grounds
<1>3. ASSUME NEW i \in Ingests, NEW e \in Entries, CheckStep(i, e) PROVE ChecksGrounded'
  <2>1. now' = now
    BY <1>3 DEF CheckStep, CheckCached, CheckQuery, CheckReads, CheckEnds
  <2>2. CASE CheckQuery(i, e)
    <3>1. /\ checks' = [checks EXCEPT ![i][e] = "query"] /\ since' = [since EXCEPT ![i][e] = now]
          /\ heldAt' = heldAt
      BY <2>2 DEF CheckQuery
    <3>2. ASSUME NEW j \in Ingests, NEW d \in Entries
          PROVE  \/ checks'[j][d] = "query" /\ since'[j][d] = now
                 \/ checks'[j][d] = checks[j][d] /\ since'[j][d] = since[j][d]
      BY <1>0, <3>1
    <3>3. QED
      BY <1>0, <2>1, <3>1, <3>2 DEF ChecksGrounded, Grounds
  <2>3. CASE CheckReads(i, e)
    <3>1. /\ checks[i][e] = "query" /\ since' = since /\ heldAt' = heldAt
          /\ checks' = [checks EXCEPT ![i][e] = IF HasSalt(row[e.match], e) THEN "known" ELSE "new"]
      BY <2>3 DEF CheckReads
    <3>2. since[i][e] \in Nat /\ since[i][e] <= now /\ now <= since[i][e] + MaxQuery
      BY <1>0, <3>1 DEF ChecksGrounded, Querying
    <3>3. HasSalt(row[e.match], e) => Grounds(e, since[i][e])
      BY <3>2, ReadGrounds
    <3>4. ASSUME NEW j \in Ingests, NEW d \in Entries
          PROVE  \/ checks'[j][d] = checks[j][d]
                 \/ /\ j = i /\ d = e
                    /\ checks'[j][d] = "known" => HasSalt(row[e.match], e)
      BY <1>0, <3>1
    <3>5. QED
      BY <2>1, <3>1, <3>2, <3>3, <3>4 DEF ChecksGrounded, Grounds
  <2>4. CASE CheckCached(i, e) \/ CheckEnds(i, e)
    <3>1. checks' = [checks EXCEPT ![i][e] = "done"] /\ since' = since /\ heldAt' = heldAt
      BY <2>4 DEF CheckCached, CheckEnds, Decide
    <3>2. \A j \in Ingests, d \in Entries : checks'[j][d] \in {"done", checks[j][d]}
      BY <1>0, <3>1
    <3>3. QED
      BY <2>1, <3>1, <3>2 DEF ChecksGrounded, Grounds, Querying
  <2>5. QED
    BY <1>3, <2>2, <2>3, <2>4 DEF CheckStep
<1>4. ASSUME NEW i \in Ingests, StartIngest(i) PROVE ChecksGrounded'
  <2>1. UNCHANGED <<now, since, heldAt>>
    BY <1>4 DEF StartIngest
  <2>2. \A j \in Ingests, d \in Entries : checks'[j][d] \in {"asked", "none", checks[j][d]}
    BY <1>0, <1>4 DEF StartIngest
  <2>3. QED
    BY <2>1, <2>2 DEF ChecksGrounded, Grounds, Querying
<1>5. ASSUME UNCHANGED <<now, checks, since>> PROVE ChecksGrounded'
  BY <1>2, <1>5 DEF ChecksGrounded
<1>6. CASE Tick
  <2>1. /\ now' = now + 1 /\ UNCHANGED <<checks, since>>
        /\ \A i \in Ingests, e \in Entries : checks[i][e] \in Querying => now < since[i][e] + MaxQuery
    BY <1>6 DEF Tick, ivars
  <2>2. QED
    BY <1>0, <1>2, <2>1 DEF ChecksGrounded
<1>7. QED
  <2>1. ASSUME NEW i \in Ingests, IngestFiltered(i) \/ IngestEnds(i) PROVE UNCHANGED <<now, checks, since>>
    BY <2>1 DEF IngestFiltered, IngestEnds
  <2>2. ASSUME NEW f \in Fetches, FetchStep(f) PROVE UNCHANGED <<now, checks, since>>
    BY <2>2 DEF FetchStep, Fetch, LookInTable, LookForInfo, Limits, AskSteam, WriteFetched, FetchEnds, ivars
  <2>3. CASE (\E m \in Matches : MatchParsed(m)) \/ UNCHANGED vars
    BY <1>5, <2>3 DEF MatchParsed, vars, ivars
  <2>4. QED
    BY <1>3, <1>4, <1>5, <1>6, <2>1, <2>2, <2>3 DEF Next

\* A slot is filled with what a check found.
LEMMA NextSlotsGrounded ==
  Typed /\ HeldNow /\ ChecksGrounded /\ SlotsGrounded /\ [Next]_vars => SlotsGrounded'
<1> SUFFICES ASSUME Typed, HeldNow, ChecksGrounded, SlotsGrounded, [Next]_vars PROVE SlotsGrounded'
  OBVIOUS
<1>0. /\ slots \in [HasKeys -> Seq(SlotType)] /\ TableTyped' /\ HeldGrows
      /\ \A e \in Entries : Key(e) \in HasKeys
  BY NextTable, NextHeld, EntryKeys DEF Typed, SlotsTyped
<1>1. CASE UNCHANGED slots
  BY <1>0, <1>1, GroundsStay DEF SlotsGrounded
<1>2. ASSUME NEW es, ResetSlots(es) PROVE SlotsGrounded'
  <2>1. ASSUME NEW e \in Entries, NEW n \in 1..Len(slots'[Key(e)]), slots'[Key(e)][n].known
        PROVE  \E t \in Nat : Grounds(e, t)' /\ slots'[Key(e)][n].at <= t + MaxQuery
    <3>1. Len(slots[Key(e)]) \in Nat /\ slots'[Key(e)] \in Seq(SlotType)
      BY <1>0, <1>2, ResetKeeps, LenProperties
    <3>2. n <= Len(slots[Key(e)])
      <4>1. Len(slots'[Key(e)]) \in Nat /\ n \in Nat
        BY <2>1, <3>1, LenProperties
      <4>2. Key(e) \in HasKeys /\ (n > Len(slots[Key(e)]) => slots'[Key(e)][n] = EmptySlot)
        BY <1>0, <1>2, <2>1, ResetKeeps
      <4>3. ~EmptySlot.known
        BY DEF EmptySlot
      <4>4. QED
        BY <2>1, <3>1, <4>1, <4>2, <4>3
    <3>3. n \in 1..Len(slots[Key(e)])
      BY <3>1, <3>2
    <3>4. slots'[Key(e)][n] = slots[Key(e)][n]
      BY <1>0, <1>2, <3>3, ResetKeeps
    <3>5. QED
      BY <1>0, <2>1, <3>3, <3>4, GroundsStay DEF SlotsGrounded
  <2>2. QED
    BY <2>1 DEF SlotsGrounded, Grounds
<1>3. ASSUME NEW i \in Ingests, NEW e \in Entries, CheckEnds(i, e) PROVE SlotsGrounded'
  <2>1. PICK known \in {checks[i][e] = "known", FALSE} :
          slots' = [slots EXCEPT ![Key(e)][slotOf[i][e]] = [at |-> now, known |-> known]]
    BY <1>3 DEF CheckEnds
  <2>2. now \in Nat /\ known \in BOOLEAN /\ (known => checks[i][e] = "known") /\ heldAt' = heldAt
    <3>1. now \in Nat
      BY DEF Typed, TableTyped
    <3>2. heldAt' = heldAt /\ checks[i][e] \in {"known", "new"}
      BY <1>3 DEF CheckEnds
    <3>3. known \in BOOLEAN /\ (known => checks[i][e] = "known")
      BY <2>1, Zenon
    <3>4. QED
      BY <3>1, <3>2, <3>3
  <2>3. [at |-> now, known |-> known] \in SlotType /\ slotOf[i][e] \in 1..Len(slots[Key(e)])
    BY <1>3, <2>2 DEF CheckEnds, SlotType, Typed, SlotsTyped
  <2>4. /\ \A l \in HasKeys : Len(slots'[l]) = Len(slots[l])
        /\ slots'[Key(e)][slotOf[i][e]] = [at |-> now, known |-> known]
        /\ \A l \in HasKeys : \A o \in 1..Len(slots[l]) :
             <<l, o>> # <<Key(e), slotOf[i][e]>> => slots'[l][o] = slots[l][o]
    BY <1>0, <2>1, <2>3, FillKeeps
  <2>5. ASSUME NEW d \in Entries, NEW n \in 1..Len(slots'[Key(d)]), slots'[Key(d)][n].known
        PROVE  \E t \in Nat : Grounds(d, t) /\ slots'[Key(d)][n].at <= t + MaxQuery
    <3>1. n \in 1..Len(slots[Key(d)])
      BY <1>0, <2>4
    <3>2. CASE <<Key(d), n>> = <<Key(e), slotOf[i][e]>>
      <4>1. checks[i][e] = "known" /\ slots'[Key(d)][n].at = now
        <5>1. slots'[Key(d)][n] = [at |-> now, known |-> known]
          BY <2>4, <3>2
        <5>2. known
          BY <2>5, <5>1
        <5>3. QED
          BY <2>2, <5>1, <5>2
      <4>2. since[i][e] \in Nat /\ now <= since[i][e] + MaxQuery /\ Grounds(e, since[i][e])
        BY <4>1 DEF ChecksGrounded, Querying, Typed, IngestTyped
      <4>3. Grounds(d, since[i][e])
        BY <3>2, <4>2, SameKey
      <4>4. QED
        BY <4>1, <4>2, <4>3
    <3>3. CASE <<Key(d), n>> # <<Key(e), slotOf[i][e]>>
      BY <1>0, <2>4, <2>5, <3>1, <3>3 DEF SlotsGrounded
    <3>4. QED
      BY <3>2, <3>3
  <2>6. QED
    BY <2>2, <2>5 DEF SlotsGrounded, Grounds
<1>4. QED
  <2>1. ASSUME NEW i \in Ingests, NEW e \in Entries, CheckStep(i, e), ~CheckEnds(i, e) PROVE UNCHANGED slots
    BY <2>1 DEF CheckStep, CheckCached, CheckQuery, CheckReads
  <2>2. ASSUME NEW i \in Ingests, StartIngest(i) \/ IngestFiltered(i) \/ IngestEnds(i)
        PROVE  UNCHANGED slots \/ \E es : ResetSlots(es)
    BY <2>2 DEF StartIngest, IngestFiltered, IngestEnds
  <2>3. ASSUME NEW f \in Fetches, WriteFetched(f) PROVE \E es : ResetSlots(es)
    BY <2>3 DEF WriteFetched
  <2>4. QED
    BY <1>1, <1>2, <1>3, <2>1, <2>2, <2>3, OthersLeaveIngests

\* An entry that is not kept once it is checked was found in the table, or in a slot
\* filled from the table, and what is refused stays on record.
LEMMA RefusalGrounds ==
  ASSUME Typed, ChecksGrounded, SlotsGrounded, NEW i \in Ingests, NEW e \in Entries
  PROVE  /\ checks[i][e] = "known" => Grounds(e, since[i][e]) /\ now <= since[i][e] + MaxQuery
         /\ checks[i][e] = "asked" /\ SlotAlive(i, e) /\ Slot(i, e).known =>
              \E t \in Nat : Grounds(e, t) /\ now <= t + HasTtl + MaxQuery
<1>1. checks[i][e] = "known" => Grounds(e, since[i][e]) /\ now <= since[i][e] + MaxQuery
  BY DEF ChecksGrounded, Querying
<1>2. ASSUME checks[i][e] = "asked", SlotAlive(i, e), Slot(i, e).known
      PROVE  \E t \in Nat : Grounds(e, t) /\ now <= t + HasTtl + MaxQuery
  <2>1. slotOf[i][e] \in 1..Len(slots[Key(e)]) /\ slots[Key(e)] \in Seq(SlotType)
    BY <1>2, EntryKeys DEF Typed, SlotsTyped
  <2>2. PICK t \in Nat : Grounds(e, t) /\ Slot(i, e).at <= t + MaxQuery
    BY <1>2, <2>1 DEF SlotsGrounded, Slot
  <2>3. Slot(i, e).at \in Nat
    <3>1. Slot(i, e) \in SlotType
      BY <2>1, ElementOfSeq DEF Slot
    <3>2. QED
      BY <3>1 DEF SlotType
  <2>4. now < Slot(i, e).at + HasTtl
    BY <1>2 DEF SlotAlive
  <2>5. now \in Nat /\ HasTtl \in Nat /\ MaxQuery \in Nat
    BY ConstantsAssumption DEF Typed, TableTyped
  <2>6. QED
    BY <2>2, <2>3, <2>4, <2>5
<1>3. QED
  BY <1>1, <1>2

\* What a check leaves behind when it decides.
LEMMA Decisions ==
  ASSUME Typed, ChecksGrounded, SlotsGrounded, NEW i \in Ingests, NEW e \in Entries,
         CheckStep(i, e)
  PROVE  \/ /\ refused' = refused /\ kept' = kept
            /\ checks[i][e] # "done" /\ \E to \in Querying : checks' = [checks EXCEPT ![i][e] = to]
         \/ \E known \in BOOLEAN :
              /\ Decide(i, e, known)
              /\ known => \E t \in Nat : Grounds(e, t) /\ now <= t + HasTtl + MaxQuery
<1>1. CASE CheckCached(i, e)
  <2>1. checks[i][e] = "asked" /\ SlotAlive(i, e) /\ Decide(i, e, Slot(i, e).known)
    BY <1>1 DEF CheckCached
  <2>2. Slot(i, e).known \in BOOLEAN
    <3>1. slotOf[i][e] \in 1..Len(slots[Key(e)]) /\ slots[Key(e)] \in Seq(SlotType)
      BY <2>1, EntryKeys DEF Typed, SlotsTyped
    <3>2. Slot(i, e) \in SlotType
      BY <3>1, ElementOfSeq DEF Slot
    <3>3. QED
      BY <3>2 DEF SlotType
  <2>3. Slot(i, e).known => \E t \in Nat : Grounds(e, t) /\ now <= t + HasTtl + MaxQuery
    BY <2>1, RefusalGrounds
  <2>4. QED
    BY <2>1, <2>2, <2>3
<1>2. CASE CheckQuery(i, e) \/ CheckReads(i, e)
  BY <1>2 DEF CheckQuery, CheckReads, Querying
<1>3. CASE CheckEnds(i, e)
  <2>1. PICK known \in {checks[i][e] = "known", FALSE} : Decide(i, e, known)
    BY <1>3 DEF CheckEnds
  <2>2. known \in BOOLEAN /\ (known => checks[i][e] = "known")
    BY <2>1, Zenon
  <2>3. ASSUME checks[i][e] = "known"
        PROVE  \E t \in Nat : Grounds(e, t) /\ now <= t + HasTtl + MaxQuery
    <3>1. since[i][e] \in Nat /\ HasTtl \in Nat /\ MaxQuery \in Nat /\ now \in Nat
      BY ConstantsAssumption DEF Typed, TableTyped, IngestTyped
    <3>2. Grounds(e, since[i][e]) /\ now <= since[i][e] + MaxQuery
      BY <2>3, RefusalGrounds
    <3>3. now <= since[i][e] + HasTtl + MaxQuery
      BY <3>1, <3>2
    <3>4. QED
      BY <3>1, <3>2, <3>3
  <2>4. QED
    BY <2>1, <2>2, <2>3
<1>4. QED
  BY <1>1, <1>2, <1>3 DEF CheckStep

\* An entry is refused by a check, or by a slot a check has filled.
LEMMA NextRefusals ==
  Typed /\ ChecksGrounded /\ SlotsGrounded /\ RefusalsGrounded /\ [Next]_vars => RefusalsGrounded'
<1> SUFFICES ASSUME Typed, ChecksGrounded, SlotsGrounded, RefusalsGrounded, [Next]_vars
             PROVE  RefusalsGrounded'
  OBVIOUS
<1>1. CASE refused' = refused
  BY <1>1 DEF RefusalsGrounded
<1>2. ASSUME NEW i \in Ingests, NEW e \in Entries, CheckStep(i, e), refused' # refused
      PROVE  RefusalsGrounded'
  <2>1. PICK t \in Nat : /\ Grounds(e, t) /\ now <= t + HasTtl + MaxQuery
                         /\ refused' = refused \cup {[entry |-> e, at |-> now, held |-> heldAt[e.match]]}
    BY <1>2, Decisions DEF Decide
  <2>2. PICK k \in Kinds : e[k] # "none" /\ heldAt[e.match][k] # 0 /\ t <= heldAt[e.match][k]
    BY <2>1 DEF Grounds
  <2>3. heldAt[e.match][k] \in Nat /\ now \in Nat /\ HasTtl \in Nat /\ MaxQuery \in Nat
    BY ConstantsAssumption, EntryKeys DEF Typed, TableTyped
  <2>4. now <= heldAt[e.match][k] + HasTtl + MaxQuery
    BY <2>1, <2>2, <2>3
  <2>5. QED
    BY <2>1, <2>2, <2>4 DEF RefusalsGrounded
<1>3. QED
  <2>1. ASSUME NEW i \in Ingests, StartIngest(i) \/ IngestFiltered(i) \/ IngestEnds(i)
        PROVE  refused' = refused
    BY <2>1 DEF StartIngest, IngestFiltered, IngestEnds
  <2>2. QED
    BY <1>1, <1>2, <2>1, OthersLeaveIngests

\* An entry that was dropped as known was held once, and so was each that an ingest
\* which succeeded kept, unless another row of its match was.
KnownWasHeld ==
    /\ \A i \in Ingests, e \in Entries :
         checks[i][e] = "done" /\ e \notin kept[i] => Grounds(e, 0)
    /\ \A i \in Ingests : ipc[i] = "success" =>
         \A e \in kept[i] : e.meta = "set" =>
             Grounds(e, 0) \/ \E d \in kept[i] \ {e} : d.match = e.match

\* An entry that is done was held, or was kept beside another row of its match.
LEMMA NextKnownWasHeld ==
  Typed /\ HeldNow /\ ChecksGrounded /\ SlotsGrounded /\ KnownWasHeld /\ [Next]_vars => KnownWasHeld'
<1> SUFFICES ASSUME Typed, HeldNow, ChecksGrounded, SlotsGrounded, KnownWasHeld, [Next]_vars
             PROVE  KnownWasHeld'
  OBVIOUS
<1>0. /\ TableTyped' /\ HeldGrows /\ HeldNow'
      /\ ipc \in [Ingests -> {"idle", "filter", "end", "success", "error"}]
      /\ checks \in [Ingests -> [Entries -> Querying \cup {"none", "asked", "done"}]]
      /\ kept \in [Ingests -> SUBSET Entries]
      /\ \A i \in Ingests, e \in Entries :
           /\ e \in kept[i] => checks[i][e] = "done"
           /\ ipc[i] = "idle" => checks[i][e] = "none"
           /\ ipc[i] # "filter" => checks[i][e] \in {"none", "done"}
  BY NextTable, NextHeld DEF Typed, IngestTyped
<1>1. \A e \in Entries : Grounds(e, 0) => Grounds(e, 0)'
  BY <1>0, GroundsStay
<1>2. CASE UNCHANGED <<ipc, checks, kept>>
  BY <1>0, <1>1, <1>2 DEF KnownWasHeld
<1>3. ASSUME NEW i \in Ingests, StartIngest(i) PROVE KnownWasHeld'
  <2>1. kept' = kept /\ ipc' = [ipc EXCEPT ![i] = "filter"]
        /\ \A j \in Ingests, e \in Entries : checks'[j][e] \in {"asked", "none", checks[j][e]}
    BY <1>0, <1>3 DEF StartIngest
  <2>2. QED
    BY <1>0, <1>1, <2>1 DEF KnownWasHeld
<1>4. ASSUME NEW i \in Ingests, NEW e \in Entries, CheckStep(i, e) PROVE KnownWasHeld'
  <2>1. ipc' = ipc /\ ipc[i] = "filter"
    <3>1. ipc' = ipc /\ checks[i][e] \notin {"none", "done"}
      BY <1>4 DEF CheckStep, CheckCached, CheckQuery, CheckReads, CheckEnds, Querying
    <3>2. QED
      BY <1>0, <3>1
  <2>2. /\ \A j \in Ingests, d \in Entries : <<j, d>> # <<i, e>> => checks'[j][d] = checks[j][d]
        /\ \A j \in Ingests : kept[j] \subseteq kept'[j] /\ (j # i => kept'[j] = kept[j])
        /\ checks'[i][e] = "done" => e \in kept'[i] \/ Grounds(e, 0)
    <3>1. CASE /\ kept' = kept /\ \E to \in Querying : checks' = [checks EXCEPT ![i][e] = to]
      BY <1>0, <3>1 DEF Querying
    <3>2. ASSUME NEW known \in BOOLEAN, Decide(i, e, known),
                 known => \E t \in Nat : Grounds(e, t) /\ now <= t + HasTtl + MaxQuery
          PROVE  /\ \A j \in Ingests, d \in Entries : <<j, d>> # <<i, e>> => checks'[j][d] = checks[j][d]
                 /\ \A j \in Ingests : kept[j] \subseteq kept'[j] /\ (j # i => kept'[j] = kept[j])
                 /\ checks'[i][e] = "done" => e \in kept'[i] \/ Grounds(e, 0)
      <4>1. /\ checks' = [checks EXCEPT ![i][e] = "done"]
            /\ kept' = [kept EXCEPT ![i] = IF known THEN @ ELSE @ \cup {e}]
        BY <3>2 DEF Decide
      <4>2. known => Grounds(e, 0)
        BY <3>2, EntryKeys DEF Grounds, Typed, TableTyped
      <4>3. QED
        BY <1>0, <4>1, <4>2
    <3>3. QED
      BY <1>4, <3>1, <3>2, Decisions
  <2>3. QED
    BY <1>0, <1>1, <2>1, <2>2 DEF KnownWasHeld
<1>5. ASSUME NEW i \in Ingests, IngestFiltered(i) PROVE KnownWasHeld'
  <2>1. UNCHANGED <<checks, kept>>
        /\ \E to \in {"success", "end", "error"} :
             ipc' = [ipc EXCEPT ![i] = to] /\ (to = "success" => kept[i] = {})
    BY <1>5 DEF IngestFiltered
  <2>2. QED
    BY <1>0, <1>1, <2>1 DEF KnownWasHeld
<1>6. ASSUME NEW i \in Ingests, IngestEnds(i) PROVE KnownWasHeld'
  <2>1. UNCHANGED <<now, checks, kept>>
        /\ \E to \in {"success", "error"} :
             ipc' = [ipc EXCEPT ![i] = to] /\ (to = "success" => StoreRows(kept[i]))
    BY <1>6 DEF IngestEnds
  <2>2. ASSUME StoreRows(kept[i]), NEW e \in kept[i], e.meta = "set"
        PROVE  Grounds(e, 0)' \/ \E d \in kept[i] \ {e} : d.match = e.match
    <3>1. e \in ClickhouseSalts /\ e.match \in Matches /\ kept[i] \in SUBSET ClickhouseSalts
      BY <1>0, EntryKeys
    <3>2. row'[e.match] \in kept[i] /\ row'[e.match].match = e.match
      BY <2>1, <2>2, <3>1, StoreLeaves DEF Typed
    <3>3. CASE row'[e.match] = e
      <4>1. row'[e.match]["meta"] = "set" /\ e["meta"] # "none" /\ "meta" \in Kinds
        BY <2>2, <3>1, <3>3, KindFields
      <4>2. heldAt'[e.match]["meta"] = now' /\ now' \in Nat \ {0}
        BY <1>0, <3>1, <4>1, ConstantsAssumption DEF HeldNow, TableTyped
      <4>3. QED
        BY <4>1, <4>2 DEF Grounds
    <3>4. QED
      BY <3>2, <3>3
  <2>3. QED
    BY <1>0, <1>1, <2>1, <2>2 DEF KnownWasHeld
<1>7. QED
  BY <1>2, <1>3, <1>4, <1>5, <1>6, OthersLeaveIngests DEF ivars

----------------------------------------------------------------------------
Grounded == HeldNow /\ ChecksGrounded /\ SlotsGrounded /\ RefusalsGrounded /\ KnownWasHeld

\* The grounds of checks, slots and refusals hold throughout.
LEMMA GroundedInvariance == Spec => []Grounded
<1>1. Init => Grounded
  <2> SUFFICES ASSUME Init PROVE Grounded
    OBVIOUS
  <2>1. HeldNow
    <3>1. \A m \in Matches : Absent(m)["meta"] = "none" /\ Absent(m)["replay"] = "none"
      BY KindFields, EntryKeys DEF Absent
    <3>2. QED
      BY <3>1 DEF Init, HeldNow, Kinds
  <2>2. ChecksGrounded /\ RefusalsGrounded /\ KnownWasHeld
    BY DEF Init, ChecksGrounded, RefusalsGrounded, KnownWasHeld, Querying
  <2>3. SlotsGrounded
    BY EntryKeys DEF Init, SlotsGrounded, EmptySlot
  <2>4. QED
    BY <2>1, <2>2, <2>3 DEF Grounded
<1>2. Typed /\ Grounded /\ [Next]_vars => Grounded'
  BY NextHeld, NextChecksGrounded, NextSlotsGrounded, NextRefusals, NextKnownWasHeld DEF Grounded
<1>3. QED
  BY <1>1, <1>2, TypedInvariance, PTL DEF Spec

\* An entry is only dropped as known if the table held a salt of a kind the entry
\* brings, no longer ago than the cache and one query last.
THEOREM RefusalsAlwaysGrounded == Spec => []RefusalsGrounded
  BY GroundedInvariance, PTL DEF Grounded

\* Of an ingest that is told success the useful salts were in the table at some
\* time, unless it brought a second row for the match itself.
THEOREM SuccessAlwaysStored == Spec => []SuccessMeansStored
<1>1. Typed /\ KnownWasHeld => SuccessMeansStored
  <2> SUFFICES ASSUME Typed, KnownWasHeld, NEW i \in Ingests, ipc[i] = "success",
                      NEW e \in Entries, checks[i][e] = "done", e.meta = "set"
               PROVE  \/ \E k \in Kinds : heldAt[e.match][k] # 0
                      \/ \E d \in kept[i] \ {e} : d.match = e.match
    BY DEF SuccessMeansStored
  <2>1. Grounds(e, 0) \/ \E d \in kept[i] \ {e} : d.match = e.match
    BY DEF KnownWasHeld
  <2>2. QED
    BY <2>1 DEF Grounds
<1>2. QED
  BY <1>1, TypedInvariance, GroundedInvariance, PTL DEF Grounded

----------------------------------------------------------------------------
\* The files of a match (MatchMetadata)

\* A set of numbers that is not empty has a least one.
LEMMA LeastNat ==
    ASSUME NEW T \in SUBSET Nat, T # {}
    PROVE  File!Min(T) \in T /\ \A y \in T : File!Min(T) <= y
<1> DEFINE R == OpToRel(<, Nat)
<1>1. IsWellFoundedOn(R, Nat)
  BY NatLessThanWellFounded
<1>2. R = {ss \in Nat \X Nat : ss[1] < ss[2]}
  BY DEF OpToRel
<1> HIDE DEF R
<1>3. PICK x \in T : \A y \in T : ~(<<y, x>> \in R)
  BY <1>1, WFMin
<1>4. ASSUME NEW y \in T, y < x
      PROVE  FALSE
  <2>1. <<y, x>> \in Nat \X Nat /\ <<y, x>>[1] = y /\ <<y, x>>[2] = x
    OBVIOUS
  <2>2. QED
    BY <1>2, <1>3, <1>4, <2>1
<1>5. \A y \in T : x <= y
  BY <1>4
<1>6. QED
  BY <1>5 DEF File!Min

FileTyped ==
    /\ File!TypeOK
    /\ match \in [Connections -> Matches \cup {File!Min(Matches)}]
    /\ held \in [Connections -> SUBSET File!Kinds]
    /\ erred \in [Connections -> BOOLEAN]

\* Once the minimum is frozen it is no more than any match it was to cover, and
\* no request gets past it before.
MinFrozen ==
    /\ cell = {} => covered = {}
    /\ \A id \in cell, m \in covered : id <= m
    /\ \A c \in Connections : pc[c] \notin {"idle", "min"} => cell # {}

\* What was kept since a request began is kept now.
HeldKept ==
    \A c \in Connections, k \in File!Kinds :
        pc[c] # "idle" /\ k \in held[c] => File!file(c, k) \in cache \cup s3

\* A read that gave a file gave one there is, and none is made before its turn.
ReadsReal ==
    /\ \A c \in Connections, k \in File!Kinds : reads[c][k] = "ok" => File!file(c, k) \in Files
    /\ \A c \in Connections : pc[c] \in {"min", "limits"} => reads[c] = File!Unread

\* A file that was kept since a request began and that the request did not find
\* in the cache is on S3, where it stays; and there the request finds it.
MissedIsOnS3 ==
    \A c \in Connections, k \in File!Kinds :
        match[c] \in covered /\ k \in held[c] /\ ~erred[c] =>
            /\ pc[c] = "cache" /\ reads[c][k] = "failed" => File!file(c, k) \in s3
            /\ pc[c] \in {"limits", "s3"} => File!file(c, k) \in s3
            /\ pc[c] = "s3" => reads[c][k] # "failed"
            /\ pc[c] \notin {"salts", "valve"}

\* An error is owed to a failed read, a file nobody can decode or the minimum.
ErrorsOwed ==
    \A c \in Connections :
        pc[c] = "done" /\ reply[c] = "error" /\ held[c] # {} /\ ~erred[c] /\ match[c] \in covered
          => \E k \in File!Kinds : reads[c][k] = "ok" /\ Form[File!file(c, k)] = "damaged"

FileInv == FileTyped /\ MinFrozen /\ HeldKept /\ ReadsReal /\ MissedIsOnS3 /\ ErrorsOwed

\* The invariant of the files holds at the start.
LEMMA InitFileInv == File!Init => FileInv
<1> SUFFICES ASSUME File!Init
             PROVE  FileInv
  OBVIOUS
<1>1. FileTyped
  BY DEF File!Init, FileTyped, File!TypeOK, File!Unread, File!PcState, File!Reading, File!Replies, File!Kinds
<1>2. MinFrozen /\ HeldKept /\ ReadsReal /\ MissedIsOnS3 /\ ErrorsOwed
  BY DEF File!Init, File!Unread, MinFrozen, HeldKept, ReadsReal, MissedIsOnS3, ErrorsOwed
<1>3. QED
  BY <1>1, <1>2 DEF FileInv

\* What a request's own step must show: it leaves the other requests, the files and
\* the frozen minimum as they are.
LEMMA RequestStepKeeps ==
    ASSUME FileInv, NEW c \in Connections, FileTyped',
           UNCHANGED <<cache, s3, cell, covered>>,
           \A d \in Connections \ {c} :
              /\ pc'[d] = pc[d] /\ match'[d] = match[d] /\ reads'[d] = reads[d]
              /\ reply'[d] = reply[d] /\ held'[d] = held[d] /\ erred'[d] = erred[d],
           pc'[c] \notin {"idle", "min"} => cell # {},
           pc'[c] \in {"min", "limits"} => reads'[c] = File!Unread,
           \A k \in File!Kinds :
              /\ k \in held'[c] => <<match'[c], k>> \in cache \cup s3
              /\ reads'[c][k] = "ok" => <<match'[c], k>> \in Files
              /\ match'[c] \in covered /\ k \in held'[c] /\ ~erred'[c] =>
                    /\ pc'[c] = "cache" /\ reads'[c][k] = "failed" => <<match'[c], k>> \in s3
                    /\ pc'[c] \in {"limits", "s3"} => <<match'[c], k>> \in s3
                    /\ pc'[c] = "s3" => reads'[c][k] # "failed"
                    /\ pc'[c] \notin {"salts", "valve"},
           pc'[c] = "done" /\ reply'[c] = "error" /\ held'[c] # {} /\ ~erred'[c] /\ match'[c] \in covered
             => \E k \in File!Kinds : reads'[c][k] = "ok" /\ Form[<<match'[c], k>>] = "damaged"
    PROVE  FileInv'
<1>1. MinFrozen'
  BY DEF FileInv, MinFrozen
<1>2. HeldKept' /\ ReadsReal'
  BY DEF FileInv, HeldKept, ReadsReal, File!file
<1>3. MissedIsOnS3'
  BY DEF FileInv, MissedIsOnS3, File!file
<1>4. ErrorsOwed'
  <2> SUFFICES ASSUME NEW d \in Connections, pc'[d] = "done", reply'[d] = "error", held'[d] # {},
                      ~erred'[d], match'[d] \in covered
               PROVE  \E k \in File!Kinds : reads'[d][k] = "ok" /\ Form[<<match'[d], k>>] = "damaged"
    BY DEF ErrorsOwed, File!file
  <2>1. CASE d = c
    BY <2>1
  <2>2. CASE d # c
    BY <2>2 DEF FileInv, ErrorsOwed, File!file
  <2>3. QED
    BY <2>1, <2>2
<1>5. QED
  BY <1>1, <1>2, <1>3, <1>4 DEF FileInv

\* Every step of a request keeps the types.
LEMMA ServeTyped ==
    ASSUME FileInv, NEW c \in Connections, File!Serve(c)
    PROVE  FileTyped'
<1> USE FilesAssumption DEF FileInv, FileTyped, File!TypeOK, File!PcState, File!Reading, File!Replies,
        File!Kinds, File!ConstantsOK, File!env
<1>1. CASE File!Begin(c)
  BY <1>1 DEF File!Begin, File!Unread
<1>2. CASE File!QueryMin(c)
  <2>1. File!MinId \subseteq Matches \cup {0}
    <3>1. File!Recent \subseteq Matches /\ File!Recent \in SUBSET Nat
      BY DEF File!Recent
    <3>2. File!Recent # {} => File!Min(File!Recent) \in Matches
      BY <3>1, LeastNat
    <3>3. QED
      BY <3>2 DEF File!MinId
  <2>2. cell' \subseteq Matches \cup {0} /\ covered' \subseteq Matches
    BY <1>2, <2>1 DEF File!QueryMin, File!Recent
  <2>3. QED
    BY <1>2, <2>2 DEF File!QueryMin
<1>3. CASE File!CompareMin(c)
  BY <1>3 DEF File!CompareMin
<1>4. CASE File!Found(c)
  BY <1>4 DEF File!Found, File!Answer, File!Parse
<1>5. CASE File!NotFound(c)
  BY <1>5 DEF File!NotFound, File!Unread
<1>6. CASE File!Limits(c) \/ File!Salts(c)
  BY <1>6 DEF File!Limits, File!Salts
<1>7. CASE File!Valve(c)
  BY <1>7 DEF File!Valve, File!Answer, File!Parse
<1>8. ASSUME NEW k \in File!Kinds, File!Read(c, k)
      PROVE  FileTyped'
  BY <1>8 DEF File!Read
<1>9. QED
  BY <1>1, <1>2, <1>3, <1>4, <1>5, <1>6, <1>7, <1>8 DEF File!Serve

\* Every step of a request keeps the invariant of the files.
LEMMA ServeKeepsFileInv ==
    ASSUME FileInv, NEW c \in Connections, File!Serve(c)
    PROVE  FileInv'
<1>0. FileTyped' /\ FileTyped
  BY ServeTyped DEF FileInv
<1>1. CASE File!Begin(c)
  <2>1. /\ UNCHANGED <<cache, s3, cell, covered>>
        /\ \A d \in Connections \ {c} :
              /\ pc'[d] = pc[d] /\ match'[d] = match[d] /\ reads'[d] = reads[d]
              /\ reply'[d] = reply[d] /\ held'[d] = held[d] /\ erred'[d] = erred[d]
        /\ pc'[c] = "min" /\ reads'[c] = File!Unread
        /\ held'[c] = {k \in File!Kinds : <<match'[c], k>> \in cache \cup s3}
    BY <1>0, <1>1 DEF File!Begin, File!env, FileTyped, File!TypeOK
  <2>2. QED
    BY <1>0, <2>1, RequestStepKeeps DEF File!Unread
<1>2. CASE File!QueryMin(c)
  <2>1. /\ cell = {} /\ covered = {} /\ covered' = File!Recent
        /\ UNCHANGED <<cache, s3, pc, match, reads, reply, held, erred>>
        /\ \A d \in Connections : pc[d] \in {"idle", "min"}
    BY <1>2 DEF File!QueryMin, File!env, FileInv, MinFrozen
  <2>2. MinFrozen'
    <3>1. File!Recent \in SUBSET Nat
      BY <1>0, FilesAssumption DEF File!Recent, FileTyped, File!TypeOK, File!ConstantsOK
    <3>2. PICK id \in File!MinId : cell' = {id}
      BY <1>2 DEF File!QueryMin
    <3>3. \A m \in File!Recent : id <= m
      BY <3>1, <3>2, LeastNat DEF File!MinId
    <3>4. QED
      BY <2>1, <3>2, <3>3 DEF MinFrozen
  <2>3. HeldKept' /\ ReadsReal' /\ MissedIsOnS3' /\ ErrorsOwed'
    BY <2>1 DEF FileInv, HeldKept, ReadsReal, MissedIsOnS3, ErrorsOwed, File!file
  <2>4. QED
    BY <1>0, <2>2, <2>3 DEF FileInv
<1>3. CASE File!CompareMin(c)
  <2>1. /\ UNCHANGED <<cache, s3, cell, covered, match, reads, reply, held, erred>>
        /\ pc[c] = "min" /\ cell # {}
        /\ \A d \in Connections \ {c} : pc'[d] = pc[d]
        /\ pc'[c] \in {"cache", "limits"}
    BY <1>0, <1>3 DEF File!CompareMin, File!env, FileTyped, File!TypeOK
  <2>2. match[c] \in covered => pc'[c] = "cache"
    <3>1. PICK id \in cell : pc' = [pc EXCEPT ![c] = IF match[c] >= id THEN "cache" ELSE "limits"]
      BY <1>3 DEF File!CompareMin
    <3>2. ASSUME match[c] \in covered
          PROVE  match[c] >= id
      <4>1. id <= match[c]
        BY <3>2 DEF FileInv, MinFrozen
      <4>2. cell \subseteq Matches \cup {0} /\ covered \subseteq Matches
        BY <1>0 DEF FileTyped, File!TypeOK
      <4>3. \A m \in Matches : m \in Nat
        BY FilesAssumption DEF File!ConstantsOK
      <4>4. (id \in Matches \/ id = 0) /\ match[c] \in Matches
        BY <3>2, <4>2
      <4>5. id \in Nat /\ match[c] \in Nat
        BY <4>3, <4>4
      <4>6. QED
        BY <4>1, <4>5
    <3>3. QED
      BY <1>0, <3>1, <3>2 DEF FileTyped, File!TypeOK
  <2>3. reads[c] = File!Unread
    BY <2>1 DEF FileInv, ReadsReal
  <2>4. QED
    BY <1>0, <2>1, <2>2, <2>3, RequestStepKeeps
    DEF FileInv, HeldKept, File!file, File!Unread
<1>4. CASE File!Found(c)
  <2>1. /\ UNCHANGED <<cache, s3, cell, covered, match, reads, held, erred>>
        /\ pc[c] \in {"cache", "s3"} /\ pc'[c] = "done"
        /\ \A d \in Connections \ {c} : pc'[d] = pc[d] /\ reply'[d] = reply[d]
    BY <1>0, <1>4 DEF File!Found, File!Answer, File!env, File!Reading, FileTyped, File!TypeOK
  <2>2. PICK k \in File!Kinds : reads[c][k] = "ok" /\ File!Answer(c, File!file(c, k))
    BY <1>4 DEF File!Found
  <2>3. reply'[c] = "error" => Form[<<match[c], k>>] = "damaged"
    <3>1. <<match[c], k>> \in Files
      BY <2>2 DEF FileInv, ReadsReal, File!file
    <3>2. Form[<<match[c], k>>] \in File!Forms
      BY <3>1, FilesAssumption DEF File!ConstantsOK
    <3>3. reply'[c] = IF raw[c] THEN "file" ELSE File!Parse(<<match[c], k>>)
      BY <1>0, <2>2 DEF File!Answer, File!file, FileTyped, File!TypeOK
    <3>4. QED
      BY <3>2, <3>3 DEF File!Parse, File!Forms
  <2>4. QED
    BY <1>0, <2>1, <2>2, <2>3, RequestStepKeeps
    DEF FileInv, HeldKept, ReadsReal, MinFrozen, File!file
<1>5. CASE File!NotFound(c)
  <2>1. /\ UNCHANGED <<cache, s3, cell, covered, match, reply, held, erred>>
        /\ \A d \in Connections \ {c} : pc'[d] = pc[d] /\ reads'[d] = reads[d]
        /\ reads'[c] = File!Unread /\ \A k \in File!Kinds : reads[c][k] = "failed"
        /\ \/ pc[c] = "cache" /\ pc'[c] = "limits"
           \/ pc[c] = "s3" /\ pc'[c] = "salts"
    BY <1>0, <1>5 DEF File!NotFound, File!env, File!Reading, FileTyped, File!TypeOK
  <2>2. QED
    BY <1>0, <2>1, RequestStepKeeps
    DEF FileInv, HeldKept, MissedIsOnS3, MinFrozen, File!file, File!Unread
<1>6. CASE File!Limits(c)
  <2>1. /\ UNCHANGED <<cache, s3, cell, covered, match, reads, held, erred>>
        /\ pc[c] = "limits"
        /\ \A d \in Connections \ {c} : pc'[d] = pc[d] /\ reply'[d] = reply[d]
        /\ pc'[c] = "s3" \/ (pc'[c] = "done" /\ reply'[c] = "too_many")
    <3>1. pc \in [Connections -> File!PcState] /\ reply \in [Connections -> File!Replies]
      BY <1>0 DEF FileTyped, File!TypeOK
    <3>2. CASE pc' = [pc EXCEPT ![c] = "s3"] /\ UNCHANGED reply
      BY <1>6, <3>1, <3>2 DEF File!Limits, File!env
    <3>3. CASE pc' = [pc EXCEPT ![c] = "done"] /\ reply' = [reply EXCEPT ![c] = "too_many"]
      BY <1>6, <3>1, <3>3 DEF File!Limits, File!env
    <3>4. QED
      BY <1>6, <3>2, <3>3 DEF File!Limits
  <2>2. reads[c] = File!Unread
    BY <2>1 DEF FileInv, ReadsReal
  <2>3. QED
    BY <1>0, <2>1, <2>2, RequestStepKeeps
    DEF FileInv, HeldKept, MissedIsOnS3, MinFrozen, File!file, File!Unread
<1>7. CASE File!Salts(c) \/ File!Valve(c)
  <2>1. /\ UNCHANGED <<cache, s3, cell, covered, match, reads, held, erred>>
        /\ pc[c] \in {"salts", "valve"} /\ pc'[c] \in {"valve", "done"}
        /\ \A d \in Connections \ {c} : pc'[d] = pc[d] /\ reply'[d] = reply[d]
    BY <1>0, <1>7 DEF File!Salts, File!Valve, File!Answer, File!env, FileTyped, File!TypeOK
  <2>2. \A k \in File!Kinds : match[c] \in covered /\ ~erred[c] => k \notin held[c]
    BY <2>1 DEF FileInv, MissedIsOnS3
  <2>3. held[c] # {} => \E k \in File!Kinds : k \in held[c]
    BY <1>0 DEF FileTyped
  <2>4. QED
    BY <1>0, <2>1, <2>2, <2>3, RequestStepKeeps
    DEF FileInv, HeldKept, ReadsReal, MinFrozen, File!file
<1>8. ASSUME NEW k \in File!Kinds, File!Read(c, k)
      PROVE  FileInv'
  <2>1. /\ UNCHANGED <<cache, s3, cell, covered, pc, match, reply, held>>
        /\ pc[c] \in {"cache", "s3"} /\ reads[c][k] = "pending"
        /\ \A d \in Connections \ {c} : reads'[d] = reads[d] /\ erred'[d] = erred[d]
        /\ \A j \in File!Kinds \ {k} : reads'[c][j] = reads[c][j]
    BY <1>0, <1>8 DEF File!Read, File!env, File!Reading, FileTyped, File!TypeOK
  <2>2. \/ /\ reads'[c][k] = "ok" /\ erred'[c] = erred[c]
           /\ <<match[c], k>> \in cache \cup s3
        \/ /\ reads'[c][k] = "failed"
           /\ erred'[c] = (erred[c] \/ <<match[c], k>> \in (IF pc[c] = "cache" THEN cache ELSE s3))
    <3>1. reads \in [Connections -> [File!Kinds -> {"pending", "ok", "failed"}]]
          /\ erred \in [Connections -> BOOLEAN]
      BY <1>0 DEF FileTyped, File!TypeOK
    <3>2. PICK ok \in {(<<match[c], k>> \in File!Store(c)), FALSE} :
            /\ reads' = [reads EXCEPT ![c][k] = IF ok THEN "ok" ELSE "failed"]
            /\ erred' = [erred EXCEPT ![c] = @ \/ (~ok /\ <<match[c], k>> \in File!Store(c))]
      BY <1>8 DEF File!Read, File!file
    <3>3. /\ reads'[c][k] = IF ok THEN "ok" ELSE "failed"
          /\ erred'[c] = (erred[c] \/ (~ok /\ <<match[c], k>> \in File!Store(c)))
      BY <3>1, <3>2
    <3>4. CASE ok
      BY <3>1, <3>2, <3>3, <3>4 DEF File!Store
    <3>5. CASE ~ok
      BY <3>3, <3>5 DEF File!Store
    <3>6. QED
      BY <3>4, <3>5
  <2>3. \A j \in File!Kinds : reads'[c][j] = "ok" => <<match[c], j>> \in Files
    BY <1>0, <2>1, <2>2 DEF FileInv, ReadsReal, FileTyped, File!TypeOK, File!file
  <2>4. erred[c] => erred'[c]
    BY <2>2
  <2>5. ASSUME NEW j \in File!Kinds, match[c] \in covered, j \in held[c], ~erred'[c]
        PROVE  /\ pc[c] = "cache" /\ reads'[c][j] = "failed" => <<match[c], j>> \in s3
               /\ pc[c] = "s3" => <<match[c], j>> \in s3 /\ reads'[c][j] # "failed"
    <3>1. <<match[c], j>> \in cache \cup s3
      BY <2>1, <2>5 DEF FileInv, HeldKept, File!file
    <3>2. /\ pc[c] = "cache" /\ reads[c][j] = "failed" => <<match[c], j>> \in s3
          /\ pc[c] = "s3" => <<match[c], j>> \in s3 /\ reads[c][j] # "failed"
      BY <2>4, <2>5 DEF FileInv, MissedIsOnS3, File!file
    <3>3. QED
      BY <2>1, <2>2, <2>5, <3>1, <3>2
  <2>6. QED
    BY <1>0, <2>1, <2>3, <2>5, RequestStepKeeps
    DEF FileInv, HeldKept, MinFrozen, File!file
<1>9. QED
  BY <1>1, <1>2, <1>3, <1>4, <1>5, <1>6, <1>7, <1>8 DEF File!Serve

\* Every step of the worker, of the ingest and of time keeps the invariant of the
\* files: what a store loses the other one has.
LEMMA OthersKeepFileInv ==
    ASSUME FileInv, \/ \E f \in Files : File!Move(f)
                    \/ \E m \in Matches : File!Moves(m)
    PROVE  FileInv'
<1>0. UNCHANGED <<cell, pc, match, reads, reply, erred, covered>>
  BY DEF File!Move, File!Moves, File!calls
<1>1. s3 \subseteq s3' /\ cache' \cup s3' \subseteq Files /\ stored' \cup aged' \subseteq Matches
  BY DEF File!Move, File!Moves, File!Upload, File!Copy, File!Evict, File!Ingested, File!Ages,
         FileInv, FileTyped, File!TypeOK
<1>2. \/ held' = [c \in Connections |-> {k \in held[c] : File!file(c, k) \in cache' \cup s3'}]
      \/ UNCHANGED <<held, cache, s3>>
  BY DEF File!Move, File!Moves, File!StillHeld
<1>3. \A c \in Connections : held'[c] \subseteq held[c]
  BY <1>2
<1>4. FileTyped'
  <2>1. held' \in [Connections -> SUBSET File!Kinds]
    BY <1>2 DEF FileInv, FileTyped
  <2>2. QED
    BY <1>0, <1>1, <2>1 DEF FileInv, FileTyped, File!TypeOK
<1>5. HeldKept'
  BY <1>0, <1>2 DEF FileInv, HeldKept, File!file
<1>6. MinFrozen' /\ ReadsReal'
  BY <1>0 DEF FileInv, MinFrozen, ReadsReal, File!file
<1>7. MissedIsOnS3'
  BY <1>0, <1>1, <1>3 DEF FileInv, MissedIsOnS3, File!file
<1>8. ErrorsOwed'
  BY <1>0, <1>3 DEF FileInv, ErrorsOwed, File!file
<1>9. QED
  BY <1>4, <1>5, <1>6, <1>7, <1>8 DEF FileInv

\* The invariant of the files holds throughout.
LEMMA FileInvariance == File!Spec => []FileInv
<1>1. FileInv /\ [File!Next]_(File!vars) => FileInv'
  <2> SUFFICES ASSUME FileInv, [File!Next]_(File!vars)
               PROVE  FileInv'
    OBVIOUS
  <2>1. CASE File!Next
    BY <2>1, ServeKeepsFileInv, OthersKeepFileInv DEF File!Next
  <2>2. CASE UNCHANGED File!vars
    <3>1. FileTyped'
      BY <2>2 DEF File!vars, FileInv, FileTyped, File!TypeOK
    <3>2. MinFrozen' /\ HeldKept' /\ ReadsReal'
      BY <2>2 DEF File!vars, FileInv, MinFrozen, HeldKept, ReadsReal, File!file
    <3>3. MissedIsOnS3' /\ ErrorsOwed'
      BY <2>2 DEF File!vars, FileInv, MissedIsOnS3, ErrorsOwed, File!file
    <3>4. QED
      BY <3>1, <3>2, <3>3 DEF FileInv
  <2>3. QED
    BY <2>1, <2>2
<1>2. QED
  BY <1>1, InitFileInv, PTL DEF File!Spec

\* The requests for salts and for a file keep their types, side by side
\* (matches/salts.rs, matches/ingest_salts.rs, matches/metadata.rs).
THEOREM TypesCorrect == Spec /\ File!Spec => []TypesOK
<1>1. FileInv => File!TypeOK
  BY DEF FileInv, FileTyped
<1>2. QED
  BY <1>1, TypeCorrect, FileInvariance, PTL DEF TypesOK

\* Valve is not asked for a file that is kept somewhere, and a file that is kept
\* somewhere is answered with, but for the reasons the properties name
\* (metadata.rs:34-158).
THEOREM FilesAlwaysServedInOrder == File!Spec => []FilesServedInOrder
<1>1. FileInv => FilesServedInOrder
  <2> SUFFICES ASSUME FileInv
               PROVE  File!ValveAskedLast /\ File!KeptFilesServed
    BY DEF FilesServedInOrder
  <2>1. \A c \in Connections : held[c] # {} => \E k \in File!Kinds : k \in held[c]
    BY DEF FileInv, FileTyped
  <2>2. File!ValveAskedLast
    BY <2>1 DEF FileInv, MissedIsOnS3, File!ValveAskedLast
  <2>3. File!KeptFilesServed
    BY DEF FileInv, ErrorsOwed, File!KeptFilesServed, File!file
  <2>4. QED
    BY <2>2, <2>3
<1>2. QED
  BY <1>1, FileInvariance, PTL
=============================================================================

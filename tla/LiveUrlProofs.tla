---------------------------- MODULE LiveUrlProofs ----------------------------
(***************************************************************************)
(* The matches entered in `spectated_matches` are left again, and Steam    *)
(* gives the URL of a match once per lifespan of a response, for any       *)
(* number of requests and matches, any retries and any lifespans.  In the  *)
(* last part, what the build creator's page keeps of the answers that      *)
(* reach it after the user has moved on.                                   *)
(***************************************************************************)
EXTENDS LiveUrl, BuildCreatorApp, TLAPS

\* What a call owns has its type, and its attempts are counted from its first.
Typed ==
    /\ TypeOK
    /\ match \in [Calls -> Matches]
    /\ field \in [Matches -> [set : BOOLEAN, expires : Nat]]
    /\ holder \in [Matches -> SUBSET Calls]
    /\ spectated \in [Matches -> 0..now]
    /\ \A c \in Calls :
         /\ pc[c] \in {"idle", "limits", "live"} => tries[c] = 0
         /\ pc[c] = "try" => tries[c] <= Retries

\* A call that asks Steam is the only one that does for its match, and from its
\* miss to the answer the match has no response that is still valid.
AskedAlone ==
    \A c \in Calls : pc[c] = "steam" =>
        /\ ~Alive(match[c])
        /\ \A d \in Calls : pc[d] = "steam" /\ match[d] = match[c] => d = c

\* The URL that Steam gave last is the one stored, or an older one.
GivenIsStored == \A m \in Matches : spectated[m] # 0 => spectated[m] <= cached[m].at

Inv == Typed /\ FieldsExpire /\ AskedAlone /\ GivenIsStored

----------------------------------------------------------------------------
\* The invariant holds at the start: nothing is spectated and nobody asks.
LEMMA InitInv == Init => Inv
  BY ConstantsAssumption
  DEF Init, Inv, Typed, TypeOK, FieldsExpire, AskedAlone, GivenIsStored, NoField, Responses, Waiting

\* The steps of a call that reach neither Redis nor Steam.
Aside(c) == Begin(c) \/ ApplyLimits(c) \/ CheckLive(c) \/ Hit(c)

\* A call's step keeps the type of what it owns; nobody else touches that.
LEMMA NextTyped == Typed /\ [Next]_vars => Typed'
<1> SUFFICES ASSUME Typed, [Next]_vars PROVE Typed'
  OBVIOUS
<1> USE ConstantsAssumption DEF Typed, TypeOK, Goto, Waiting, redis, steam
<1>1. ASSUME NEW c \in Calls, Begin(c) \/ Proceed(c) \/ HangUp(c) PROVE Typed'
  <2>1. CASE Aside(c)
    BY <2>1 DEF Aside, Begin, ApplyLimits, CheckLive, Hit, Outcome
  <2>2. CASE Miss(c)
    BY <2>2 DEF Miss, LockFree
  <2>3. CASE SteamAnswers(c)
    <3>1. PICK r \in Responses :
            /\ cached' = [cached EXCEPT ![match[c]] = [at |-> now, response |-> r]]
            /\ spectated' = IF r = "url" THEN [spectated EXCEPT ![match[c]] = now] ELSE spectated
            /\ pc' = [pc EXCEPT ![c] = Outcome(r)]
      BY <2>3 DEF SteamAnswers
    <3>2. pc[c] = "steam" /\ UNCHANGED <<now, newest, match, tries, field>>
          /\ holder' = [holder EXCEPT ![match[c]] = @ \ {c}]
      BY <2>3 DEF SteamAnswers
    <3>3. Outcome(r) \in {"hset", "error"}
      BY DEF Outcome
    <3>4. cached' \in [Matches -> [at : 0..now', response : Responses]]
      BY <3>1, <3>2
    <3>5. spectated' \in [Matches -> 0..now']
      BY <3>1, <3>2
    <3>6. \A m \in Matches : holder'[m] = {d \in Calls : pc'[d] = "steam" /\ match'[d] = m}
      BY <3>1, <3>2, <3>3
    <3>7. QED
      BY <3>1, <3>2, <3>3, <3>4, <3>5, <3>6
  <2>4. CASE SteamFails(c) \/ HangUp(c)
    <3>1. PICK to \in {"try", "error"} :
            /\ pc' = [pc EXCEPT ![c] = to]
            /\ to = "try" => tries[c] <= Retries
      BY <2>4 DEF SteamFails, HangUp
    <3>2. UNCHANGED <<now, newest, match, tries, field, cached, spectated>>
          /\ holder' = [holder EXCEPT ![match[c]] = @ \ {c}]
      BY <2>4 DEF SteamFails, HangUp
    <3>3. \A m \in Matches : holder'[m] = {d \in Calls : pc'[d] = "steam" /\ match'[d] = m}
      BY <3>1, <3>2
    <3>4. QED
      BY <3>1, <3>2, <3>3
  <2>5. CASE Hset(c) \/ Hexpire(c)
    <3>1. pc[c] \in {"hset", "hexpire"}
          /\ UNCHANGED <<now, newest, match, tries, cached, spectated, holder>>
      BY <2>5 DEF Hset, Hexpire
    <3>2. PICK to \in {"hexpire", "ok", "error"} : pc' = [pc EXCEPT ![c] = to]
      BY <2>5 DEF Hset, Hexpire
    <3>3. \/ UNCHANGED field
          \/ field' = [field EXCEPT ![match[c]] = [set |-> TRUE, expires |-> 0]]
          \/ field' = [field EXCEPT ![match[c]].expires =
                                      IF field[match[c]].set THEN now + FieldTtl ELSE 0]
      BY <2>5 DEF Hset, Hexpire
    <3>4. field' \in [Matches -> [set : BOOLEAN, expires : Nat]]
      <4> DEFINE lifespan == IF field[match[c]].set THEN now + FieldTtl ELSE 0
      <4>1. field[match[c]] \in [set : BOOLEAN, expires : Nat]
        OBVIOUS
      <4>2. lifespan \in Nat
        OBVIOUS
      <4> HIDE DEF lifespan
      <4>3. [field[match[c]] EXCEPT !.expires = lifespan] \in [set : BOOLEAN, expires : Nat]
        BY <4>1, <4>2
      <4>4. \/ UNCHANGED field
            \/ field' = [field EXCEPT ![match[c]] = [set |-> TRUE, expires |-> 0]]
            \/ field' = [field EXCEPT ![match[c]] = [field[match[c]] EXCEPT !.expires = lifespan]]
        BY <3>3 DEF lifespan
      <4>5. PICK new \in [set : BOOLEAN, expires : Nat] :
              field' = field \/ field' = [field EXCEPT ![match[c]] = new]
        BY <4>1, <4>3, <4>4
      <4>6. QED
        BY <4>5
    <3>5. \A m \in Matches : field'[m].expires # 0 => field'[m].set /\ field'[m].expires > now
      <4>1. CASE UNCHANGED field
        BY <4>1
      <4>2. CASE field' = [field EXCEPT ![match[c]] = [set |-> TRUE, expires |-> 0]]
        BY <4>2
      <4>3. CASE field' = [field EXCEPT ![match[c]].expires =
                                          IF field[match[c]].set THEN now + FieldTtl ELSE 0]
        <5>1. now + FieldTtl > now
          OBVIOUS
        <5>2. ASSUME NEW m \in Matches, field'[m].expires # 0
              PROVE  field'[m].set /\ field'[m].expires > now
          BY <4>3, <5>1, <5>2
        <5>3. QED
          BY <5>2
      <4>4. QED
        BY <3>3, <4>1, <4>2, <4>3
    <3>6. \A m \in Matches : holder'[m] = {d \in Calls : pc'[d] = "steam" /\ match'[d] = m}
      BY <3>1, <3>2
    <3>7. QED
      BY <3>1, <3>2, <3>4, <3>5, <3>6
  <2>6. QED
    BY <1>1, <2>1, <2>2, <2>3, <2>4, <2>5 DEF Proceed, Aside
<1>2. ASSUME NEW m \in Matches, Grows(m) PROVE Typed'
  BY <1>2 DEF Grows
<1>3. CASE Tick
  BY <1>3 DEF Tick, NoField
<1>4. CASE UNCHANGED vars
  BY <1>4 DEF vars
<1>5. QED
  BY <1>1, <1>2, <1>3, <1>4 DEF Next

\* A field is set without a lifespan by a call that comes to the second command
\* next, and one that ends before it leaves the match on record.
LEMMA NextFieldsExpire == Typed /\ FieldsExpire /\ [Next]_vars => FieldsExpire'
<1> SUFFICES ASSUME Typed, FieldsExpire, [Next]_vars PROVE FieldsExpire'
  OBVIOUS
<1> USE ConstantsAssumption DEF Typed, TypeOK, FieldsExpire, Goto, Waiting, redis, steam
<1>1. ASSUME NEW c \in Calls, Begin(c) \/ Proceed(c) \/ HangUp(c) PROVE FieldsExpire'
  <2>1. CASE Aside(c) \/ Miss(c) \/ SteamAnswers(c) \/ SteamFails(c)
    <3>1. \A d \in Calls : pc[d] = "hexpire" => pc'[d] = "hexpire"
      BY <2>1 DEF Aside, Begin, ApplyLimits, CheckLive, Hit, Miss, SteamAnswers, SteamFails
    <3>2. UNCHANGED <<field, orphan, match>>
      BY <2>1 DEF Aside, Begin, ApplyLimits, CheckLive, Hit, Miss, SteamAnswers, SteamFails
    <3>3. QED
      BY <3>1, <3>2
  <2>2. CASE Hset(c)
    BY <2>2 DEF Hset
  <2>3. CASE Hexpire(c)
    BY <2>3 DEF Hexpire
  <2>4. CASE HangUp(c)
    BY <2>4 DEF HangUp
  <2>5. QED
    BY <1>1, <2>1, <2>2, <2>3, <2>4 DEF Proceed, Aside
<1>2. CASE Tick \/ (\E m \in Matches : Grows(m)) \/ UNCHANGED vars
  BY <1>2 DEF Tick, Grows, NoField, vars
<1>3. QED
  BY <1>1, <1>2 DEF Next

\* The lock of a match keeps a second call from asking Steam for it.
LEMMA NextAskedAlone == Typed /\ AskedAlone /\ [Next]_vars => AskedAlone'
<1> SUFFICES ASSUME Typed, AskedAlone, [Next]_vars PROVE AskedAlone'
  OBVIOUS
<1> USE ConstantsAssumption DEF Typed, TypeOK, AskedAlone, Alive, Goto, redis, steam
<1>1. ASSUME NEW c \in Calls, Begin(c) \/ Proceed(c) \/ HangUp(c) PROVE AskedAlone'
  <2>1. CASE Aside(c) \/ Hset(c) \/ Hexpire(c) \/ SteamFails(c) \/ HangUp(c)
    <3>1. \A d \in Calls : pc'[d] = "steam" => pc[d] = "steam"
      BY <2>1 DEF Aside, Begin, ApplyLimits, CheckLive, Hit, Outcome, Hset, Hexpire, SteamFails, HangUp
    <3>2. UNCHANGED <<now, cached, match>>
      BY <2>1 DEF Aside, Begin, ApplyLimits, CheckLive, Hit, Hset, Hexpire, SteamFails, HangUp
    <3>3. QED
      BY <3>1, <3>2
  <2>2. CASE Miss(c)
    <3>1. \A d \in Calls : pc[d] = "steam" => match[d] # match[c]
      <4>1. holder[match[c]] = {} /\ match[c] \in Matches
        BY <2>2 DEF Miss, LockFree
      <4>2. {d \in Calls : pc[d] = "steam" /\ match[d] = match[c]} = {}
        BY <4>1
      <4>3. QED
        BY <4>2, Zenon
    <3>2. QED
      BY <2>2, <3>1 DEF Miss
  <2>3. CASE SteamAnswers(c)
    <3>1. \A d \in Calls : pc'[d] = "steam" => pc[d] = "steam" /\ match[d] # match[c]
      BY <2>3 DEF SteamAnswers, Outcome
    <3>2. /\ now' = now /\ match' = match
          /\ \A m \in Matches : m # match[c] => cached'[m] = cached[m]
      BY <2>3 DEF SteamAnswers
    <3>3. QED
      BY <3>1, <3>2
  <2>4. QED
    BY <1>1, <2>1, <2>2, <2>3 DEF Proceed, Aside
<1>2. CASE Tick
  <2>1. now \in Nat /\ now' = now + 1 /\ UNCHANGED <<cached, match, pc>>
    BY <1>2 DEF Tick
  <2>2. ASSUME NEW m \in Matches, ~Alive(m) PROVE ~Alive(m)'
    <3>1. cached[m].at \in Nat /\ CacheTtl \in Nat
      OBVIOUS
    <3>2. QED
      BY <2>1, <2>2, <3>1
  <2>3. QED
    BY <2>1, <2>2
<1>3. CASE (\E m \in Matches : Grows(m)) \/ UNCHANGED vars
  BY <1>3 DEF Grows, vars
<1>4. QED
  BY <1>1, <1>2, <1>3 DEF Next

\* The URL that Steam gave last stays the one that is stored.
LEMMA NextGiven == Typed /\ GivenIsStored /\ [Next]_vars => GivenIsStored'
<1> SUFFICES ASSUME Typed, GivenIsStored, [Next]_vars PROVE GivenIsStored'
  OBVIOUS
<1> USE ConstantsAssumption DEF Typed, TypeOK, GivenIsStored, redis, steam
<1>1. ASSUME NEW c \in Calls, SteamAnswers(c) PROVE GivenIsStored'
  BY <1>1 DEF SteamAnswers
<1>2. ASSUME ~\E c \in Calls : SteamAnswers(c) PROVE UNCHANGED <<cached, spectated>>
  BY <1>2 DEF Next, Proceed, Begin, ApplyLimits, CheckLive, Hit, Miss, SteamFails, Hset, Hexpire,
              HangUp, Tick, Grows, vars
<1>3. QED
  BY <1>1, <1>2

\* Every step preserves the invariant, part by part.
LEMMA NextInv == Inv /\ [Next]_vars => Inv'
  BY NextTyped, NextFieldsExpire, NextAskedAlone, NextGiven DEF Inv

\* The invariant holds throughout.
LEMMA Invariance == Spec => []Inv
  BY InitInv, NextInv, PTL DEF Spec

----------------------------------------------------------------------------
\* Every state has its types: the lock of a match is held by the calls that ask
\* Steam for it, and by no call that failed or was dropped.
THEOREM TypeCorrect == Spec => []TypeOK
  BY Invariance, PTL DEF Inv, Typed

\* A field of `spectated_matches` without a lifespan is about to be given one, or
\* was left so by a call that failed or was dropped between the two commands.
THEOREM FieldsLeave == Spec => []FieldsExpire
  BY Invariance, PTL DEF Inv

\* The stored response of a match changes, once Steam has given its URL, a
\* lifespan later at the earliest.
LEMMA StoresApart ==
  Inv /\ [Next]_vars =>
      [\A m \in Matches : cached'[m] # cached[m] /\ spectated[m] # 0 => now >= spectated[m] + CacheTtl]_vars
<1> SUFFICES ASSUME Inv, Next, NEW m \in Matches, cached'[m] # cached[m], spectated[m] # 0
             PROVE  now >= spectated[m] + CacheTtl
  BY DEF vars
<1> USE ConstantsAssumption DEF Inv, Typed, TypeOK
<1>1. PICK c \in Calls : SteamAnswers(c)
  BY DEF Next, Proceed, Begin, ApplyLimits, CheckLive, Hit, Miss, SteamFails, Hset, Hexpire,
         HangUp, Tick, Grows, redis, steam
<1>2. match[c] = m /\ pc[c] = "steam"
  BY <1>1 DEF SteamAnswers
<1>3. now \in Nat /\ cached[m].at \in Nat /\ spectated[m] \in Nat
  OBVIOUS
<1>4. QED
  BY <1>2, <1>3 DEF AskedAlone, Alive, GivenIsStored

\* However many requests come together, fail and hang up, Steam gives the URL of
\* a match once per lifespan of a response.
THEOREM SpectatedOnce == Spec => OneSpectatorPerLifespan
  BY Invariance, StoresApart, PTL DEF Spec, OneSpectatorPerLifespan

----------------------------------------------------------------------------
\* The page of the build creator: the loading indicator goes out, the parts of
\* the page fit together and, with endpoints that answer in order, the latest
\* load's data is what stays, for any heroes, ranks and number of requests.

\* Requests are told apart by their numbers, loads by theirs; a load that still
\* waits for the metadata is named by that first request.
Numbering ==
    /\ latest <= sent
    /\ \A c \in calls : c.no <= sent /\ c.load <= latest
    /\ \A c, d \in calls : c.no = d.no => c = d
    /\ \A c, d \in Loading : c.load = d.load => c = d
    /\ \A c \in Loading : c.await = "metadata" => c.no = c.load

\* With answers in order the loads stay in order: no load overtakes an earlier
\* one on its way to the statistics, and there they queue as they started.
LoadsInOrder ==
    inOrder => \A c, d \in Loading :
        /\ c.await = "stats" /\ d.await = "metadata" => c.load < d.load
        /\ c.await = "stats" /\ d.await = "stats" /\ c.no < d.no => c.load < d.load

\* The latest load is about what is selected.
LatestIsSelection ==
    /\ selectedHero = None => Loading = {} /\ outcome = "none"
    /\ \A c \in Loading : c.load = latest =>
          c.hero = selectedHero /\ (c.await = "stats" => c.rank = rank)

Settled == inOrder /\ outcome = "ok" => Loading = {} /\ itemData = Selection

PageInv == PageTypeOK /\ Numbering /\ LoadsInOrder /\ LatestIsSelection /\ Settled

\* What the parts of the page may hold.
LEMMA DatumFacts ==
    /\ None \in Datum
    /\ \A h \in Heroes, r \in Ranks : <<h, r>> \in Datum
  BY DEF Datum

\* The invariant holds at the start.
LEMMA InitPageInv == PageInit => PageInv
<1> SUFFICES ASSUME PageInit
             PROVE  PageInv
  OBVIOUS
<1>1. PageTypeOK
  BY PageConstantsAssumption, DatumFacts DEF PageInit, PageTypeOK, View
<1>2. Loading = {} /\ calls = {}
  BY DEF PageInit, Loading
<1>3. QED
  BY <1>1, <1>2 DEF PageInit, PageInv, Numbering, LoadsInOrder, LatestIsSelection, Settled

\* A load that starts keeps the types.
LEMMA StartLoadType ==
    ASSUME PageTypeOK, NEW h \in Heroes, StartLoad(h), rank' \in Ranks,
           UNCHANGED <<loaded, viewMode, inOrder>>
    PROVE  PageTypeOK'
<1>1. calls' \subseteq Call /\ sent' \in Nat /\ latest' \in Nat
  BY DEF PageTypeOK, StartLoad, NewCall, Call, Await
<1>2. /\ selectedHero' \in Heroes \cup {None}
      /\ itemData' \in Datum /\ buildPath' \in Datum
      /\ synergyData' \in Datum /\ synergyMap' \in Datum
  BY DatumFacts DEF PageTypeOK, StartLoad, loaded
<1>3. /\ abilitiesData' \in Heroes \cup {None} /\ viewMode' \in View
      /\ outcome' \in {"none", "running", "ok", "failed"}
  BY DEF PageTypeOK, StartLoad
<1>4. /\ synergiesLoaded' \in BOOLEAN /\ abilitiesLoaded' \in BOOLEAN /\ isLoading' \in BOOLEAN
  BY DEF StartLoad
<1>5. inOrder' \in BOOLEAN
  BY DEF PageTypeOK
<1>6. QED
  BY <1>1, <1>2, <1>3, <1>4, <1>5 DEF PageTypeOK

\* A load that starts comes after every other.
LEMMA StartLoadInv ==
    ASSUME PageInv, NEW h \in Heroes, NEW r \in Ranks,
           StartLoad(h), rank \in Ranks, rank' \in Ranks, UNCHANGED <<loaded, viewMode>>,
           rank' = rank \/ rank' = r, inOrder' = inOrder
    PROVE  PageInv'
<1> DEFINE n == NewCall("metadata", h, sent + 1)
<1>1. /\ n \in Call /\ n.await = "metadata" /\ n.no = sent + 1 /\ n.load = sent + 1 /\ n.hero = h
      /\ calls' = calls \cup {n} /\ sent' = sent + 1 /\ latest' = sent + 1
      /\ sent \in Nat /\ latest \in Nat /\ selectedHero' = h /\ outcome' = "running"
  BY DEF StartLoad, NewCall, Call, Await, PageInv, PageTypeOK
<1> HIDE DEF n
<1>2. /\ Loading' = Loading \cup {n}
      /\ Loading \subseteq calls
      /\ \A c \in calls : c \in Call /\ c.no \in Nat /\ c.load \in Nat
                          /\ c.no < n.no /\ c.load < n.load /\ c.load <= sent
  BY <1>1 DEF Loading, PageInv, PageTypeOK, Call, Numbering
<1>3. PageTypeOK'
  BY StartLoadType DEF PageInv
<1>4. Numbering'
  BY <1>1, <1>2 DEF PageInv, Numbering
<1>5. LoadsInOrder'
  BY <1>1, <1>2 DEF PageInv, LoadsInOrder
<1>6. LatestIsSelection'
  BY <1>1, <1>2, PageConstantsAssumption DEF LatestIsSelection
<1>7. Settled'
  BY <1>1 DEF Settled
<1>8. QED
  BY <1>3, <1>4, <1>5, <1>6, <1>7 DEF PageInv

\* The metadata of a load arrives: it asks for the statistics, last of all so far.
LEMMA MetadataArrivesInv ==
    ASSUME PageInv, NEW c \in calls, MetadataArrives(c), inOrder' = inOrder
    PROVE  PageInv'
<1> DEFINE n == NewCall("stats", c.hero, c.load)
<1>1. c \in Call /\ sent \in Nat /\ latest \in Nat
  BY DEF PageInv, PageTypeOK
<1>2. /\ n \in Call /\ n.await = "stats" /\ n.no = sent + 1 /\ n.load = c.load /\ n.hero = c.hero
      /\ n.rank = rank
      /\ calls' = (calls \ {c}) \cup {n} /\ sent' = sent + 1
      /\ UNCHANGED <<selectedHero, rank, loaded, buildPath, synergies, abilities, isLoading,
                     viewMode, history>>
  BY <1>1 DEF MetadataArrives, NewCall, Call, Await, PageInv, PageTypeOK
<1> HIDE DEF n
<1>3. /\ Loading' = (Loading \ {c}) \cup {n}
      /\ Loading \subseteq calls /\ c \in Loading /\ c.await = "metadata"
      /\ \A d \in calls : d \in Call /\ d.no \in Nat /\ d.load \in Nat /\ d.no < n.no
  BY <1>1, <1>2 DEF MetadataArrives, Loading, PageInv, PageTypeOK, Call, Numbering
<1>4. PageTypeOK'
  BY <1>2 DEF PageInv, PageTypeOK, loaded, synergies, abilities, history
<1>5. Numbering'
  BY <1>1, <1>2, <1>3 DEF PageInv, Numbering, history
<1>6. ASSUME inOrder, NEW d \in Loading, d # c
      PROVE  IF d.await = "metadata" THEN c.load < d.load ELSE d.load < c.load
  BY <1>1, <1>3, <1>6 DEF MetadataArrives, Answerable, PageInv, Numbering, LoadsInOrder, Loading, Call
<1>7. LoadsInOrder'
  BY <1>2, <1>3, <1>6 DEF PageInv, LoadsInOrder, Loading
<1>8. LatestIsSelection'
  BY <1>2, <1>3 DEF PageInv, LatestIsSelection, history
<1>9. Settled'
  BY <1>2, <1>3 DEF PageInv, Settled, Selection, loaded, history
<1>10. QED
  BY <1>4, <1>5, <1>7, <1>8, <1>9 DEF PageInv

\* Calls other than loads come and go without any effect on the loads.
LEMMA OthersInv ==
    ASSUME PageInv, PageTypeOK', NEW pending \in SUBSET calls,
           calls \ pending \subseteq {c \in calls : c \notin Loading},
           \/ calls' = pending /\ UNCHANGED sent
           \/ \E await \in {"pairs", "sequences"} :
                 calls' = pending \cup {NewCall(await, selectedHero, 0)} /\ sent' = sent + 1,
           UNCHANGED <<selectedHero, rank, itemData, inOrder, history>>
    PROVE  PageInv'
<1>1. Loading' = Loading
  BY DEF Loading, NewCall
<1>2. Numbering'
  BY <1>1 DEF PageInv, PageTypeOK, Numbering, NewCall, Call, history
<1>3. LoadsInOrder'
  BY <1>1 DEF PageInv, LoadsInOrder
<1>4. LatestIsSelection'
  BY <1>1 DEF PageInv, LatestIsSelection, history
<1>5. Settled'
  BY <1>1 DEF PageInv, Settled, Selection, history
<1>6. QED
  BY <1>2, <1>3, <1>4, <1>5 DEF PageInv

\* A load ends; with answers in order, one whose statistics arrive is the first.
LEMMA LoadEndsInv ==
    ASSUME PageInv, PageTypeOK', NEW c \in Loading,
           \/ calls' = calls \ {c} /\ UNCHANGED sent
           \/ \E await \in {"pairs", "sequences"} :
                 calls' = (calls \ {c}) \cup {NewCall(await, selectedHero, 0)} /\ sent' = sent + 1,
           \/ EndOf(c, "failed") /\ UNCHANGED itemData
           \/ EndOf(c, "ok") /\ itemData' = <<c.hero, c.rank>> /\ c.await = "stats" /\ Answerable(c),
           UNCHANGED <<selectedHero, rank, inOrder, latest>>
    PROVE  PageInv'
<1>1. Loading' = Loading \ {c} /\ Loading \subseteq calls /\ c \in Call
  BY DEF Loading, NewCall, PageInv, PageTypeOK
<1>2. Numbering'
  BY <1>1 DEF PageInv, PageTypeOK, Numbering, NewCall, Call
<1>3. LoadsInOrder'
  BY <1>1 DEF PageInv, LoadsInOrder
<1>4. LatestIsSelection'
  BY <1>1 DEF PageInv, LatestIsSelection
<1>5. Settled'
  <2> SUFFICES ASSUME inOrder, outcome' = "ok"
               PROVE  Loading' = {} /\ itemData' = Selection'
    BY DEF Settled
  <2>1. c.load = latest /\ EndOf(c, "ok") /\ itemData' = <<c.hero, c.rank>>
        /\ c.await = "stats" /\ Answerable(c)
    BY DEF EndOf, PageInv, Settled
  <2>2. itemData' = Selection'
    BY <2>1 DEF Selection, PageInv, LatestIsSelection
  <2>3. ASSUME NEW d \in Loading, d # c
        PROVE  FALSE
    <3>1. d \in Call /\ d \in calls /\ d.load <= latest /\ d.load # c.load
      BY <1>1, <2>1, <2>3 DEF PageInv, PageTypeOK, Numbering
    <3>2. CASE d.await = "metadata"
      BY <1>1, <2>1, <3>1, <3>2 DEF PageInv, PageTypeOK, LoadsInOrder, Call
    <3>3. CASE d.await = "stats"
      <4>1. c.no < d.no
        BY <1>1, <2>1, <2>3, <3>1, <3>3 DEF Answerable, PageInv, Numbering, Call
      <4>2. QED
        BY <1>1, <2>1, <3>1, <3>3, <4>1 DEF PageInv, PageTypeOK, LoadsInOrder, Call
    <3>4. QED
      BY <2>3, <3>2, <3>3 DEF Loading
  <2>4. QED
    BY <1>1, <2>2, <2>3
<1>6. QED
  BY <1>2, <1>3, <1>4, <1>5 DEF PageInv

\* Every step preserves the types.
LEMMA NextType ==
    ASSUME PageTypeOK, [PageNext]_pageVars
    PROVE  PageTypeOK'
<1>0. inOrder' = inOrder
  BY DEF PageNext, pageVars
<1>. USE <1>0, DatumFacts DEF PageTypeOK, loaded, synergies, abilities, history
<1>1. ASSUME NEW h \in Heroes, SelectHero(h)
      PROVE  PageTypeOK'
  BY <1>1, StartLoadType DEF SelectHero
<1>2. ASSUME NEW r \in Ranks, SelectRank(r)
      PROVE  PageTypeOK'
  <2>1. CASE selectedHero # None /\ StartLoad(selectedHero)
    BY <1>2, <2>1, StartLoadType DEF SelectRank
  <2>2. CASE UNCHANGED <<selectedHero, buildPath, abilities, isLoading, calls, sent, history>>
                /\ synergiesLoaded' = FALSE /\ synergyMap' = None
    BY <1>2, <2>2 DEF SelectRank
  <2>3. QED
    BY <1>2, <2>1, <2>2 DEF SelectRank
<1>3. ASSUME NEW v \in View, OpenView(v)
      PROVE  PageTypeOK'
  BY <1>3 DEF OpenView, FetchFor, NewCall, Call, Await
<1>4. ASSUME NEW c \in calls, Network(c)
      PROVE  PageTypeOK'
  <2>1. CASE MetadataArrives(c)
    BY <1>4, <2>1 DEF MetadataArrives, NewCall, Call, Await
  <2>2. CASE StatsArrive(c)
    <3>1. c \in Call /\ <<c.hero, c.rank>> \in Datum
      BY <1>4 DEF Call
    <3>2. calls' \subseteq Call /\ sent' \in Nat
      BY <1>4, <2>2 DEF StatsArrive, FetchFor, NewCall, Call, Await
    <3>3. /\ itemData' \in Datum /\ buildPath' \in Datum
          /\ synergyData' \in Datum /\ synergyMap' \in Datum
      BY <2>2, <3>1 DEF StatsArrive
    <3>4. synergiesLoaded' \in BOOLEAN /\ isLoading' \in BOOLEAN
          /\ outcome' \in {"none", "running", "ok", "failed"}
      BY <2>2 DEF StatsArrive, EndOf
    <3>5. QED
      BY <2>2, <3>2, <3>3, <3>4 DEF StatsArrive
  <2>3. CASE LoadFails(c)
    BY <2>3 DEF LoadFails, EndOf
  <2>4. CASE PairsArrive(c)
    BY <1>4, <2>4 DEF PairsArrive, Call
  <2>5. CASE SequencesArrive(c)
    BY <1>4, <2>5 DEF SequencesArrive, Call
  <2>6. CASE PanelFails(c)
    BY <2>6 DEF PanelFails
  <2>7. QED
    BY <1>4, <2>1, <2>2, <2>3, <2>4, <2>5, <2>6 DEF Network
<1>5. CASE UNCHANGED pageVars
  BY <1>5 DEF pageVars
<1>6. QED
  BY <1>1, <1>2, <1>3, <1>4, <1>5 DEF PageNext, User

\* Every step preserves the invariant.
LEMMA NextPageInv ==
    ASSUME PageInv, [PageNext]_pageVars
    PROVE  PageInv'
<1>0. PageTypeOK /\ PageTypeOK' /\ inOrder' = inOrder
  BY NextType DEF PageInv, PageNext, pageVars
<1>1. ASSUME NEW h \in Heroes, SelectHero(h)
      PROVE  PageInv'
  BY <1>0, <1>1, StartLoadInv DEF SelectHero, PageTypeOK
<1>2. ASSUME NEW r \in Ranks, SelectRank(r)
      PROVE  PageInv'
  <2>1. CASE selectedHero # None /\ StartLoad(selectedHero)
    BY <1>0, <1>2, <2>1, StartLoadInv DEF SelectRank, PageTypeOK
  <2>2. CASE selectedHero = None /\ UNCHANGED <<selectedHero, calls, sent, history, itemData>>
    <3>1. Loading = {} /\ Loading' = {} /\ outcome' = "none"
      BY <2>2 DEF PageInv, LatestIsSelection, Loading, history
    <3>2. QED
      BY <1>0, <2>2, <3>1
      DEF PageInv, Numbering, LoadsInOrder, LatestIsSelection, Settled, history
  <2>3. QED
    BY <1>2, <2>1, <2>2 DEF SelectRank, loaded
<1>3. ASSUME NEW v \in View, OpenView(v)
      PROVE  PageInv'
  <2>1. \/ calls' = calls /\ UNCHANGED sent
        \/ \E await \in {"pairs", "sequences"} :
              calls' = calls \cup {NewCall(await, selectedHero, 0)} /\ sent' = sent + 1
    BY <1>3 DEF OpenView, FetchFor
  <2>2. UNCHANGED <<selectedHero, rank, itemData, history>>
    BY <1>3 DEF OpenView, loaded
  <2>3. QED
    BY <1>0, <2>1, <2>2, OthersInv
<1>4. ASSUME NEW c \in calls, Network(c)
      PROVE  PageInv'
  <2>1. CASE MetadataArrives(c)
    BY <1>0, <2>1, MetadataArrivesInv
  <2>2. CASE StatsArrive(c)
    <3>1. \/ calls' = calls \ {c} /\ UNCHANGED sent
          \/ \E await \in {"pairs", "sequences"} :
                calls' = (calls \ {c}) \cup {NewCall(await, selectedHero, 0)} /\ sent' = sent + 1
      BY <2>2 DEF StatsArrive, FetchFor
    <3>2. /\ c \in Loading /\ EndOf(c, "ok") /\ itemData' = <<c.hero, c.rank>>
          /\ c.await = "stats" /\ Answerable(c) /\ UNCHANGED <<selectedHero, rank, latest>>
      BY <2>2 DEF StatsArrive, Loading
    <3>3. QED
      BY <1>0, <3>1, <3>2, LoadEndsInv
  <2>3. CASE LoadFails(c)
    <3>1. /\ c \in Loading /\ EndOf(c, "failed") /\ UNCHANGED <<itemData, sent>>
          /\ calls' = calls \ {c} /\ UNCHANGED <<selectedHero, rank, latest>>
      BY <2>3 DEF LoadFails, loaded
    <3>2. QED
      BY <1>0, <3>1, LoadEndsInv
  <2>4. CASE PairsArrive(c) \/ SequencesArrive(c) \/ PanelFails(c)
    <3>1. /\ c \notin Loading
          /\ calls' = calls \ {c} /\ UNCHANGED <<sent, selectedHero, rank, itemData, history>>
      BY <2>4 DEF PairsArrive, SequencesArrive, PanelFails, Loading, loaded
    <3>2. QED
      BY <1>0, <3>1, OthersInv
  <2>5. QED
    BY <1>4, <2>1, <2>2, <2>3, <2>4 DEF Network
<1>5. CASE UNCHANGED pageVars
  BY <1>5 DEF pageVars, PageInv, PageTypeOK, Numbering, LoadsInOrder, LatestIsSelection, Settled,
              Selection, Loading, loaded, synergies, abilities, history
<1>6. QED
  BY <1>1, <1>2, <1>3, <1>4, <1>5 DEF PageNext, User

\* The state of the page keeps its types (app.js:4-25).
THEOREM PageTypeCorrect == PageSpec => []PageTypeOK
<1>1. PageInit => PageTypeOK
  BY InitPageInv DEF PageInv
<1>2. QED
  BY <1>1, NextType, PTL DEF PageSpec

\* If each endpoint answers in the order it was asked, the items on the page are
\* those of the selected hero and rank once the latest load has succeeded and
\* none is under way (app.js:391-437).
THEOREM LatestLoadStays == PageSpec => []LatestLoadShown
<1>1. PageInv => LatestLoadShown
  BY DEF PageInv, Settled, LatestLoadShown
<1>2. QED
  BY <1>1, InitPageInv, NextPageInv, PTL DEF PageSpec

\* Whatever the order of the answers, the loading indicator shows only while a
\* load is under way (app.js showLoading, hideLoading).
THEOREM SpinnerGoesOut == PageSpec => []SpinnerStops
<1>1. PageInit => SpinnerStops
  BY DEF PageInit, SpinnerStops
<1>2. ASSUME SpinnerStops, [PageNext]_pageVars
      PROVE  SpinnerStops'
  <2>1. ASSUME NEW h, StartLoad(h)
        PROVE  SpinnerStops'
    <3>1. NewCall("metadata", h, sent + 1) \in Loading'
      BY <2>1 DEF StartLoad, NewCall, Loading
    <3>2. QED
      BY <3>1 DEF SpinnerStops
  <2>2. ASSUME NEW c \in calls, MetadataArrives(c)
        PROVE  SpinnerStops'
    <3>1. NewCall("stats", c.hero, c.load) \in Loading'
      BY <2>2 DEF MetadataArrives, NewCall, Loading
    <3>2. QED
      BY <3>1 DEF SpinnerStops
  <2>3. ASSUME NEW c \in calls, StatsArrive(c) \/ LoadFails(c)
        PROVE  SpinnerStops'
    BY <2>3 DEF StatsArrive, LoadFails, SpinnerStops
  <2>4. ASSUME isLoading' = isLoading, Loading \subseteq Loading'
        PROVE  SpinnerStops'
    BY <1>2, <2>4 DEF SpinnerStops
  <2>5. ASSUME NEW r \in Ranks, SelectRank(r)
        PROVE  SpinnerStops'
    BY <2>1, <2>4, <2>5 DEF SelectRank, Loading
  <2>6. ASSUME NEW v \in View, OpenView(v)
        PROVE  SpinnerStops'
    BY <2>4, <2>6 DEF OpenView, FetchFor, Loading
  <2>7. ASSUME NEW c \in calls, PairsArrive(c) \/ SequencesArrive(c) \/ PanelFails(c)
        PROVE  SpinnerStops'
    BY <2>4, <2>7 DEF PairsArrive, SequencesArrive, PanelFails, Loading
  <2>8. CASE UNCHANGED pageVars
    BY <2>4, <2>8 DEF pageVars, Loading
  <2>9. QED
    BY <1>2, <2>1, <2>2, <2>3, <2>5, <2>6, <2>7, <2>8 DEF PageNext, User, Network, SelectHero
<1>3. QED
  BY <1>1, <1>2, PTL DEF PageSpec

\* Whatever overlaps, the upgrade chains are those of the item statistics shown
\* and the synergy badges those of the raw pairs kept, or there are none
\* (app.js:391-437, 439-486): a handler that stores one stores or clears the other
\* before its next await.
THEOREM PartsAgree == PageSpec => []ViewsAgree
<1>1. PageInit => ViewsAgree
  BY DEF PageInit, ViewsAgree
<1>2. ASSUME ViewsAgree, [PageNext]_pageVars
      PROVE  ViewsAgree'
  <2>1. ASSUME buildPath' \in {None, buildPath}, synergyMap' \in {None, synergyMap},
               UNCHANGED loaded
        PROVE  ViewsAgree'
    BY <1>2, <2>1 DEF ViewsAgree, loaded
  <2>2. ASSUME NEW h \in Heroes, SelectHero(h)
        PROVE  ViewsAgree'
    BY <2>1, <2>2 DEF SelectHero, StartLoad
  <2>3. ASSUME NEW r \in Ranks, SelectRank(r)
        PROVE  ViewsAgree'
    BY <2>1, <2>3 DEF SelectRank, StartLoad
  <2>4. ASSUME NEW v \in View, OpenView(v)
        PROVE  ViewsAgree'
    BY <2>1, <2>4 DEF OpenView
  <2>5. ASSUME NEW c \in calls, StatsArrive(c)
        PROVE  ViewsAgree'
    BY <2>5 DEF StatsArrive, ViewsAgree
  <2>6. ASSUME NEW c \in calls, PairsArrive(c)
        PROVE  ViewsAgree'
    BY <1>2, <2>6 DEF PairsArrive, ViewsAgree
  <2>7. ASSUME NEW c \in calls,
               MetadataArrives(c) \/ LoadFails(c) \/ SequencesArrive(c) \/ PanelFails(c)
        PROVE  ViewsAgree'
    BY <2>1, <2>7 DEF MetadataArrives, LoadFails, SequencesArrive, PanelFails, synergies
  <2>8. CASE UNCHANGED pageVars
    BY <2>1, <2>8 DEF pageVars, synergies
  <2>9. QED
    BY <1>2, <2>2, <2>3, <2>4, <2>5, <2>6, <2>7, <2>8 DEF PageNext, User, Network
<1>3. QED
  BY <1>1, <1>2, PTL DEF PageSpec
=============================================================================

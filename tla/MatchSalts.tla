----------------------------- MODULE MatchSalts -----------------------------
(***************************************************************************)
(* The salts that locate a match's files on Valve's servers: clients       *)
(* submit them (routes/v1/matches/ingest_salts.rs) and ask for them        *)
(* (salts.rs), and the server asks Steam for those it does not have.       *)
(*                                                                         *)
(* match_salts is a ReplacingMergeTree without a version: of the rows of a *)
(* match the last one inserted counts, and it counts whole.                *)
(***************************************************************************)
EXTENDS Naturals, Sequences, FiniteSets

CONSTANTS
    Matches,        \* match ids
    TooOld,         \* those before FIRST_MATCH_DECEMBER_2024
    Fetches,        \* calls of fetch_match_salts
    Ingests,        \* calls of ingest_salts
    Entries,        \* the salts clients submit
    SteamAnswers,   \* the salts Steam answers with
    SaltsTtl,       \* lifespan of fetched salts: 1 minute
    HasTtl,         \* lifespan of "is it stored": 1 hour
    MaxQuery,       \* how long the query for it takes at most
    MaxTime         \* bound on the clock

\* A salt, as an Option<u32>: only one that is positive is of use.
Salt == {"none", "zero", "set"}
ClickhouseSalts == [match : Matches, meta : Salt, replay : Salt, cluster : Salt]

ASSUME ConstantsAssumption ==
    /\ TooOld \subseteq Matches
    /\ Entries \subseteq ClickhouseSalts
    /\ SteamAnswers \subseteq [meta : Salt, replay : Salt, cluster : Salt]
    /\ {SaltsTtl, HasTtl, MaxQuery} \subseteq Nat /\ MaxTime \in Nat \ {0}

Absent(m) == [match |-> m, meta |-> "none", replay |-> "none", cluster |-> "none"]
Kinds == {"meta", "replay"}

VARIABLES
    now,        \* the clock
    row,        \* match_salts FINAL: match -> its row
    info,       \* matches that have a row in match_info
    salts,      \* the cache of fetch_match_salts: match -> row and when stored
    slots,      \* HAS_SALTS_IN_CLICKHOUSE: key -> its slots, the last one current
    fpc, fmatch, fsalts,        \* fetch -> where it stands, its match, its result
    ipc, checks, slotOf, since, \* ingest -> where it stands; entry -> its check,
    kept                        \*   the slot it took, its start; entries left in

\* History, never read by a guard.
VARIABLES
    heldAt,     \* match -> kind -> when the table last had such a salt
    refused,    \* [entry, at, held]: entries dropped as known
    fetched,    \* match -> how often Steam was asked for it with success
    lapses      \* match -> how often its usable row was lost or not stored

fvars == <<fpc, fmatch, fsalts>>
ivars == <<ipc, checks, slotOf, since, kept>>
vars == <<now, row, info, salts, slots, fvars, ivars, heldAt, refused, fetched, lapses>>

Key(e) == <<e.match, e.meta # "none", e.replay # "none">>
HasKeys == Matches \X BOOLEAN \X BOOLEAN
EmptySlot == [at |-> 0, known |-> FALSE]
Usable(r) == r.meta = "set" /\ r.cluster = "set"
Querying == {"query", "known", "new"}
Locking == {"table", "info", "limits", "steam", "write", "end"}

Init ==
    /\ now = 1
    /\ row = [m \in Matches |-> Absent(m)]
    /\ info = {}
    /\ salts = [m \in Matches |-> [at |-> 0, row |-> Absent(m)]]
    /\ slots = [k \in HasKeys |-> <<EmptySlot>>]
    /\ fpc = [f \in Fetches |-> "idle"]
    /\ fmatch \in [Fetches -> Matches]
    /\ fsalts = [f \in Fetches |-> Absent(fmatch[f])]
    /\ ipc = [i \in Ingests |-> "idle"]
    /\ checks = [i \in Ingests |-> [e \in Entries |-> "none"]]
    /\ slotOf = [i \in Ingests |-> [e \in Entries |-> 0]]
    /\ since = [i \in Ingests |-> [e \in Entries |-> 0]]
    /\ kept = [i \in Ingests |-> {}]
    /\ heldAt = [m \in Matches |-> [k \in Kinds |-> 0]]
    /\ refused = {}
    /\ fetched = [m \in Matches |-> 0]
    /\ lapses = [m \in Matches |-> 0]

----------------------------------------------------------------------------
\* insert_salts_to_clickhouse

\* Writing a row replaces the slot of its key by an empty one.
ResetSlots(es) ==
    slots' = [k \in HasKeys |->
                IF \E e \in es : Key(e) = k THEN Append(slots[k], EmptySlot) ELSE slots[k]]

Held(r, at, t) == [k \in Kinds |-> IF r[k] = "set" THEN t ELSE at[k]]

\* The insertion ends: of several rows of a match any may come last.
StoreRows(es) ==
    \E last \in SUBSET es :
        /\ \A e \in es : Cardinality({l \in last : l.match = e.match}) = 1
        /\ row' = [m \in Matches |-> IF \E l \in last : l.match = m
                                     THEN CHOOSE l \in last : l.match = m ELSE row[m]]
        /\ lapses' = [m \in Matches |->
             IF Usable(row[m]) /\ ~Usable(row'[m]) THEN lapses[m] + 1 ELSE lapses[m]]
        /\ heldAt' = [m \in Matches |-> Held(row'[m], heldAt[m], now)]

NothingStored == UNCHANGED <<row, heldAt, lapses>>

----------------------------------------------------------------------------
\* has_salts_in_clickhouse and ingest_salts

\* Mutant: the flags of the caller are not looked at.
HasAnySalt(r, e) == r.meta = "set" \/ r.replay = "set"

\* One of the salts the entry brings is stored.
HasSalt(r, e) ==
    \/ r.meta = "set" /\ e.meta # "none"
    \/ r.replay = "set" /\ e.replay # "none"

StartIngest(i) ==
    /\ ipc[i] = "idle"
    /\ \E es \in SUBSET Entries :
         /\ checks' = [checks EXCEPT ![i] = [e \in Entries |-> IF e \in es THEN "asked" ELSE "none"]]
         /\ slotOf' = [slotOf EXCEPT ![i] = [e \in Entries |-> Len(slots[Key(e)])]]
    /\ ipc' = [ipc EXCEPT ![i] = "filter"]
    /\ UNCHANGED <<now, row, info, salts, slots, fvars, since, kept, heldAt, refused, fetched, lapses>>

Slot(i, e) == slots[Key(e)][slotOf[i][e]]
SlotLocked(i, e) ==
    \E j \in Ingests, d \in Entries :
        checks[j][d] \in Querying /\ Key(d) = Key(e) /\ slotOf[j][d] = slotOf[i][e]
SlotAlive(i, e) == Slot(i, e).at # 0 /\ now < Slot(i, e).at + HasTtl

Decide(i, e, known) ==
    /\ checks' = [checks EXCEPT ![i][e] = "done"]
    /\ kept' = [kept EXCEPT ![i] = IF known THEN @ ELSE @ \cup {e}]
    /\ refused' = IF ~known THEN refused
                  ELSE refused \cup {[entry |-> e, at |-> now, held |-> heldAt[e.match]]}

CheckCached(i, e) ==
    /\ checks[i][e] = "asked" /\ ~SlotLocked(i, e) /\ SlotAlive(i, e)
    /\ Decide(i, e, Slot(i, e).known)
    /\ UNCHANGED <<now, row, info, salts, slots, fvars, ipc, slotOf, since, heldAt, fetched, lapses>>

CheckQuery(i, e) ==
    /\ checks[i][e] = "asked" /\ ~SlotLocked(i, e) /\ ~SlotAlive(i, e)
    /\ checks' = [checks EXCEPT ![i][e] = "query"]
    /\ since' = [since EXCEPT ![i][e] = now]
    /\ UNCHANGED <<now, row, info, salts, slots, fvars, ipc, slotOf, kept, heldAt, refused, fetched, lapses>>

CheckReads(i, e) ==
    /\ checks[i][e] = "query"
    /\ checks' = [checks EXCEPT ![i][e] = IF HasSalt(row[e.match], e) THEN "known" ELSE "new"]
    /\ UNCHANGED <<now, row, info, salts, slots, fvars, ipc, slotOf, since, kept, heldAt, refused, fetched, lapses>>

\* A failed query counts as "not stored", and is kept as long.
CheckEnds(i, e) ==
    /\ checks[i][e] \in {"known", "new"}
    /\ \E known \in {checks[i][e] = "known", FALSE} :
         /\ slots' = [slots EXCEPT ![Key(e)][slotOf[i][e]] = [at |-> now, known |-> known]]
         /\ Decide(i, e, known)
    /\ UNCHANGED <<now, row, info, salts, fvars, ipc, slotOf, since, heldAt, fetched, lapses>>

IngestFiltered(i) ==
    /\ ipc[i] = "filter"
    /\ \A e \in Entries : checks[i][e] \in {"none", "done"}
    /\ IF kept[i] = {} THEN ipc' = [ipc EXCEPT ![i] = "success"] /\ UNCHANGED slots
       ELSE \/ ipc' = [ipc EXCEPT ![i] = "end"] /\ ResetSlots(kept[i])
            \/ ipc' = [ipc EXCEPT ![i] = "error"]       \* a write fails
               /\ \E es \in SUBSET kept[i] : ResetSlots(es)
    /\ UNCHANGED <<now, row, info, salts, fvars, checks, slotOf, since, kept, heldAt, refused, fetched, lapses>>

\* Mutant: the error of the insertion is swallowed.
IngestEndsUnchecked(i) ==
    /\ ipc[i] = "end"
    /\ ipc' = [ipc EXCEPT ![i] = "success"]
    /\ NothingStored \/ StoreRows(kept[i])
    /\ UNCHANGED <<now, info, salts, slots, fvars, checks, slotOf, since, kept, refused, fetched>>

\* An insertion that reports an error may have been carried out all the same.
IngestEnds(i) ==
    /\ ipc[i] = "end"
    /\ \/ ipc' = [ipc EXCEPT ![i] = "success"] /\ StoreRows(kept[i])
       \/ ipc' = [ipc EXCEPT ![i] = "error"] /\ (NothingStored \/ StoreRows(kept[i]))
    /\ UNCHANGED <<now, info, salts, slots, fvars, checks, slotOf, since, kept, refused, fetched>>

----------------------------------------------------------------------------
\* fetch_match_salts, and the endpoint around it

\* Mutant: calls for the same match do not wait for each other.
NeverLocked(m) == FALSE
MatchLocked(m) == \E f \in Fetches : fmatch[f] = m /\ fpc[f] \in Locking

Fetch(f) ==
    /\ fpc[f] = "idle" /\ ~MatchLocked(fmatch[f])
    /\ LET c == salts[fmatch[f]] IN
       IF c.at # 0 /\ now < c.at + SaltsTtl
       THEN /\ fpc' = [fpc EXCEPT ![f] = "ok"]
            /\ fsalts' = [fsalts EXCEPT ![f] = c.row]
       ELSE fpc' = [fpc EXCEPT ![f] = "table"] /\ UNCHANGED fsalts
    /\ UNCHANGED <<now, row, info, salts, slots, fmatch, ivars, heldAt, refused, fetched, lapses>>

\* Mutant: any row of the match will do.
FoundInTable(r) == r.meta # "none"
\* ... metadata_salt > 0 AND cluster_id > 0
InTable(r) == Usable(r)

\* Mutant: the entry is dated by its end.
AnswerUntil(f, r) ==
    /\ fpc' = [fpc EXCEPT ![f] = "ok"]
    /\ fsalts' = [fsalts EXCEPT ![f] = r]
    /\ salts' = [salts EXCEPT ![fmatch[f]] = [at |-> now + SaltsTtl, row |-> r]]

Answer(f, r) ==
    /\ fpc' = [fpc EXCEPT ![f] = "ok"]
    /\ fsalts' = [fsalts EXCEPT ![f] = r]
    /\ salts' = [salts EXCEPT ![fmatch[f]] = [at |-> now, row |-> r]]

\* A failed query is taken for a missing row.
LookInTable(f) ==
    /\ fpc[f] = "table"
    /\ \/ InTable(row[fmatch[f]]) /\ Answer(f, row[fmatch[f]]) /\ UNCHANGED lapses
       \/ /\ fpc' = [fpc EXCEPT ![f] = "info"]
          /\ lapses' = [lapses EXCEPT ![fmatch[f]] = IF Usable(row[fmatch[f]]) THEN @ + 1 ELSE @]
          /\ UNCHANGED <<fsalts, salts>>
    /\ UNCHANGED <<now, row, info, slots, fmatch, ivars, heldAt, refused, fetched>>

LookForInfo(f) ==
    /\ fpc[f] = "info"
    /\ \/ fmatch[f] \in info \cup TooOld /\ fpc' = [fpc EXCEPT ![f] = "bad_request"]
       \/ fmatch[f] \notin TooOld /\ fpc' = [fpc EXCEPT ![f] = "limits"]
    /\ UNCHANGED <<now, row, info, salts, slots, fmatch, fsalts, ivars, heldAt, refused, fetched, lapses>>

Limits(f) ==
    /\ fpc[f] = "limits"
    /\ fpc' = [fpc EXCEPT ![f] = "steam"] \/ fpc' = [fpc EXCEPT ![f] = "error"]
    /\ UNCHANGED <<now, row, info, salts, slots, fmatch, fsalts, ivars, heldAt, refused, fetched, lapses>>

\* A result other than success, no group or no metadata salt: not found.
AskSteam(f) ==
    /\ fpc[f] = "steam"
    /\ \/ fpc' = [fpc EXCEPT ![f] = "error"] /\ UNCHANGED fsalts
       \/ \E s \in SteamAnswers :
            IF s.cluster # "none" /\ s.meta = "set"
            THEN /\ fsalts' = [fsalts EXCEPT ![f] = [match |-> fmatch[f], meta |-> s.meta,
                                                     replay |-> s.replay, cluster |-> s.cluster]]
                 /\ fpc' = [fpc EXCEPT ![f] = "write"]
            ELSE fpc' = [fpc EXCEPT ![f] = "not_found"] /\ UNCHANGED fsalts
    /\ UNCHANGED <<now, row, info, salts, slots, fmatch, ivars, heldAt, refused, fetched, lapses>>

WriteFetched(f) ==
    /\ fpc[f] = "write"
    /\ ResetSlots({fsalts[f]})
    /\ fpc' = [fpc EXCEPT ![f] = "end"]
    /\ UNCHANGED <<now, row, info, salts, fmatch, fsalts, ivars, heldAt, refused, fetched, lapses>>

\* What Steam said is answered whether or not it could be stored.
FetchEnds(f) ==
    LET m == fmatch[f] IN
    /\ fpc[f] = "end"
    /\ Answer(f, fsalts[f])
    /\ fetched' = [fetched EXCEPT ![m] = @ + 1]
    /\ \E stored \in BOOLEAN :
         /\ row' = IF stored THEN [row EXCEPT ![m] = fsalts[f]] ELSE row
         /\ lapses' = IF stored /\ Usable(fsalts[f]) THEN lapses ELSE [lapses EXCEPT ![m] = @ + 1]
         /\ heldAt' = [heldAt EXCEPT ![m] = Held(row'[m], @, now)]
    /\ UNCHANGED <<now, info, slots, fmatch, ivars, refused>>

----------------------------------------------------------------------------
\* The ingest worker outside the repository parses a match.
MatchParsed(m) ==
    /\ m \notin info
    /\ info' = info \cup {m}
    /\ UNCHANGED <<now, row, salts, slots, fvars, ivars, heldAt, refused, fetched, lapses>>

Tick ==
    /\ now < MaxTime
    /\ \A i \in Ingests, e \in Entries : checks[i][e] \in Querying => now < since[i][e] + MaxQuery
    /\ now' = now + 1
    /\ heldAt' = [m \in Matches |-> Held(row[m], heldAt[m], now')]
    /\ UNCHANGED <<row, info, salts, slots, fvars, ivars, refused, fetched, lapses>>

FetchStep(f) ==
    \/ Fetch(f) \/ LookInTable(f) \/ LookForInfo(f) \/ Limits(f)
    \/ AskSteam(f) \/ WriteFetched(f) \/ FetchEnds(f)
CheckStep(i, e) == CheckCached(i, e) \/ CheckQuery(i, e) \/ CheckReads(i, e) \/ CheckEnds(i, e)

Next ==
    \/ \E f \in Fetches : FetchStep(f)
    \/ \E i \in Ingests : StartIngest(i) \/ IngestFiltered(i) \/ IngestEnds(i)
    \/ \E i \in Ingests, e \in Entries : CheckStep(i, e)
    \/ \E m \in Matches : MatchParsed(m)
    \/ Tick

Spec == Init /\ [][Next]_vars

----------------------------------------------------------------------------
\* Properties

TypeOK ==
    /\ now \in 1..MaxTime /\ info \subseteq Matches
    /\ \A m \in Matches : row[m] \in ClickhouseSalts /\ row[m].match = m
    /\ \A m \in Matches : salts[m].at \in 0..now /\ salts[m].row \in ClickhouseSalts
    /\ fpc \in [Fetches -> Locking \cup {"idle", "ok", "bad_request", "not_found", "error"}]
    /\ ipc \in [Ingests -> {"idle", "filter", "end", "success", "error"}]
    /\ \A i \in Ingests : kept[i] \subseteq {e \in Entries : checks[i][e] = "done"}
    /\ \A i \in Ingests, e \in Entries :
         /\ checks[i][e] \in Querying \cup {"none", "asked", "done"}
         /\ checks[i][e] # "none" => slotOf[i][e] \in 1..Len(slots[Key(e)])

\* Salts the endpoint answers with make a metadata URL that names a real salt,
\* whatever clients have submitted: a zero salt is never handed on
\* (salts.rs:46, 79, 154).
AnswersGiveUrl ==
    \A f \in Fetches : fpc[f] = "ok" => fsalts[f].meta = "set" /\ fsalts[f].cluster # "none"

\* Steam's quota of salts is scarce: each successful fetch of a match beyond the
\* first is owed to a row that was lost, never stored, or not read, and two
\* calls at once never fetch twice (salts.rs:67, 79).
FetchesAccountedFor == \A m \in Matches : fetched[m] <= 1 + lapses[m]

\* An entry is only dropped as known if the table held a salt of a kind the
\* entry brings, no longer ago than the cache and one query last: rows are
\* replaced whole, so the cached yes may speak of a row that is gone
\* (ingest_salts.rs:45).
RefusalsGrounded ==
    \A r \in refused : \E k \in Kinds :
        r.entry[k] # "none" /\ r.held[k] # 0 /\ r.at <= r.held[k] + HasTtl + MaxQuery

\* Of an ingest that is told success the useful salts were in the table at some
\* time, unless the same ingest brought a second row for the match: the table
\* keeps one row of them, whichever it is (ingest_salts.rs:158).
SuccessMeansStored ==
    \A i \in Ingests : ipc[i] = "success" =>
        \A e \in Entries :
            checks[i][e] = "done" /\ e.meta = "set"
              => \/ \E k \in Kinds : heldAt[e.match][k] # 0
                 \/ \E d \in kept[i] \ {e} : d.match = e.match
=============================================================================

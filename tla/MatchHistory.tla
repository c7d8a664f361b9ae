---------------------------- MODULE MatchHistory ----------------------------
(***************************************************************************)
(* The match history of one player (routes/v1/players/match_history.rs):   *)
(* concurrent calls of match_history read the stored rows, page through    *)
(* Steam's history behind a timed cache that lets one call per key fetch,  *)
(* insert the rows they did not see and answer with both.                  *)
(*                                                                         *)
(* A match is its id; ids grow with time.  Rows that differ only in what   *)
(* they say of a match are one row here, counted with their multiplicity.  *)
(***************************************************************************)
EXTENDS Naturals, FiniteSets

CONSTANTS
    Requests,       \* calls of match_history for the player
    Matches,        \* ids of the matches the player will have played
    Unparsable,     \* matches from_protobuf drops: a field missing or too wide
    Kinds,          \* the query flags callers send
    PageSize,       \* matches in one answer of Steam
    MaxRefetch,     \* MAX_REFETCH_ITERATIONS (100 in the code)
    CacheTtl,       \* lifespan of the fetched history: 8 minutes
    HonestCursor,   \* whether Steam's continue_cursor always follows the pages
    ServicesFail,   \* whether Steam and ClickHouse may fail
    MaxTime         \* bound on the clock

Kind == {"plain", "force", "stored", "both"}

ASSUME ConstantsAssumption ==
    /\ Matches \subseteq Nat \ {0} /\ Unparsable \subseteq Matches
    /\ Kinds \subseteq Kind
    /\ {PageSize, CacheTtl} \subseteq Nat \ {0}
    /\ {MaxRefetch, MaxTime} \subseteq Nat
    /\ {HonestCursor, ServicesFail} \subseteq BOOLEAN

Cursors == Matches \cup {0}     \* 0 stands for none, which ends the pages too
FetchKinds == {"plain", "force"}
Nobody == "nobody"

ASSUME NobodyAssumption == Nobody \notin Requests

VARIABLES
    now,        \* the clock
    steam,      \* Steam: the matches played so far
    rows,       \* ClickHouse: match -> how many rows it has
    cache,      \* kind of fetch -> the cached history and when it was stored
    lock,       \* kind of fetch -> the call that holds the key's lock
    pc,         \* call -> where it stands
    kind,       \* call -> its flags
    stored,     \* call -> the stored history it read
    fetched,    \* call -> what it has from Steam
    cursor,     \* call -> the cursor of its next page
    pages,      \* call -> pages fetched (`iterations`)
    answer      \* call -> the matches it answered with

\* History, never read by a guard.
VARIABLES
    playedAt,   \* match -> when it was played
    askedAt,    \* call -> when it began
    filledAt,   \* call -> when its fetch filled the cache, 0 if it did not
    steamOk,    \* calls whose fetch succeeded
    lost,       \* matches a failed or abandoned insert may have left out
    met,        \* pairs of calls that ran at the same time
    shown,      \* call -> the matches answered before it began
    astray      \* has a cursor of Steam's ever not followed the pages

fetch == <<cache, lock, cursor, pages, fetched>>
history == <<playedAt, askedAt, filledAt, steamOk, lost, met, shown, astray>>
vars == <<now, steam, rows, fetch, pc, kind, stored, answer, history>>

PcState == {"idle", "limit", "lock", "page", "insert", "ok", "failed"}
Ended == {"ok", "failed"}
Running == {q \in Requests : pc[q] \notin Ended \cup {"idle"}}

NoEntry == [at |-> 0, list |-> {}]

Init ==
    /\ now = 1
    /\ steam = {}
    /\ rows = [m \in Matches |-> 0]
    /\ cache = [k \in FetchKinds |-> NoEntry]
    /\ lock = [k \in FetchKinds |-> Nobody]
    /\ pc = [q \in Requests |-> "idle"]
    /\ kind \in [Requests -> Kinds]
    /\ stored = [q \in Requests |-> {}]
    /\ fetched = [q \in Requests |-> {}]
    /\ cursor = [q \in Requests |-> 0]
    /\ pages = [q \in Requests |-> 0]
    /\ answer = [q \in Requests |-> {}]
    /\ playedAt = [m \in Matches |-> 0]
    /\ askedAt = [q \in Requests |-> 0]
    /\ filledAt = [q \in Requests |-> 0]
    /\ steamOk = {} /\ lost = {} /\ met = {}
    /\ shown = [q \in Requests |-> {}]
    /\ astray = FALSE

Goto(q, label) == pc' = [pc EXCEPT ![q] = label]
Answer(q, list) == Goto(q, "ok") /\ answer' = [answer EXCEPT ![q] = list]
Fail(q) == Goto(q, "failed") /\ UNCHANGED answer

----------------------------------------------------------------------------
\* Steam's pages

Newest(list, n) == {m \in list : Cardinality({x \in list : x > m}) < n}
From(c) == {m \in steam : c # 0 => m < c}
PageAt(c) == Newest(From(c), PageSize)
Parsed(list) == list \ Unparsable

\* The cursor that comes with a page: its oldest match while there are older
\* ones, or, when Steam is not trusted, anything.
HonestCursors(c) ==
    IF From(c) = PageAt(c) THEN {0}
    ELSE {m \in PageAt(c) : \A x \in PageAt(c) : m <= x}
NextCursors(c) == IF HonestCursor THEN HonestCursors(c) ELSE Cursors

\* Mutant: the first page's missing cursor is compared as zero.
LastPageFirst(q, list, next) ==
    list = {} \/ kind[q] = "plain" \/ next >= cursor[q] \/ pages[q] + 1 > MaxRefetch

\* The breaks of fetch_steam_match_history's loop, after page number
\* `iterations` = pages[q] + 1.
LastPage(q, list, next) ==
    \/ list = {}
    \/ kind[q] = "plain"
    \/ next = 0
    \/ cursor[q] # 0 /\ next >= cursor[q]
    \/ pages[q] + 1 > MaxRefetch

----------------------------------------------------------------------------
\* match_history

StoredMatches == {m \in Matches : rows[m] > 0}

\* Up to the quotas: a protected player, contradictory flags and a failed query
\* end the call; only_stored_history needs nothing else.
Begin(q) ==
    /\ pc[q] = "idle"
    /\ askedAt' = [askedAt EXCEPT ![q] = now]
    /\ met' = met \cup {{q, r} : r \in Running}
    /\ shown' = [shown EXCEPT ![q] = UNION {answer[r] : r \in Requests}]
    /\ \/ kind[q] = "both" /\ Fail(q) /\ UNCHANGED stored
       \/ ServicesFail /\ Fail(q) /\ UNCHANGED stored
       \/ /\ kind[q] # "both"
          /\ stored' = [stored EXCEPT ![q] = StoredMatches]
          /\ IF kind[q] = "stored" THEN Answer(q, StoredMatches)
             ELSE Goto(q, "limit") /\ UNCHANGED answer
    /\ UNCHANGED <<now, steam, rows, fetch, kind, playedAt, filledAt, steamOk, lost, astray>>

\* apply_limits, of "match_history_refetch" or "match_history".
Limit(q) ==
    /\ pc[q] = "limit"
    /\ \/ Goto(q, "lock") /\ UNCHANGED answer
       \/ Fail(q)
    /\ UNCHANGED <<now, steam, rows, fetch, kind, stored, history>>

\* Mutant: the entry's age is not looked at.
AliveForEver(entry) == entry.at # 0

Alive(entry) == entry.at # 0 /\ now < entry.at + CacheTtl

EntryOf(q) == cache[kind[q]]

\* sync_writes = "by_key": the key's lock, then the cache, then the function.
CacheHit(q) ==
    /\ pc[q] = "lock"
    /\ lock[kind[q]] = Nobody
    /\ Alive(EntryOf(q))
    /\ fetched' = [fetched EXCEPT ![q] = EntryOf(q).list]
    /\ steamOk' = steamOk \cup {q}
    /\ Goto(q, "insert")
    /\ UNCHANGED <<now, steam, rows, cache, lock, cursor, pages, kind, stored, answer,
                   playedAt, askedAt, filledAt, lost, met, shown, astray>>

CacheMiss(q) ==
    /\ pc[q] = "lock"
    /\ lock[kind[q]] = Nobody
    /\ ~Alive(EntryOf(q))
    /\ lock' = [lock EXCEPT ![kind[q]] = q]
    /\ Goto(q, "page")
    /\ UNCHANGED <<now, steam, rows, cache, cursor, pages, fetched, kind, stored, answer, history>>

\* One turn of the loop; the last one fills the cache and frees the key.
FetchPage(q) ==
    /\ pc[q] = "page"
    /\ pages' = [pages EXCEPT ![q] = @ + 1]
    /\ \E next \in NextCursors(cursor[q]) :
          LET list == Parsed(PageAt(cursor[q]))
              all  == fetched[q] \cup list
          IN  /\ fetched' = [fetched EXCEPT ![q] = all]
              /\ astray' = (astray \/ next \notin HonestCursors(cursor[q]))
              /\ IF LastPage(q, list, next)
                 THEN /\ cache' = [cache EXCEPT ![kind[q]] = [at |-> now, list |-> all]]
                      /\ lock' = [lock EXCEPT ![kind[q]] = Nobody]
                      /\ steamOk' = steamOk \cup {q}
                      /\ filledAt' = [filledAt EXCEPT ![q] = now]
                      /\ Goto(q, "insert")
                      /\ UNCHANGED cursor
                 ELSE /\ cursor' = [cursor EXCEPT ![q] = next]
                      /\ UNCHANGED <<cache, lock, steamOk, filledAt, pc>>
    /\ UNCHANGED <<now, steam, rows, kind, stored, answer, playedAt, askedAt, lost, met, shown>>

\* Mutant: the key's lock outlives the failed fetch.
PageFailsLocked(q) ==
    /\ ServicesFail
    /\ pc[q] = "page"
    /\ fetched' = [fetched EXCEPT ![q] = {}]
    /\ Goto(q, "insert")
    /\ UNCHANGED <<now, steam, rows, cache, lock, cursor, pages, kind, stored, answer, history>>

\* An error on any page discards the pages before it; result = true caches
\* nothing, and the handler goes on with no match from Steam.
PageFails(q) ==
    /\ ServicesFail
    /\ pc[q] = "page"
    /\ fetched' = [fetched EXCEPT ![q] = {}]
    /\ lock' = [lock EXCEPT ![kind[q]] = Nobody]
    /\ Goto(q, "insert")
    /\ UNCHANGED <<now, steam, rows, cache, cursor, pages, kind, stored, answer, history>>

\* Mutant: every fetched entry is inserted.
MissingNone(q) == fetched[q]

Missing(q) == fetched[q] \ stored[q]

\* Mutant: the histories are not combined, Steam's is returned.
CombinedFetched(q) == fetched[q]

Combined(q) == stored[q] \cup fetched[q]

InsertMissing(q) ==
    /\ pc[q] = "insert"
    /\ rows' = [m \in Matches |-> IF m \in Missing(q) THEN rows[m] + 1 ELSE rows[m]]
    /\ Answer(q, Combined(q))
    /\ UNCHANGED <<now, steam, fetch, kind, stored, history>>

\* A failed insert is only logged; it may have been carried out.
InsertFails(q) ==
    /\ ServicesFail
    /\ pc[q] = "insert"
    /\ Missing(q) # {}
    /\ Answer(q, Combined(q))
    /\ lost' = lost \cup Missing(q)
    /\ UNCHANGED <<now, steam, rows, fetch, kind, stored, playedAt, askedAt, filledAt, steamOk, met, shown, astray>>

\* The caller hangs up: the future is dropped, and with it the lock.
HangUp(q) ==
    /\ ServicesFail
    /\ q \in Running
    /\ Fail(q)
    /\ lock' = [k \in FetchKinds |-> IF lock[k] = q THEN Nobody ELSE lock[k]]
    /\ UNCHANGED <<now, steam, rows, cache, cursor, pages, fetched, kind, stored, history>>

----------------------------------------------------------------------------
PlayMatch(m) ==
    /\ m \notin steam
    /\ \A x \in Matches : x < m => x \in steam
    /\ steam' = steam \cup {m}
    /\ playedAt' = [playedAt EXCEPT ![m] = now]
    /\ UNCHANGED <<now, rows, fetch, pc, kind, stored, answer, askedAt, filledAt, steamOk, lost, met, shown, astray>>

Tick ==
    /\ now < MaxTime
    /\ now' = now + 1
    /\ UNCHANGED <<steam, rows, fetch, pc, kind, stored, answer, history>>

\* What the handler does by itself, and what may befall it.
Proceed(q) ==
    \/ Limit(q) \/ CacheHit(q) \/ CacheMiss(q) \/ FetchPage(q) \/ PageFails(q)
    \/ InsertMissing(q) \/ InsertFails(q)

Step(q) == Begin(q) \/ Proceed(q) \/ HangUp(q)

Next ==
    \/ \E q \in Requests : Step(q)
    \/ \E m \in Matches : PlayMatch(m)
    \/ Tick

Spec == Init /\ [][Next]_vars

\* The executor polls every handler, and a request to Steam ends in three seconds.
FairSpec == Spec /\ \A q \in Requests : WF_vars(Proceed(q))

----------------------------------------------------------------------------
\* Properties

TypeOK ==
    /\ now \in Nat
    /\ steam \subseteq Matches
    /\ rows \in [Matches -> Nat]
    /\ cache \in [FetchKinds -> [at : Nat, list : SUBSET Matches]]
    /\ lock \in [FetchKinds -> Requests \cup {Nobody}]
    /\ pc \in [Requests -> PcState]
    /\ kind \in [Requests -> Kinds]
    /\ \A q \in Running : kind[q] \in FetchKinds
    /\ stored \in [Requests -> SUBSET Matches]
    /\ fetched \in [Requests -> SUBSET Matches]
    /\ cursor \in [Requests -> Cursors]
    /\ pages \in [Requests -> Nat]
    /\ answer \in [Requests -> SUBSET Matches]
    /\ playedAt \in [Matches -> Nat]
    /\ askedAt \in [Requests -> Nat]
    /\ filledAt \in [Requests -> Nat]
    /\ steamOk \subseteq Requests
    /\ lost \subseteq Matches
    /\ met \subseteq SUBSET Requests
    /\ shown \in [Requests -> SUBSET Matches]

\* A match once shown to a caller is shown by every later answer that reads the
\* stored history, whatever Steam, its cursor and the cache do, unless the
\* insert of that match failed (match_history.rs:297-372).
AnswersNeverShrink ==
    \A q \in Requests : pc[q] = "ok" => shown[q] \ lost \subseteq answer[q]

\* A match gets a second row only from calls that ran at the same time: both had
\* read the stored history before either inserted (match_history.rs:297, 353).
DuplicatesNeedOverlap ==
    \A m \in Matches : rows[m] > 1 =>
        \E q, r \in Requests :
            /\ q # r /\ pc[q] = "ok" /\ pc[r] = "ok"
            /\ {q, r} \in met
            /\ m \in Missing(q) \cap Missing(r)

\* The pages a fetch may ask for hold the whole history, and no full page before
\* the last is one that from_protobuf drops altogether.
PagesCover ==
    /\ IsFiniteSet(Matches)
    /\ Cardinality(Matches) <= PageSize * (MaxRefetch + 1)
    /\ \A m \in Matches :
          LET older == {x \in Matches : x <= m}
          IN  older = Newest(older, PageSize) \/ Parsed(Newest(older, PageSize)) # {}

\* A forced answer whose fetch succeeded holds every match played before the call
\* that did the fetch, its own or one whose answer was less than the cache's lifespan
\* old when the call began, however new matches, other calls and page boundaries
\* fall, while Steam's cursor follows the pages.  The lifespan runs from the end of the
\* fetch: what was played while it went on may be missing for longer
\* (match_history.rs:183-243).
RefetchComplete ==
    PagesCover =>
        \A q \in steamOk : ~astray /\ kind[q] = "force" /\ pc[q] = "ok" =>
            \E r \in Requests :
                /\ kind[r] = "force"
                /\ filledAt[r] # 0 /\ askedAt[q] < filledAt[r] + CacheTtl
                /\ {m \in Parsed(steam) : playedAt[m] < askedAt[r]} \subseteq answer[q]

\* Whatever cursors Steam returns, a fetch asks for at most one page more than
\* the constant says: the count is tested after the page (match_history.rs:230).
PagesBounded == \A q \in Requests : pages[q] <= MaxRefetch + 1

\* Nobody waits for ever on the key's lock or on Steam's cursor.
EveryCallEnds == \A q \in Requests : q \in Running ~> q \notin Running
============================================================================

------------------------------- MODULE Builds -------------------------------
(***************************************************************************)
(* Builds of players: the search (routes/v1/builds) and how often items    *)
(* are used (routes/v1/analytics/build_item_stats.rs).  Both read the      *)
(* table hero_builds, which others fill.  A parameter that may be absent   *)
(* is a set of at most one value; so is a column that may be null.         *)
(***************************************************************************)
EXTENDS Integers, FiniteSets, FiniteSetsExt, Sequences

CONSTANTS
    PossibleBuilds,     \* the versions of builds that may be published
    SearchQueries,      \* the queries callers send
    BuildItemQueries

VARIABLE
    hero_builds         \* a row for every version of a build

\* A row: the key, when it was published and updated, no or one
\* number of favorites, the mods by category.
IsRow(b) ==
    /\ DOMAIN b = {"hero", "id", "version", "words", "tags", "language", "author", "category",
                   "favorites", "updated", "published", "mods"}
    /\ {b.id, b.version, b.updated, b.published} \subseteq Nat
    /\ b.favorites \subseteq Nat /\ \A m, n \in b.favorites : m = n
    /\ IsFiniteSet(DOMAIN b.mods) /\ \A i \in DOMAIN b.mods : IsFiniteSet(DOMAIN b.mods[i])

ASSUME RowsAssumption == \A b \in PossibleBuilds : IsRow(b)

BuildsInit == hero_builds = {}

\* A row for a version of a build is written once, with the columns it is sorted by.
Publish(b) == hero_builds' = hero_builds \cup {b}

\* Votes come in until a row is read again.
Vote(b) ==
    /\ b.favorites = {}
    /\ hero_builds' = (hero_builds \ {b}) \cup {[b EXCEPT !.favorites = {b.id}]}

BuildsNext ==
    \/ \E b \in PossibleBuilds :
          /\ \A c \in hero_builds : <<c.hero, c.id, c.version>> # <<b.hero, b.id, b.version>>
          /\ Publish(b)
    \/ \E b \in hero_builds : Vote(b)

BuildsSpec == BuildsInit /\ [][BuildsNext]_hero_builds

----------------------------------------------------------------------------
InRange(min, max, v) == (\A b \in min : v >= b) /\ (\A b \in max : v <= b)

\* The columns of sort_by.
BuildsSortBy == {"favorites", "updated_at", "version"}

BuildsSearchQuery ==
    [minUpdated |-> {}, maxUpdated |-> {}, minPublished |-> {}, maxPublished |-> {},
     sortBy |-> "favorites", descending |-> TRUE, start |-> {}, limit |-> {100},
     words |-> {}, tags |-> {}, onlyLatest |-> FALSE, languages |-> {}, ids |-> {},
     versions |-> {}, heroes |-> {}, authors |-> {}, categories |-> {}]

ASSUME SearchQueriesAssumption ==
    \A q \in SearchQueries : DOMAIN q = DOMAIN BuildsSearchQuery /\ q.sortBy \in BuildsSortBy

\* The value a row has for what is asked, each filter on its own column.
Matching(q) ==
    {b \in hero_builds :
        /\ q.tags \subseteq b.tags
        /\ q.words \subseteq b.words
        /\ \A v \in q.languages : b.language = v
        /\ \A v \in q.ids : b.id = v
        /\ \A v \in q.versions : b.version = v
        /\ \A v \in q.heroes : b.hero = v
        /\ \A v \in q.authors : b.author = v
        /\ \A v \in q.categories : b.category = v
        /\ InRange(q.minUpdated, q.maxUpdated, b.updated)
        /\ InRange(q.minPublished, q.maxPublished, b.published)}

\* Mutant: versions are numbered by build only, whatever the hero.
RowNumberOfId(q, b) == 1 + Cardinality({c \in Matching(q) : c.id = b.id /\ c.version > b.version})
\* The newest of the rows that pass the filters is the first.
RowNumber(q, b) ==
    1 + Cardinality({c \in Matching(q) : <<c.hero, c.id>> = <<b.hero, b.id>> /\ c.version > b.version})

Found(q) == {b \in Matching(q) : q.onlyLatest => RowNumber(q, b) = 1}

Key(q, b) ==
    CASE q.sortBy = "favorites" -> b.favorites
      [] q.sortBy = "updated_at" -> {b.updated}
      [] q.sortBy = "version" -> {b.version}

\* Nulls are last in descending and first in ascending order.
Precedes(q, x, y) ==
    IF q.descending
    THEN x # {} /\ (y # {} => Max(x) > Max(y))
    ELSE y # {} /\ (x # {} => Max(x) < Max(y))

\* Every order the database may return the rows in.
InOrder(q) ==
    LET n == Cardinality(Found(q))
    IN  {s \in [1 .. n -> Found(q)] :
            /\ {s[i] : i \in 1 .. n} = Found(q)
            /\ \A i, j \in 1 .. n : Precedes(q, Key(q, s[i]), Key(q, s[j])) => i < j}

Least(S) == CHOOSE v \in S : \A w \in S : v <= w

\* LIMIT and OFFSET
Page(q, s) ==
    LET from == IF q.start = {} THEN 0 ELSE Max(q.start)
        to == IF q.limit = {} THEN Len(s) ELSE Least({Len(s), from + Max(q.limit)})
    IN  SubSeq(s, from + 1, to)

\* The answers the search may give.
search_builds(q) == {Page(q, s) : s \in InOrder(q)}

----------------------------------------------------------------------------
BuildItemStatsQuery == [heroes |-> {}, minUpdated |-> {}, maxUpdated |-> {}]

ASSUME BuildItemQueriesAssumption ==
    \A q \in BuildItemQueries :
        DOMAIN q = DOMAIN BuildItemStatsQuery /\ q.minUpdated \cup q.maxUpdated \subseteq Nat

\* Neither bound is in the range.
UpdatedIn(q, b) == InRange({t + 1 : t \in q.minUpdated}, {t - 1 : t \in q.maxUpdated}, b.updated)

Mods(b) == UNION {{<<b, i, j>> : j \in DOMAIN b.mods[i]} : i \in DOMAIN b.mods}

\* The categories of a build, and the items of each, one row for every use.
Uses(q) == UNION {Mods(b) : b \in {b \in hero_builds : (\A v \in q.heroes : b.hero = v) /\ UpdatedIn(q, b)}}

build_item_stats(q) ==
    LET item(u) == u[1].mods[u[2]][u[3]]
    IN  [i \in {item(u) : u \in Uses(q)} |-> Cardinality({u \in Uses(q) : item(u) = i})]

----------------------------------------------------------------------------
\* Properties

\* Ascending order is descending order turned round, rows without a value
\* included, and which rows are found does not depend on the order
\* (query.rs:214-223).
BuildsTurnRound ==
    \A q \in SearchQueries :
        LET all == [q EXCEPT !.start = {}, !.limit = {}]
            reversed(s) == [i \in DOMAIN s |-> s[Len(s) + 1 - i]]
        IN  search_builds([all EXCEPT !.descending = FALSE])
              = {reversed(s) : s \in search_builds([all EXCEPT !.descending = TRUE])}

\* With only_latest a build is found exactly when one of its versions is without
\* it, and no build twice: builds of different heroes may share an id
\* (query.rs:142-144, 209-213).
OneVersionOfEach ==
    \A q \in SearchQueries : \A s \in search_builds([q EXCEPT !.onlyLatest = TRUE, !.limit = {}, !.start = {}]) :
        \A b \in hero_builds :
            Cardinality({i \in DOMAIN s : <<s[i].hero, s[i].id>> = <<b.hero, b.id>>})
              = (IF \E c \in Matching(q) : <<c.hero, c.id>> = <<b.hero, b.id>> THEN 1 ELSE 0)

UsesIn(rows, item) == SumFunction([b \in rows |-> Cardinality({u \in Mods(b) : b.mods[u[2]][u[3]] = item})])

\* The item stats are those of the builds the search finds with the same range,
\* up to the builds updated at one of its ends, which only the search has
\* (build_item_stats.rs:45-56, query.rs:193-200).
ItemsOfSearch ==
    \A q \in BuildItemQueries :
        LET search(a, b) == Matching([BuildsSearchQuery EXCEPT
                                !.heroes = q.heroes, !.minUpdated = {t + a : t \in q.minUpdated},
                                !.maxUpdated = {t - b : t \in q.maxUpdated}])
            stats == build_item_stats(q)
        IN  \A item \in DOMAIN stats :
                /\ UsesIn(search(1, 1), item) = stats[item]
                /\ stats[item] <= UsesIn(search(0, 0), item)
=============================================================================

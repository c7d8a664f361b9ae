------------------------------ MODULE MCPlayers ------------------------------
(***************************************************************************)
(* The endpoints about players on one set of tables, and those about       *)
(* builds, which share no table with them, for TLC: a party of two, a      *)
(* third in their team and later against them, one who watches, ids and    *)
(* start times in different orders, and a match that is not scored.        *)
(***************************************************************************)
EXTENDS Players, TLC

\* Bound: builds are published while the other tables are empty.
MCInit == PlayerInit /\ BuildsInit
MCNext ==
    \/ PlayerNext /\ hero_builds = {} /\ UNCHANGED hero_builds
    \/ BuildsNext /\ playerTables = <<{}, {}, {}>> /\ UNCHANGED playerTables

MCSpec == MCInit /\ [][MCNext]_<<playerTables, hero_builds>>

----------------------------------------------------------------------------
P(account, team, party, hero, won) ==
    [account |-> account, team |-> team, party |-> party, hero |-> hero, won |-> won,
     kills |-> account + hero, worth |-> hero + team]
M(id, start, badge0, badge1, notScored, pools, players) ==
    [id |-> id, start |-> start, duration |-> 10 + 10 * id, badge0 |-> badge0, badge1 |-> badge1,
     scored |-> TRUE, notScored |-> notScored, pools |-> pools, players |-> players]

M1 == M(1, 1, 116, 21, FALSE, {}, {P(1, 0, 5, 1, TRUE), P(2, 0, 5, 2, TRUE), P(3, 0, 0, 1, TRUE)})
M2 == M(2, 6, 16, 66, FALSE, {}, {P(1, 0, 0, 1, FALSE), P(3, 1, 0, 1, TRUE)})
M3 == M(3, 4, 11, 26, FALSE, {"low_pri"}, {P(1, 1, 0, 1, TRUE), P(2, 1, 0, 2, TRUE)})
M4 == M(4, 11, 96, 96, TRUE, {}, {P(1, 1, 0, 2, TRUE)})

SomeMatches == {M1, M2, M3, M4}
\* One who watched is in the histories only.
SomeRows ==
    UNION {{[match |-> m, p |-> p] : p \in m.players} : m \in SomeMatches}
    \cup {[match |-> M2, p |-> P(2, 2, 0, 3, FALSE)]}

StatsQ == MateStatsQuery
SomeStatsQueries ==
    {StatsQ, [StatsQ EXCEPT !.sameParty = FALSE], [StatsQ EXCEPT !.sameParty = FALSE, !.info.maxTime = {4}],
     [StatsQ EXCEPT !.sameParty = FALSE, !.minMatches = {2}], [StatsQ EXCEPT !.info.maxDuration = {25}]}

HeroQ == PlayerHeroStatsQuery
SomeHeroQueries ==
    {[HeroQ EXCEPT !.accounts = {1, 2}, !.heroes = h] : h \in {{}, {1}}}
    \cup {[HeroQ EXCEPT !.accounts = {1, 3}, !.minWorth = {2}], [HeroQ EXCEPT !.accounts = {1, 2, 3}],
          [HeroQ EXCEPT !.accounts = {2}, !.info.minBadge = {30}]}

MMRQ == MMRBatchQuery
SomeMMRQueries ==
    {[MMRQ EXCEPT !.accounts = {1, 2}], [MMRQ EXCEPT !.accounts = {1}, !.maxId = {2}],
     [MMRQ EXCEPT !.accounts = {1, 2, 3}]}

SomeDistributionQueries ==
    {MMRDistributionQuery, [MMRDistributionQuery EXCEPT !.minTime = {4}, !.minId = {2}],
     [MMRDistributionQuery EXCEPT !.out = {"low_pri"}, !.maxDuration = {30}]}

Build(hero, id, version, words, updated, mods) ==
    [hero |-> hero, id |-> id, version |-> version, words |-> words, tags |-> {hero},
     language |-> id % 2, author |-> hero + id, category |-> version, favorites |-> {},
     updated |-> updated, published |-> updated - 1, mods |-> mods]

\* Two versions of a build, one build of another hero with the same id, two more.
SomeBuilds ==
    {Build(1, 1, 1, {"tank"}, 3, <<<<7, 8>>, <<7>>>>), Build(1, 1, 2, {}, 5, <<<<8>>>>),
     Build(2, 1, 1, {"tank"}, 4, <<<<7>>, <<>>>>), Build(1, 2, 1, {"tank", "gun"}, 5, <<<<9, 7>>>>),
     Build(2, 3, 4, {}, 6, <<<<8, 8>>>>)}

SearchQ == BuildsSearchQuery
SomeSearchQueries ==
    {[SearchQ EXCEPT !.sortBy = s, !.onlyLatest = l] : s \in BuildsSortBy, l \in BOOLEAN}
    \cup {[SearchQ EXCEPT !.words = {"tank"}, !.onlyLatest = TRUE], [SearchQ EXCEPT !.tags = {1}, !.languages = {1}],
          [SearchQ EXCEPT !.ids = {1}, !.versions = {1}], [SearchQ EXCEPT !.authors = {2}, !.categories = {1}],
          [SearchQ EXCEPT !.limit = {2}, !.start = {1}, !.minUpdated = {4}],
          [SearchQ EXCEPT !.maxUpdated = {5}, !.minPublished = {3}, !.maxPublished = {4}, !.heroes = {1}]}

ItemQ == BuildItemStatsQuery
SomeItemQueries ==
    {ItemQ} \cup {[ItemQ EXCEPT !.heroes = h, !.minUpdated = {3}, !.maxUpdated = m] : h \in {{}, {1}}, m \in {{}, {5}}}
=============================================================================

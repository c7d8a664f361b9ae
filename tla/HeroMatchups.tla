---------------------------- MODULE HeroMatchups ----------------------------
(***************************************************************************)
(* Pairs of heroes in the same match: against each other                   *)
(* (routes/v1/analytics/hero_counters_stats.rs) and with each other        *)
(* (hero_synergies_stats.rs).                                              *)
(***************************************************************************)
EXTENDS MatchTables

CONSTANTS
    CounterQueries,     \* the queries callers send
    SynergyQueries

HeroCounterStatsQuery ==
    [info |-> AnyMatch, minWorth |-> {}, maxWorth |-> {}, minEnemyWorth |-> {},
     maxEnemyWorth |-> {}, sameLane |-> TRUE, minMatches |-> {20}, maxMatches |-> {},
     accounts |-> {}]

HeroSynergyStatsQuery ==
    [info |-> AnyMatch, minWorth |-> {}, maxWorth |-> {}, sameLane |-> TRUE, sameParty |-> TRUE,
     minMatches |-> {20}, maxMatches |-> {}, accounts |-> {}]

\* One team wins, and no hero is in a team twice.
ASSUME OpponentsAssumption ==
    \A m \in PossibleMatches : \A p1, p2 \in m.players :
        /\ p1.hero \in Nat /\ p1.won \in BOOLEAN
        /\ p1.team # p2.team => p1.won # p2.won
        /\ p1.team = p2.team /\ p1.hero = p2.hero => p1 = p2

ASSUME MatchupQueriesAssumption == \A q \in CounterQueries : DOMAIN q = DOMAIN HeroCounterStatsQuery

\* Both endpoints put the same filters on the matches.
CounterMatches(q) == Chosen(q.info)
SynergyMatches(q) == Chosen(q.info)

\* match_player joined with itself on the match
Pairs(ms) == UNION {{[m |-> m, p1 |-> p1, p2 |-> p2] : p1, p2 \in PlayersOf(m)} : m \in ms}

Named(q, p) == q.accounts = {} \/ p.account \in Shown(q.accounts)

\* The groups of a joined query, those too small or too large left out.
Grouped(q, pairs) ==
    LET group(k) == {r \in pairs : <<r.p1.hero, r.p2.hero>> = k}
        keys == {<<r.p1.hero, r.p2.hero>> : r \in pairs}
    IN  [k \in {k \in keys : Within(q.minMatches, q.maxMatches, Cardinality(group(k)))} |->
            [wins |-> Cardinality({r \in group(k) : r.p1.won}),
             matches |-> Cardinality(group(k)),
             kills1 |-> SumFunction([r \in group(k) |-> r.p1.kills]),
             kills2 |-> SumFunction([r \in group(k) |-> r.p2.kills])]]

EnemyWorth(q, r) == Within(q.minEnemyWorth, q.maxEnemyWorth, r.p2.worth)

CounterPairs(q) ==
    {r \in Pairs(CounterMatches(q)) :
        /\ r.p1.team # r.p2.team
        /\ q.sameLane => r.p1.lane = r.p2.lane
        /\ Named(q, r.p1)
        /\ Within(q.minWorth, q.maxWorth, r.p1.worth)
        /\ EnemyWorth(q, r)}

CounterQuery(q) == Grouped(q, CounterPairs(q))

hero_counters_stats(q) == IF Refused(q.accounts) THEN [refused |-> TRUE] ELSE CounterQuery(q)

LowerHeroFirst(r) == r.p1.hero < r.p2.hero

SynergyPairs(q) ==
    {r \in Pairs(SynergyMatches(q)) :
        /\ r.p1.team = r.p2.team
        /\ LowerHeroFirst(r)
        /\ q.sameLane => r.p1.lane = r.p2.lane
        /\ q.sameParty => r.p1.party = r.p2.party /\ r.p1.party > 0
        /\ Named(q, r.p1)
        /\ Within(q.minWorth, q.maxWorth, r.p1.worth)
        /\ Within(q.minWorth, q.maxWorth, r.p2.worth)}

SynergyQuery(q) == Grouped(q, SynergyPairs(q))

hero_synergies_stats(q) == IF Refused(q.accounts) THEN [refused |-> TRUE] ELSE SynergyQuery(q)

----------------------------------------------------------------------------
\* Properties

Swapped(q) ==
    [q EXCEPT !.minWorth = q.minEnemyWorth, !.maxWorth = q.maxEnemyWorth,
              !.minEnemyWorth = q.minWorth, !.maxEnemyWorth = q.maxWorth]

\* The matchup of two heroes is the same seen from either side: with the bounds
\* on worth exchanged, the wins of one are the losses of the other and their
\* numbers trade places, though the two come from separate groups
\* (hero_counters_stats.rs:177-188, 211-238).
CountersMirror ==
    \A q \in CounterQueries : q.accounts = {} =>
        LET here == hero_counters_stats(q)
            there == hero_counters_stats(Swapped(q))
        IN  /\ DOMAIN there = {<<k[2], k[1]>> : k \in DOMAIN here}
            /\ \A k \in DOMAIN here :
                 LET mine == here[k]
                     theirs == there[<<k[2], k[1]>>]
                 IN  /\ mine.wins + theirs.wins = mine.matches
                     /\ mine.matches = theirs.matches
                     /\ mine.kills1 = theirs.kills2 /\ mine.kills2 = theirs.kills1

PairMatches(stats) == SumFunction([k \in DOMAIN stats |-> stats[k].matches])

\* Between them the two endpoints count every two players of a match, teammates
\* once and opponents once from each side.
EveryPairCounted ==
    LET open(q) == [q EXCEPT !.sameLane = FALSE, !.minMatches = {}]
        players(m) == Cardinality(PlayersOf(m))
    IN  PairMatches(hero_counters_stats(open(HeroCounterStatsQuery)))
          + 2 * PairMatches(hero_synergies_stats([open(HeroSynergyStatsQuery) EXCEPT !.sameParty = FALSE]))
        = SumFunction([m \in Chosen(AnyMatch) |-> players(m) * (players(m) - 1)])
=============================================================================

--------------------------- MODULE HeroCombStats ---------------------------
(* Heroes played together in a team (routes/v1/analytics/hero_comb_stats.rs). *)
EXTENDS MatchTables

CONSTANTS
    TeamSize,       \* players of a team, six
    DefaultMin,     \* default of min_matches
    CombQueries     \* the queries callers send

ASSUME TeamSizeAssumption == TeamSize \in Nat

HeroCombStatsQuery ==
    [info |-> AnyMatch, minWorth |-> {}, maxWorth |-> {}, include |-> {}, exclude |-> {},
     minMatches |-> {DefaultMin}, maxMatches |-> {}, size |-> TeamSize, accounts |-> {}]

CombMatches(q) == Chosen(q.info)

Team(m, side) ==
    [match |-> m, won |-> \E p \in side : p.won,
     heroes |-> {p.hero : p \in side}, accounts |-> {p.account : p \in side}]

\* The players of a team that pass the filter on worth.
Side(q, m, team) == {p \in PlayersOf(m) : p.team = team /\ Within(q.minWorth, q.maxWorth, p.worth)}

\* The whole teams, their heroes and who won.
Teams(q) ==
    {t \in UNION {{Team(m, Side(q, m, team)) : team \in {0, 1}} : m \in CombMatches(q)} :
        Cardinality(t.heroes) = TeamSize}

GroupedFilters(q, t) ==
    /\ q.accounts # {} => t.accounts \cap Shown(q.accounts) # {}
    /\ q.include \subseteq t.heroes
    /\ t.heroes \cap q.exclude = {}

HeroCombStats(ts) ==
    [wins |-> Cardinality({t \in ts : t.won}), losses |-> Cardinality({t \in ts : ~t.won})]

MatchesOf(s) == s.wins + s.losses

\* Mutant: whole teams below the minimum never reach the smaller combinations.
HavingMinimum(q, n) == Within(q.minMatches, q.maxMatches, n)

\* The minimum waits for the smaller combinations, the maximum does not.
Having(q, n) == (q.size < TeamSize \/ AtLeast(q.minMatches, n)) /\ AtMost(q.maxMatches, n)

\* Smaller combinations have a minimum also where none is asked for.
MinMatches(q) == IF q.size < TeamSize /\ q.minMatches = {} THEN {DefaultMin} ELSE q.minMatches

\* The stats of whole teams.
BuildCombQuery(q) ==
    LET of(heroes) == HeroCombStats({t \in Teams(q) : GroupedFilters(q, t) /\ t.heroes = heroes})
        whole == {t.heroes : t \in {t \in Teams(q) : GroupedFilters(q, t)}}
    IN  [heroes \in {h \in whole : Having(q, MatchesOf(of(h)))} |-> of(heroes)]

\* Smaller combinations are put together from the stats of whole teams.
GetCombStats(q) ==
    LET whole == BuildCombQuery(q)
        from(comb) == {h \in DOMAIN whole : comb \subseteq h}
        sum(comb) == [wins |-> SumFunction([h \in from(comb) |-> whole[h].wins]),
                      losses |-> SumFunction([h \in from(comb) |-> whole[h].losses])]
        combs == UNION {kSubset(q.size, h) : h \in DOMAIN whole}
    IN  CASE q.size = TeamSize -> whole
          [] q.size \notin 2 .. TeamSize -> [bad_request |-> TRUE]
          [] OTHER -> [comb \in {c \in combs : Within(MinMatches(q), q.maxMatches, MatchesOf(sum(c)))} |-> sum(comb)]

hero_comb_stats(q) == IF Refused(q.accounts) THEN [refused |-> TRUE] ELSE GetCombStats(q)

----------------------------------------------------------------------------
\* Properties

Answered(q) == ~Refused(q.accounts) /\ q.size \in 2 .. TeamSize

\* The teams of the chosen matches that played all heroes of a combination.
Playing(q, comb) == {t \in Teams(q) : GroupedFilters(q, t) /\ comb \subseteq t.heroes}

\* A combination smaller than a team has the matches of every team that played
\* it, however seldom each team as a whole was seen: the minimum is applied to
\* the combinations of the size asked for and not before (hero_comb_stats.rs:189-193).
SubCombinationsExact ==
    \A q \in CombQueries : Answered(q) /\ q.maxMatches = {} =>
        \A comb \in UNION {kSubset(q.size, t.heroes) : t \in Teams(q)} :
            LET played == HeroCombStats(Playing(q, comb))
            IN  IF Playing(q, comb) # {} /\ AtLeast(MinMatches(q), MatchesOf(played))
                THEN comb \in DOMAIN hero_comb_stats(q) /\ hero_comb_stats(q)[comb] = played
                ELSE comb \notin DOMAIN hero_comb_stats(q)
=============================================================================

--------------------------- MODULE KillDeathStats ---------------------------
(***************************************************************************)
(* Where players kill and die (routes/v1/analytics/kill_death_stats.rs)    *)
(* and how badges are distributed (badge_distribution.rs).  Neither rounds *)
(* the times it is asked for.  One coordinate stands for a position.       *)
(***************************************************************************)
EXTENDS MatchTables

CONSTANTS
    TwoMonthsAgo,       \* older matches are not looked at
    Cell,               \* the width of a raster cell, 100
    KillDeathQueries,   \* the queries callers send
    BadgeQueries

\* Parameters of the filter on matches; pools a match has to be in or out of.
AnyInfo ==
    [minTime |-> {}, maxTime |-> {}, minId |-> {}, maxId |-> {}, minDuration |-> {}, maxDuration |-> {},
     minBadge |-> {}, maxBadge |-> {}, in |-> {}, out |-> {}]

\* A minimum of the duration is taken and never used.
MatchFilters(f, m) ==
    /\ Within(f.minTime, f.maxTime, m.start)
    /\ Within(f.minId, f.maxId, m.id)
    /\ AtMost(f.maxDuration, m.duration)
    /\ f.in \subseteq m.pools
    /\ f.out \cap m.pools = {}

KillDeathStatsQuery ==
    [info |-> AnyInfo, teams |-> {}, accounts |-> {}, heroes |-> {}, minWorth |-> {}, maxWorth |-> {},
     minAt |-> {}, maxAt |-> {}, minKills |-> {}, maxKills |-> {}, minDeaths |-> {}, maxDeaths |-> {}]

\* Players are of either team, and a kill is the other team's, as killer_team
\* has it.
ASSUME PlayersAssumption ==
    \A m \in PossibleMatches : \A p \in m.players :
        /\ p.team \in {0, 1}
        /\ IsFiniteSet(p.death_details)
        /\ \A d \in p.death_details, k \in m.players : k.slot = d.by => k.team # p.team

ASSUME KillDeathQueriesAssumption ==
    /\ \A q \in KillDeathQueries : DOMAIN q = DOMAIN KillDeathStatsQuery
    /\ \A f \in {q.info : q \in KillDeathQueries} \cup BadgeQueries :
         DOMAIN f = DOMAIN AnyInfo /\ f.minTime \cup f.maxTime \subseteq Nat

KillDeathMatches(q) ==
    {m \in matches :
        /\ m.start > TwoMonthsAgo
        /\ MatchFilters(q.info, m)
        /\ \A b \in q.info.minBadge : b > 11 => m.badge0 >= b /\ m.badge1 >= b
        /\ \A b \in q.info.maxBadge : b < 116 => m.badge0 <= b /\ m.badge1 <= b}

\* A number that is no team's is no filter.
PlayerFilters(q, p) ==
    /\ q.accounts # {} => p.account \in q.accounts
    /\ q.heroes # {} => p.hero \in q.heroes
    /\ Within(q.minWorth, q.maxWorth, p.worth)
    /\ \A t \in q.teams \cap {0, 1} : p.team = t

\* player_filters.is_empty()
NoPlayerFilters(q) ==
    /\ q.accounts = {} /\ q.heroes = {} /\ q.minWorth = {} /\ q.maxWorth = {}
    /\ q.teams \cap {0, 1} = {}

\* The rows of match_player with each of their deaths.
Deaths(q) ==
    UNION {{[match |-> r.match, p |-> r.p, d |-> d] : d \in {d \in r.p.death_details : Within(q.minAt, q.maxAt, d.at)}} :
              r \in RowsOf(KillDeathMatches(q))}

\* Mutant: the kills of the filtered players are looked for among their deaths.
DiedThere(q, e) == PlayerFilters(q, e.p)
\* A kill counts if the killer passes the filter, any death does without one.
KilledBy(q, e) ==
    NoPlayerFilters(q)
      \/ \E r \in RowsOf({e.match}) : r.p.slot = e.d.by /\ PlayerFilters(q, r.p)

\* The nearest multiple.
Raster(x) == ((2 * x + Cell) \div (2 * Cell)) * Cell

KillerTeam(e) == IF e.p.team = 0 THEN 1 ELSE 0

Events(q) ==
    {[type |-> "death", x |-> Raster(e.d.pos), team |-> KillerTeam(e), e |-> e] :
        e \in {e \in Deaths(q) : PlayerFilters(q, e.p)}}
    \cup {[type |-> "kill", x |-> Raster(e.d.from), team |-> KillerTeam(e), e |-> e] :
        e \in {e \in Deaths(q) : KilledBy(q, e)}}

KillDeathStats(events) ==
    [deaths |-> Cardinality({v \in events : v.type = "death"}),
     kills |-> Cardinality({v \in events : v.type = "kill"})]

kill_death_stats(q) ==
    LET stats(c) == KillDeathStats({v \in Events(q) : <<v.x, v.team>> = c})
    IN  [c \in {c \in {<<v.x, v.team>> : v \in Events(q)} :
                  /\ Within(q.minKills, q.maxKills, stats(c).kills)
                  /\ Within(q.minDeaths, q.maxDeaths, stats(c).deaths)} |-> stats(c)]

----------------------------------------------------------------------------
BadgeDistributionQuery == AnyInfo

\* Both teams' badges of every match, a missing one is zero and left out.
Badges(q) ==
    {b \in UNION {{[match |-> m, team |-> 0, badge |-> m.badge0], [match |-> m, team |-> 1, badge |-> m.badge1]} :
                     m \in {m \in matches : m.scored /\ MatchFilters(q, m)}} : b.badge > 0}

badge_distribution(q) ==
    [level \in {b.badge : b \in Badges(q)} |-> Cardinality({b \in Badges(q) : b.badge = level})]

----------------------------------------------------------------------------
\* Properties

SumOf(stats, of(_)) == SumFunction([c \in DOMAIN stats |-> of(stats[c])])
KillsOf(stats) == SumOf(stats, LAMBDA s : s.kills)
DeathsOf(stats) == SumOf(stats, LAMBDA s : s.deaths)

AllCells(q) == [q EXCEPT !.minKills = {}, !.maxKills = {}, !.minDeaths = {}, !.maxDeaths = {}]

\* Deaths are filtered by who died and kills by who killed: the deaths of both
\* teams are all deaths, a team's kills are deaths of the other, and without a
\* filter every death has its kill, also one at the hands of nobody
\* (kill_death_stats.rs:193-207).
KillsMirrorDeaths ==
    \A q \in KillDeathQueries : NoPlayerFilters(q) =>
        LET all == kill_death_stats(AllCells(q))
            of(t) == kill_death_stats([AllCells(q) EXCEPT !.teams = {t}])
        IN  /\ DeathsOf(of(0)) + DeathsOf(of(1)) = DeathsOf(all)
            /\ KillsOf(all) = DeathsOf(all)
            /\ \A t \in {0, 1} : KillsOf(of(t)) <= DeathsOf(of(1 - t))

\* Two ranges of time that meet have between them what the whole range has, no
\* match twice and none left out, in both endpoints: neither widens the range it
\* is given (kill_death_stats.rs:90-95, badge_distribution.rs:50-55).
RangesMeet ==
    \A t \in {m.start : m \in matches} :
        /\ \A q \in KillDeathQueries : Within(q.info.minTime, q.info.maxTime, t) =>
             LET all == AllCells(q)
             IN  /\ Events(all) = Events([all EXCEPT !.info.maxTime = {t}])
                                    \cup Events([all EXCEPT !.info.minTime = {t + 1}])
                 /\ Events([all EXCEPT !.info.maxTime = {t}])
                      \cap Events([all EXCEPT !.info.minTime = {t + 1}]) = {}
        /\ \A q \in BadgeQueries : Within(q.minTime, q.maxTime, t) =>
             LET before == badge_distribution([q EXCEPT !.maxTime = {t}])
                 after == badge_distribution([q EXCEPT !.minTime = {t + 1}])
                 at(stats, level) == IF level \in DOMAIN stats THEN stats[level] ELSE 0
             IN  \A level \in DOMAIN badge_distribution(q) :
                    badge_distribution(q)[level] = at(before, level) + at(after, level)
=============================================================================

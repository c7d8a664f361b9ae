------------------------- MODULE PlayerPerformance -------------------------
(***************************************************************************)
(* How players do: over the course of a match                              *)
(* (routes/v1/analytics/player_performance_curve.rs) and by metrics of     *)
(* whole matches (player_stats_metrics.rs).  A player's stats are          *)
(* snapshots taken during the match.  Standard deviations are left out.    *)
(***************************************************************************)
EXTENDS MatchTables, Sequences

CONSTANTS
    Unit,               \* one, in the unit of the metrics that divide
    CurveQueries,       \* the queries callers send
    MetricQueries

\* What the columns of snapshots and of players hold.  Matches last.
ASSUME SnapshotsAssumption ==
    \A m \in PossibleMatches :
        /\ m.duration > 0
        /\ \A p \in m.players :
              /\ p.stats \in Seq([at : Nat, worth : Nat])
              /\ {p.deaths, p.assists, p.crits, p.hits, p.selfHealing, p.playerHealing} \subseteq Nat

PlayerPerformanceCurveQuery ==
    [resolution |-> 10, info |-> AnyMatch, minWorth |-> {}, maxWorth |-> {}, heroes |-> {},
     include |-> {}, exclude |-> {}, accounts |-> {}]

ASSUME CurveQueriesAssumption ==
    \A q \in CurveQueries : DOMAIN q = DOMAIN PlayerPerformanceCurveQuery /\ q.resolution \in Nat

CurveMatches(q) == Chosen(q.info)

Passing(q, p) ==
    /\ q.heroes # {} => p.hero \in q.heroes
    /\ q.accounts # {} => p.account \in Shown(q.accounts)
    /\ Within(q.minWorth, q.maxWorth, p.worth)
    /\ q.include \subseteq p.items
    /\ p.items \cap q.exclude = {}

\* t_data: a row for every snapshot.
CurveRows(q) ==
    UNION {{[match |-> r.match, p |-> r.p, at |-> r.p.stats[i].at, worth |-> r.p.stats[i].worth, i |-> i] :
                i \in DOMAIN r.p.stats} : r \in {r \in RowsOf(CurveMatches(q)) : Passing(q, r.p)}}

\* Mutant: the number of buckets is rounded.
WholeBuckets(resolution, r) == ((r.at * (100 \div resolution)) \div r.match.duration) * resolution
RelativeTime(resolution, r) == ((r.at * 100) \div (r.match.duration * resolution)) * resolution

\* Three minutes apart until the fifteenth, then five.
Regular(at) ==
    /\ at >= 3 * Minute
    /\ \/ at <= 15 * Minute /\ at % (3 * Minute) = 0
       \/ at > 15 * Minute /\ at % (5 * Minute) = 0

GameTime(q, r) == IF q.resolution = 0 THEN r.at ELSE RelativeTime(q.resolution, r)

PlayerPerformanceCurvePoint(rows) ==
    [worth |-> SumFunction([r \in rows |-> r.worth]), of |-> Cardinality(rows)]

\* A point is an average, the sum and the number it is taken of.
BuildCurveQuery(q) ==
    LET rows == {r \in CurveRows(q) : q.resolution = 0 => Regular(r.at)}
    IN  [t \in {GameTime(q, r) : r \in rows} |->
            PlayerPerformanceCurvePoint({r \in rows : GameTime(q, r) = t})]

player_performance_curve(q) == IF Refused(q.accounts) THEN [refused |-> TRUE] ELSE BuildCurveQuery(q)

----------------------------------------------------------------------------
PlayerStatsMetricsQuery ==
    [heroes |-> {}, info |-> AnyMatch, minWorth |-> {}, maxWorth |-> {}, maxMatches |-> {},
     include |-> {}, exclude |-> {}, accounts |-> {}]

ASSUME MetricQueriesAssumption ==
    \A q \in MetricQueries :
        /\ DOMAIN q = DOMAIN PlayerStatsMetricsQuery
        /\ q.maxMatches \subseteq Nat /\ \A n, l \in q.maxMatches : n = l

Metric ==
    {"kills", "deaths", "assists", "kd", "kda", "kills_plus_assists", "crit_shot_rate",
     "self_healing", "player_healing", "healing", "healing_per_min", "self_healing_per_min",
     "player_healing_per_min"}

\* greatest(1, n)
AtLeastOne(n) == Max({1, n})

\* The code divides real numbers: the unit is so small that no division by a
\* match's length is rounded.
ASSUME UnitAssumption ==
    /\ Unit \in Nat
    /\ \A m \in PossibleMatches : (Minute * Unit) % AtLeastOne(m.duration) = 0

\* duration_m
PerMinute(v, r) == (v * Minute * Unit) \div AtLeastOne(r.match.duration)

HealingPerMin(r) == PerMinute(r.p.selfHealing + r.p.playerHealing, r)

SelectClause(metric, r) ==
    LET p == r.p IN
    CASE metric = "kills" -> p.kills * Unit
      [] metric = "deaths" -> p.deaths * Unit
      [] metric = "assists" -> p.assists * Unit
      [] metric = "kd" -> (p.kills * Unit) \div AtLeastOne(p.deaths)
      [] metric = "kda" -> ((p.kills + p.assists) * Unit) \div AtLeastOne(p.deaths)
      [] metric = "kills_plus_assists" -> (p.kills + p.assists) * Unit
      [] metric = "crit_shot_rate" -> (p.crits * Unit) \div AtLeastOne(p.crits + p.hits)
      [] metric = "self_healing" -> p.selfHealing * Unit
      [] metric = "player_healing" -> p.playerHealing * Unit
      [] metric = "healing" -> (p.selfHealing + p.playerHealing) * Unit
      [] metric = "healing_per_min" -> HealingPerMin(r)
      [] metric = "self_healing_per_min" -> PerMinute(p.selfHealing, r)
      [] metric = "player_healing_per_min" -> PerMinute(p.playerHealing, r)

MetricMatches(q) == Chosen(q.info)

MetricRows(q) == {r \in RowsOf(MetricMatches(q)) : Passing(q, r.p)}

Newer(r, s) == r.match.id > s.match.id

\* The rows that may be looked at: with a limit the newest, any of those of the
\* match at the limit.
Analyzed(q) ==
    LET rows == MetricRows(q)
        kept == IF q.maxMatches = {} THEN Cardinality(rows) ELSE Min(q.maxMatches \cup {Cardinality(rows)})
        before(r) == Cardinality({s \in rows : Newer(s, r)})
        sure == {r \in rows : Cardinality({s \in rows : ~Newer(r, s)}) <= kept}
        tied == {r \in rows \ sure : before(r) < kept}
    IN  {sure \cup t : t \in kSubset(kept - Cardinality(sure), tied)}

Levels == <<1, 5, 10, 25, 50, 75, 90, 95, 99>>

\* The value at a level when they are put in order (the sketch is exact here).
QuantileAt(level, rows, metric) ==
    LET place == 1 + ((level * (Cardinality(rows) - 1)) \div 100)
    IN  CHOOSE v \in {SelectClause(metric, r) : r \in rows} :
            /\ Cardinality({r \in rows : SelectClause(metric, r) < v}) < place
            /\ Cardinality({r \in rows : SelectClause(metric, r) <= v}) >= place

\* The sum, the number and the quantiles of every metric.
MetricsRow(rows) ==
    [metric \in Metric |->
        [sum |-> SumFunction([r \in rows |-> SelectClause(metric, r)]), of |-> Cardinality(rows),
         quantiles |-> [i \in DOMAIN Levels |-> IF rows = {} THEN 0 ELSE QuantileAt(Levels[i], rows, metric)]]]

\* From the fields of a row to the fields of the answer.
MetricValues(row, metric) ==
    [sum |-> row[metric].sum, of |-> row[metric].of,
     percentile1 |-> row[metric].quantiles[1], percentile5 |-> row[metric].quantiles[2],
     percentile10 |-> row[metric].quantiles[3], percentile25 |-> row[metric].quantiles[4],
     percentile50 |-> row[metric].quantiles[5], percentile75 |-> row[metric].quantiles[6],
     percentile90 |-> row[metric].quantiles[7], percentile95 |-> row[metric].quantiles[8],
     percentile99 |-> row[metric].quantiles[9]]

ExtractValues(row) == [metric \in Metric |-> MetricValues(row, metric)]

\* The answers that may be given.
player_stats_metrics(q) ==
    IF Refused(q.accounts) THEN {[refused |-> TRUE]} ELSE {ExtractValues(MetricsRow(rows)) : rows \in Analyzed(q)}

----------------------------------------------------------------------------
\* Properties

\* A coarser curve is made of the points of a finer one whose resolution divides
\* its own, also where the resolution does not divide a hundred and the last
\* bucket is short (player_performance_curve.rs:180-184).
CoarserCurveAddsUp ==
    \A q \in CurveQueries : ~Refused(q.accounts) /\ q.resolution > 0 => \A n \in {2, 3, 4} :
        LET fine == player_performance_curve(q)
            coarse == player_performance_curve([q EXCEPT !.resolution = n * @])
            parts(t) == {s \in DOMAIN fine : s - (s % (n * q.resolution)) = t}
        IN  \A t \in DOMAIN coarse :
                /\ coarse[t].worth = SumFunction([s \in parts(t) |-> fine[s].worth])
                /\ coarse[t].of = SumFunction([s \in parts(t) |-> fine[s].of])

\* Metrics that are sums of others stay so in the average, whatever rows are
\* looked at, and in no answer is a ratio above one
\* (player_stats_metrics.rs:118-150).
MetricsAddUp ==
    \A q \in MetricQueries : ~Refused(q.accounts) => \A a \in player_stats_metrics(q) :
        /\ a["healing"].sum = a["self_healing"].sum + a["player_healing"].sum
        /\ a["healing_per_min"].sum = a["self_healing_per_min"].sum + a["player_healing_per_min"].sum
        /\ a["kills_plus_assists"].sum = a["kills"].sum + a["assists"].sum
        /\ a["kd"].sum <= a["kda"].sum /\ a["kda"].sum <= a["kills_plus_assists"].sum
        /\ a["crit_shot_rate"].percentile99 <= Unit

\* The percentiles of a metric are at their own levels: about the share of
\* values its name says lies below (player_stats_metrics.rs:152-494, 656).
PercentilesAtTheirLevels ==
    \A q \in MetricQueries : ~Refused(q.accounts) => \A rows \in Analyzed(q), metric \in Metric :
        LET a == ExtractValues(MetricsRow(rows))[metric]
            n == Cardinality(rows)
            at(level, v) ==
                /\ 100 * Cardinality({r \in rows : SelectClause(metric, r) < v}) <= level * n
                /\ 100 * Cardinality({r \in rows : SelectClause(metric, r) <= v}) > level * (n - 1)
        IN  n > 0 => /\ at(1, a.percentile1) /\ at(5, a.percentile5) /\ at(10, a.percentile10)
                     /\ at(25, a.percentile25) /\ at(50, a.percentile50) /\ at(75, a.percentile75)
                     /\ at(90, a.percentile90) /\ at(95, a.percentile95) /\ at(99, a.percentile99)

\* A limit on the matches analyzed keeps the newest: what it leaves out is older
\* than all it keeps, and a higher limit only adds to it
\* (player_stats_metrics.rs:678-679).
LimitKeepsNewest ==
    \A q \in MetricQueries : q.maxMatches # {} => \A rows \in Analyzed(q) :
        LET newest == {r.match.id : r \in rows}
        IN  /\ \A r \in MetricRows(q) : newest # {} /\ r.match.id > Min(newest) => r \in rows
            /\ \E more \in Analyzed([q EXCEPT !.maxMatches = {n + 1 : n \in @}]) : rows \subseteq more
=============================================================================

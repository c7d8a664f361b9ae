------------------------------ MODULE Analytics ------------------------------
(***************************************************************************)
(* The analytics endpoints on one set of tables: the properties of each    *)
(* group of endpoints, one conjunction for a group; every conjunct is      *)
(* stated and explained in the module it is of.                            *)
(***************************************************************************)
EXTENDS HeroStats, HeroMatchups, HeroCombStats, ItemStats, ItemOrders, Scoreboards,
        PlayerPerformance, KillDeathStats, BuildCreator

\* Hero stats: the range asked for is widened to whole hours and by nothing else,
\* the buckets of a hero add up to its stats without buckets, and leaving out the
\* buyers of items is inclusion and exclusion (HeroStats).
HeroStatsAddUp == RangeWidenedToHours /\ BucketsAddUp /\ HeroFiltersAddUp

\* Counters, synergies and combinations: the wins of a hero against another are
\* the losses of the other, every pair that played is counted once, and a
\* combination has the matches of every team that played it, however seldom the
\* team as a whole was seen (HeroMatchups, HeroCombStats).
TeamsAddUp == CountersMirror /\ EveryPairCounted /\ SubCombinationsExact

\* Items: a phase is made of whole minutes and no purchase is outside its match's
\* hundred percent, though buckets round on their own; filters split what they
\* are given; the two ways to ask for pairs agree, and no permutation has an item
\* twice (ItemStats, ItemOrders).
ItemsAddUp ==
    /\ PhasesAreWholeMinutes
    /\ PercentWithinMatch
    /\ ItemFiltersAddUp
    /\ PairsAgree
    /\ EveryFewItemsOnce
    /\ UpgradeLimitsSplit

\* The items of the build creator: the averages of the buckets come together to
\* those over all purchases, how items compare does not depend on the buckets,
\* and what the minimum leaves out is rare in every bucket (BuildCreator).
CreatorItemsAddUp == AveragesReassembled /\ OrderIgnoresBuckets /\ OnlyRareBucketsMissing

\* Scoreboards: the pages of a board make the whole board, boards that count the
\* same agree, and ascending order is descending order turned round (Scoreboards).
BoardsFit == PagesTile /\ BoardsAgree /\ OrderTurnsRound

\* Curves and metrics: a coarser curve is made of the points of a finer one, the
\* metrics add up, percentiles stand at the levels asked for, and the newest
\* rows are kept at the limit (PlayerPerformance).
PerformanceFits == CoarserCurveAddsUp /\ MetricsAddUp /\ PercentilesAtTheirLevels /\ LimitKeepsNewest

\* Kills and deaths by place: each kill is a death at the other end, and two
\* ranges that meet count what their union counts (KillDeathStats).
EventsFit == KillsMirrorDeaths /\ RangesMeet
=============================================================================

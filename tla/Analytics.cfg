\* Up to six matches, one of them not scored, and three accounts that may ask
\* for data protection at any time.
SPECIFICATION TablesSpec
CONSTANTS
    PossibleMatches <- SomeMatches
    Accounts = {1, 2, 3}
    Hour = 2
    Minute = 2
    Upgrades = {7, 8, 9}
    Day = 4
    Thousand = 1
    Unit = 900
    TeamSize = 3
    DefaultMin = 2
    Abilities = {21, 22}
    HeroIds = {1, 2, 3}
    TwoMonthsAgo = 0
    Cell = 10
    Buckets <- SomeBuckets
    HeroQueries <- SomeHeroQueries
    CounterQueries <- SomeCounterQueries
    SynergyQueries <- SomeSynergyQueries
    CombQueries <- SomeCombQueries
    ItemQueries <- SomeItemQueries
    PermutationQueries <- SomePermutationQueries
    OrderQueries <- SomeOrderQueries
    Stored <- SomeStored
    PlayerBoardQueries <- SomePlayerBoardQueries
    HeroBoardQueries <- SomeHeroBoardQueries
    CurveQueries <- SomeCurveQueries
    MetricQueries <- SomeMetricQueries
    KillDeathQueries <- SomeKillDeathQueries
    HeroNames = {1, 2, 3}
    Tier <- SomeTiers
    CreatorQueries <- SomeCreatorQueries
    BadgeQueries <- SomeBadgeQueries
INVARIANTS
    HeroStatsAddUp  TeamsAddUp ItemsAddUp CreatorItemsAddUp
     PerformanceFits EventsFit
CHECK_DEADLOCK FALSE

\* Matches and histories stored in any order, and two accounts that may ask for
\* data protection; up to five versions of builds.
SPECIFICATION MCSpec
CONSTANTS
    PossibleMatches <- SomeMatches
    HistoryRows <- SomeRows
    Accounts = {1, 3}
    Hour = 2
    Minute = 1
    Upgrades = {}
    MaxAccounts = 2
    StatsQueries <- SomeStatsQueries
    PlayerHeroQueries <- SomeHeroQueries
    WindowSize = 2
    Keep = 4
    Of = 5
    RatedHeroes = {1, 2}
    MMRQueries <- SomeMMRQueries
    DistributionQueries <- SomeDistributionQueries
    PossibleBuilds <- SomeBuilds
    SearchQueries <- SomeSearchQueries
    BuildItemQueries <- SomeItemQueries
INVARIANTS
    PlayersFit  
CHECK_DEADLOCK FALSE

---------------------------- MODULE MCAnalytics ----------------------------
(***************************************************************************)
(* The analytics endpoints on one set of tables, for TLC.  Times in a      *)
(* match are in half minutes, an hour is two units and a day four, 1000 of *)
(* net worth one; teams have up to three players.                          *)
(***************************************************************************)
EXTENDS Analytics, TLC

B(item, at) == [item |-> item, at |-> at, sold |-> IF at % 3 = 0 /\ at < 28 THEN at + 2 ELSE 0]
S(at, worth) == [at |-> at, worth |-> worth]
D(at, pos, by, from) == [at |-> at, pos |-> pos, by |-> by, from |-> from]

\* A player by account, team, hero, kills, net worth, lane, party, purchases and deaths.
P(account, team, hero, kills, worth, lane, party, bought, deaths) ==
    [account |-> account, team |-> team, hero |-> hero, kills |-> kills, worth |-> worth,
     lane |-> lane, party |-> party, order |-> [i \in DOMAIN bought |-> bought[i].item],
     items |-> {bought[i].item : i \in DOMAIN bought}, purchases |-> {bought[i] : i \in DOMAIN bought},
     death_details |-> deaths, deaths |-> Cardinality(deaths), assists |-> worth % 4,
     crits |-> kills, hits |-> 5 - kills, selfHealing |-> 2 * Cardinality(deaths), playerHealing |-> 6 * kills]

\* A match and the slots, results and snapshots of its players.
M(id, start, duration, badge0, badge1, pools, winner, players) ==
    [id |-> id, start |-> start, duration |-> duration, badge0 |-> badge0, badge1 |-> badge1,
     pools |-> pools, scored |-> id # 6,
     players |-> {[slot |-> i, won |-> players[i].team = winner,
                   stats |-> <<S(6, 1), S(18, 3), S(duration - 5, players[i].worth)>>] @@ players[i] : i \in DOMAIN players}]

SomeMatches ==
    {M(1, 0, 30, 11, 20, {}, 0,
       <<P(1, 0, 1, 2, 4, 1, 1, <<B(7, 9), B(21, 10), B(8, 10), B(7, 20), B(22, 25)>>, {D(3, 22, 4, 21)}),
         P(2, 0, 2, 1, 3, 1, 1, <<B(8, 5), B(21, 12), B(7, 30)>>, {}),
         P(3, 0, 3, 0, 5, 2, 0, <<>>, {D(4, 19, 4, 31)}),
         P(4, 1, 4, 3, 4, 1, 0, <<B(9, 11), B(8, 29)>>, {D(2, 14, 1, 18), D(8, 9, 0, 9)}),
         P(5, 1, 5, 2, 2, 2, 2, <<B(7, 3)>>, {}),
         P(6, 1, 6, 0, 3, 1, 2, <<B(8, 0)>>, {})>>),
     M(2, 1, 40, 30, 0, {"new_player"}, 1,
       <<P(3, 0, 3, 1, 8, 1, 0, <<B(7, 10), B(8, 40)>>, {D(9, 11, 5, 13)}),
         P(4, 0, 5, 0, 2, 2, 0, <<>>, {}),
         P(0, 0, 6, 5, 9, 1, 0, <<B(9, 12)>>, {}),
         P(1, 1, 1, 2, 9, 1, 3, <<B(21, 8), B(8, 11), B(22, 20), B(9, 33), B(7, 40)>>, {D(1, 5, 3, 5)}),
         P(2, 1, 2, 3, 4, 1, 3, <<B(8, 20)>>, {}),
         P(5, 1, 4, 1, 3, 2, 0, <<B(7, 21)>>, {D(6, 20, 0, 29)})>>),
     M(3, 3, 60, 60, 40, {}, 0,
       <<P(2, 0, 1, 5, 5, 1, 0, <<B(8, 5), B(21, 10), B(7, 19), B(22, 30), B(21, 60)>>, {D(5, 20, 4, 20)}),
         P(1, 0, 2, 2, 4, 1, 0, <<B(9, 40), B(7, 59)>>, {}),
         P(3, 1, 2, 1, 6, 1, 1, <<B(8, 9), B(9, 10), B(9, 11), B(7, 20)>>, {}),
         P(4, 1, 3, 4, 1, 2, 1, <<>>, {D(7, 11, 1, 13), D(9, 16, 1, 12)})>>),
     M(4, 4, 50, 90, 110, {"low_pri"}, 1,
       <<P(1, 0, 1, 4, 5, 1, 2, <<B(22, 7), B(7, 20), B(8, 41)>>, {D(9, 11, 3, 13)}),
         P(3, 0, 2, 0, 3, 1, 2, <<B(7, 12), B(8, 50)>>, {}),
         P(2, 1, 1, 3, 8, 1, 0, <<B(9, 9), B(21, 21)>>, {}),
         P(5, 1, 3, 2, 4, 1, 0, <<>>, {})>>),
     M(5, 6, 45, 116, 116, {}, 0,
       <<P(3, 0, 1, 1, 7, 1, 0, <<B(8, 40), B(9, 41), B(9, 42), B(7, 45)>>, {}),
         P(1, 1, 2, 2, 4, 1, 0, <<B(22, 7), B(21, 8), B(22, 9), B(21, 41)>>, {D(2, 14, 1, 18)})>>),
     M(6, 7, 30, 40, 40, {}, 0,
       <<P(1, 0, 1, 5, 9, 1, 0, <<B(7, 9)>>, {}), P(2, 1, 2, 5, 9, 1, 0, <<B(7, 9)>>, {D(2, 14, 1, 18)})>>)}

SomeBuckets == [no_bucket |-> 0, start_time_hour |-> 2, start_time_day |-> 4]

Info(min, max) == [AnyMatch EXCEPT !.minTime = min, !.maxTime = max]

SomeHeroQueries ==
    LET Q == HeroStatsQuery IN
    {[Q EXCEPT !.bucket = b, !.info = Info({1}, {3}), !.minHero = {2}] : b \in {"start_time_hour", "start_time_day"}}
    \cup {[Q EXCEPT !.bucket = "start_time_day", !.minHero = {2}], [Q EXCEPT !.include = {7}, !.exclude = {8}],
          [Q EXCEPT !.info = Info({}, {4}), !.accounts = {1, 2}, !.bucket = "start_time_hour"],
          [Q EXCEPT !.exclude = {7, 8}, !.info.minBadge = {30}, !.info.maxBadge = {115}],
          [Q EXCEPT !.maxTotal = {1}, !.maxWorth = {5}, !.accounts = {3}, !.bucket = "start_time_day"],
          [Q EXCEPT !.info.minBadge = {11}, !.info.maxBadge = {116}, !.maxHero = {2}]}

SomeCounterQueries ==
    LET Q == [HeroCounterStatsQuery EXCEPT !.minMatches = {}] IN
    {[Q EXCEPT !.sameLane = l, !.minWorth = w, !.minMatches = n] : l \in BOOLEAN, w \in {{}, {4}}, n \in {{}, {2}}}
    \cup {[Q EXCEPT !.info.minBadge = {40}, !.info.maxBadge = {95}, !.maxEnemyWorth = {4}]}

SomeSynergyQueries ==
    LET Q == [HeroSynergyStatsQuery EXCEPT !.minMatches = {}] IN
    {[Q EXCEPT !.sameLane = l, !.sameParty = l, !.accounts = a] : l \in BOOLEAN, a \in {{1, 2}, {1, 2, 4}}}
    \cup {[Q EXCEPT !.accounts = {2, 3}, !.minWorth = {2}, !.maxWorth = {5}]}

SomeCombQueries ==
    LET Q == HeroCombStatsQuery IN
    {[Q EXCEPT !.size = 2, !.minMatches = {n}, !.accounts = a] : n \in {1, 2}, a \in {{}, {1, 4}}}
    \cup {[Q EXCEPT !.size = 2, !.exclude = {6}, !.minMatches = {}], [Q EXCEPT !.size = 3, !.include = {1}],
          [Q EXCEPT !.size = 1, !.accounts = {3}], [Q EXCEPT !.maxWorth = {6}, !.accounts = {2, 4}]}

SomeItemQueries ==
    LET Q == [ItemStatsQuery EXCEPT !.minMatches = {}] IN
    {[Q EXCEPT !.heroes = h, !.minBought = b] : h \in {{}, {1, 3}}, b \in {{}, {10}}}
    \cup {[Q EXCEPT !.include = {7}, !.exclude = {8}, !.accounts = {1, 2}],
          [Q EXCEPT !.exclude = {7, 8}, !.maxBought = {40}],
          [Q EXCEPT !.minWorth = {5}, !.maxWorth = {9}, !.info.maxDuration = {50}],
          [Q EXCEPT !.minMatches = {2}, !.accounts = {3}]}

SomePermutationQueries ==
    LET Q == ItemPermutationStatsQuery IN
    {Q, [Q EXCEPT !.heroes = {1}, !.accounts = {1, 3}], [Q EXCEPT !.minWorth = {4}, !.maxWorth = {8}],
     [Q EXCEPT !.info.minBadge = {40}]}

SomeOrderQueries ==
    LET Q == AbilityOrderStatsQuery IN
    {Q, [Q EXCEPT !.hero = 2, !.accounts = {1, 2}], [Q EXCEPT !.minWorth = {3}, !.maxWorth = {8}],
     [Q EXCEPT !.hero = 9]}

SomeStored == [i \in 0 .. 6 |-> (3 * i) % 7]

SomePlayerBoardQueries ==
    LET Q == [PlayerScoreboardQuery EXCEPT !.minMatches = {}] IN
    {[Q EXCEPT !.sortBy = s, !.start = n, !.limit = 2] : s \in {"wins", "winrate", "avg_kills_per_match"}, n \in {0, 1}}
    \cup {[Q EXCEPT !.minMatches = {2}, !.limit = 1, !.descending = FALSE],
          [Q EXCEPT !.maxMatches = {2}, !.limit = 1, !.heroes = {1}, !.accounts = {1, 2, 4}]}

SomeHeroBoardQueries ==
    LET Q == HeroScoreboardQuery IN
    {[Q EXCEPT !.sortBy = s, !.minWorth = {4}] :
        s \in {"matches", "losses", "winrate", "max_kills_per_match", "avg_kills_per_match", "kills"}}
    \cup {[Q EXCEPT !.minMatches = {2}, !.accounts = {1, 3}], [Q EXCEPT !.maxWorth = {4}, !.info.minBadge = {40}]}

SomeCurveQueries ==
    LET Q == PlayerPerformanceCurveQuery IN
    {[Q EXCEPT !.resolution = n] : n \in {5, 15}}
    \cup {[Q EXCEPT !.heroes = {1}, !.minWorth = {3}], [Q EXCEPT !.include = {8}, !.maxWorth = {4}, !.accounts = {1, 2}],
          [Q EXCEPT !.exclude = {7}, !.info.minBadge = {40}]}

SomeMetricQueries ==
    LET Q == PlayerStatsMetricsQuery IN
    {[Q EXCEPT !.maxMatches = {3}], [Q EXCEPT !.maxMatches = {1}, !.accounts = {1, 2}],
     [Q EXCEPT !.heroes = {1}, !.minWorth = {4}]}

SomeKillDeathQueries ==
    LET Q == KillDeathStatsQuery IN
    {Q, [Q EXCEPT !.minKills = {1}, !.info.out = {"new_player"}], [Q EXCEPT !.maxAt = {5}, !.heroes = {1}],
     [Q EXCEPT !.accounts = {1, 2}, !.maxWorth = {5}],
     [Q EXCEPT !.teams = {2}, !.info.minBadge = {20}, !.info.minTime = {1}, !.info.maxTime = {4}],
     [Q EXCEPT !.info.maxDuration = {45}, !.info.in = {"low_pri"}, !.maxDeaths = {1}]}

SomeTiers == 7 :> 1 @@ 8 :> 1 @@ 9 :> 0

SomeCreatorQueries ==
    LET Q == BuildCreatorQuery IN
    {[Q EXCEPT !.hero = h, !.sortBy = s, !.minMatches = {2}] :
        h \in {1, 2}, s \in {"win_rate", "popularity", "avg_buy_order"}}
    \cup {[Q EXCEPT !.minMatches = {n}, !.timing = "game_time", !.info.minBadge = {20}] : n \in {1, 2}}
    \cup {[Q EXCEPT !.hero = 9]}

SomeBadgeQueries ==
    LET Q == BadgeDistributionQuery IN
    {Q, [Q EXCEPT !.minId = {2}, !.out = {"new_player"}], [Q EXCEPT !.maxDuration = {45}, !.minTime = {3}]}
=============================================================================

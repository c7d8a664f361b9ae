---------------------------- MODULE BuildCreator ----------------------------
(***************************************************************************)
(* The items of a hero for the build creator                               *)
(* (routes/v1/build_creator/handlers.rs): a query of its own gives one row *)
(* per item and bucket, and the handler makes an item of its rows and      *)
(* orders the items of each tier.  An average is a pair of sum and count,  *)
(* which the database divides and the handler multiplies again.            *)
(***************************************************************************)
EXTENDS ItemStats

CONSTANTS
    HeroNames,          \* heroes the assets know
    Tier,               \* item -> its tier in the assets, 0 if it has none
    CreatorQueries      \* the queries callers send

BuildCreatorQuery ==
    [hero |-> 1, info |-> AnyMatch, minMatches |-> {50}, sortBy |-> "win_rate", timing |-> "networth"]

ASSUME CreatorQueriesAssumption ==
    \A q \in CreatorQueries :
        /\ DOMAIN q = DOMAIN BuildCreatorQuery
        /\ q.info \in InfoFilter
        /\ q.minMatches \subseteq Nat /\ \A a, b \in q.minMatches : a = b

BuildCreatorBucket(q, r) ==
    IF q.timing = "networth" THEN By(5 * Thousand, NetWorthAtBuy(r)) ELSE GamePhase(r.it.at)

\* The purchases item_stats looks at, of one hero.
HerosPurchases(q) == ExplodedPlayers([ItemStatsQuery EXCEPT !.heroes = {q.hero}, !.info = q.info])

SoldIn(rows) == {r \in rows : r.it.sold > 0}
ItemStatsRow(rows) ==
    [wins |-> Cardinality(WonIn(rows)), matches |-> Cardinality(rows),
     avgBuy |-> <<SumFunction([r \in rows |-> r.it.at]), Cardinality(rows)>>,
     avgSell |-> <<SumFunction([r \in SoldIn(rows) |-> r.it.sold]), Cardinality(SoldIn(rows))>>,
     sells |-> Cardinality(SoldIn(rows))]

EnoughMatches(q, n) == AtLeast(q.minMatches, n)

RowsOfBucket(q, item, b) ==
    {r \in HerosPurchases(q) : r.it.item = item /\ BuildCreatorBucket(q, r) = b}

\* item_id -> bucket -> its row.
BuildCreatorRows(q) ==
    LET bought == HerosPurchases(q)
        kept(item) == {b \in {BuildCreatorBucket(q, r) : r \in bought} :
                         LET n == Cardinality(RowsOfBucket(q, item, b))
                         IN  n > 0 /\ EnoughMatches(q, n)}
    IN  [item \in {i \in {r.it.item : r \in bought} : kept(i) # {}} |->
           [b \in kept(item) |-> ItemStatsRow(RowsOfBucket(q, item, b))]]

Times(avg, n) == (avg[1] * n) \div avg[2]
SumBy(Of(_), rows) == SumFunction([b \in DOMAIN rows |-> Of(rows[b])])

\* Mutant: each bucket counts the same.
MeanOfBuckets(rows) ==
    <<SumBy(LAMBDA row : (1000 * row.wins) \div row.matches, rows), Cardinality(DOMAIN rows)>>

calculate_avg_winrate(rows) ==
    <<SumBy(LAMBDA row : Times(<<row.wins, row.matches>>, row.matches), rows),
      SumBy(LAMBDA row : row.matches, rows)>>

TotalSellTime(rows) ==
    SumBy(LAMBDA row : IF row.sells > 0 THEN Times(row.avgSell, row.sells) ELSE 0, rows)

BuildCreatorItem(rows) ==
    LET n == SumBy(LAMBDA row : row.matches, rows)
    IN  [matches |-> n,
         avgBuy |-> <<SumBy(LAMBDA row : Times(row.avgBuy, row.matches), rows), n>>,
         avgSell |-> <<TotalSellTime(rows), SumBy(LAMBDA row : row.sells, rows)>>,
         winrate |-> calculate_avg_winrate(rows)]

\* item -> what is answered of it; items unknown to the assets or without a tier are left out.
BuildCreatorItems(q) ==
    LET rows == BuildCreatorRows(q)
    IN  [item \in {i \in DOMAIN rows : i \in DOMAIN Tier /\ Tier[i] # 0} |-> BuildCreatorItem(rows[item])]

build_creator_items(q) ==
    IF q.hero \in HeroNames THEN BuildCreatorItems(q) ELSE [bad_request |-> TRUE]

Less(x, y) == x[1] * y[2] < y[1] * x[2]

\* Within a tier, a stands before b.
SortsBefore(q, a, b) ==
    CASE q.sortBy = "win_rate"   -> Less(b.winrate, a.winrate)
      [] q.sortBy = "popularity" -> b.matches < a.matches
      [] OTHER                   -> Less(a.avgBuy, b.avgBuy)

----------------------------------------------------------------------------
\* Properties

\* The purchases of an item that fall into a bucket with enough of them.
Kept(q, item) ==
    {r \in HerosPurchases(q) : r.it.item = item
        /\ AtLeast(q.minMatches, Cardinality(RowsOfBucket(q, item, BuildCreatorBucket(q, r))))}

\* The averages the handler puts together again from those of the buckets, each
\* weighted with the count it was made of, are the averages over the purchases
\* (handlers.rs:231-291).
AveragesReassembled ==
    \A q \in CreatorQueries : q.hero \in HeroNames => \A item \in DOMAIN build_creator_items(q) :
        LET it == build_creator_items(q)[item]
            of == ItemStatsRow(Kept(q, item))
        IN  <<it.matches, it.avgBuy, it.avgSell>> = <<of.matches, of.avgBuy, of.avgSell>>

\* How an item compares with another does not depend on how purchases are put
\* into buckets, unless a bucket was too small to count (handlers.rs:310-326).
OrderIgnoresBuckets ==
    \A q \in CreatorQueries : q.hero \in HeroNames => \A timing \in {"networth", "game_time"} :
        LET all == [q EXCEPT !.minMatches = {}]
            other == [all EXCEPT !.timing = timing]
            x == build_creator_items(all)
            y == build_creator_items(other)
        IN  /\ DOMAIN x = DOMAIN y
            /\ \A i, j \in DOMAIN x : SortsBefore(q, x[i], x[j]) <=> SortsBefore(q, y[i], y[j])

\* The minimum is applied to buckets, so purchases are missing from the total of
\* an item, or the item from the answer, though it was bought often enough: but
\* fewer than the minimum for each bucket it was bought in (handlers.rs:157).
OnlyRareBucketsMissing ==
    \A q \in CreatorQueries : \A min \in q.minMatches :
        LET everything == BuildCreatorRows([q EXCEPT !.minMatches = {}])
            rows == BuildCreatorRows(q)
            count(item, answer) == IF item \in DOMAIN answer THEN BuildCreatorItem(answer[item]).matches ELSE 0
        IN  \A item \in DOMAIN everything :
                count(item, everything) - count(item, rows)
                    <= (min - 1) * Cardinality(DOMAIN everything[item] \ (IF item \in DOMAIN rows THEN DOMAIN rows[item] ELSE {}))
=============================================================================

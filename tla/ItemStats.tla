----------------------------- MODULE ItemStats -----------------------------
(***************************************************************************)
(* Statistics of single items (routes/v1/analytics/item_stats.rs).  A      *)
(* player's stats are snapshots of his net worth in the order they were    *)
(* taken.                                                                  *)
(***************************************************************************)
EXTENDS MatchTables, Sequences

CONSTANTS
    Day,            \* a day, in the unit of start times
    Thousand,       \* 1000, in the unit of net worths
    ItemQueries     \* the queries callers send

\* Nothing is bought after the end of a match.
ASSUME PurchasesAssumption ==
    \A m \in PossibleMatches : \A p \in m.players :
        /\ IsFiniteSet(p.purchases)
        /\ \A it \in p.purchases : it.at \in 0 .. m.duration /\ it.sold \in Nat

ItemStatsQuery ==
    [bucket |-> "no_bucket", heroes |-> {}, info |-> AnyMatch, minWorth |-> {}, maxWorth |-> {},
     include |-> {}, exclude |-> {}, minMatches |-> {20}, maxMatches |-> {}, accounts |-> {},
     minBought |-> {}, maxBought |-> {}]

ASSUME ItemQueriesAssumption == \A q \in ItemQueries : DOMAIN q = DOMAIN ItemStatsQuery

\* Before 5, 10, 20 and 30 minutes, and after.
GamePhase(at) == Cardinality({end \in {5, 10, 20, 30} : at >= end * Minute})

NormalizedPercentage(r) == ((r.it.at - 1) * 100) \div r.match.duration

\* The snapshot before the first one taken at or after the purchase.  The place
\* before the first snapshot is none, the place -1 the last.
NetWorthAtBuy(r) ==
    LET stats == r.p.stats
        after == {i \in DOMAIN stats : stats[i].at >= r.it.at}
    IN  CASE after = {} /\ stats # <<>> -> stats[Len(stats)].worth
          [] after # {} /\ Min(after) > 1 -> stats[Min(after) - 1].worth
          [] OTHER -> r.p.worth

By(length, v) == (v \div length) * length

NetWorthBuckets ==
    [net_worth_by_1000 |-> 1, net_worth_by_2000 |-> 2, net_worth_by_3000 |-> 3,
     net_worth_by_5000 |-> 5, net_worth_by_10000 |-> 10]

SelectBucket(bucket, r) ==
    CASE bucket = "no_bucket" -> 0
      [] bucket = "hero" -> r.p.hero
      [] bucket = "team" -> r.p.team
      [] bucket = "start_time_hour" -> By(Hour, r.match.start)
      [] bucket = "start_time_day" -> By(Day, r.match.start)
      [] bucket = "game_time_min" -> r.it.at \div Minute
      [] bucket = "game_time_normalized_percentage" -> NormalizedPercentage(r)
      [] bucket = "game_phase" -> GamePhase(r.it.at)
      [] OTHER -> By(NetWorthBuckets[bucket] * Thousand, NetWorthAtBuy(r))

ItemMatches(q) == Chosen(q.info)

NoItemExcluded(q, p) == q.exclude \cap {it.item : it \in p.purchases} = {}

ItemPlayerFilters(q, p, it) ==
    /\ q.heroes # {} => p.hero \in q.heroes
    /\ q.accounts # {} => p.account \in Shown(q.accounts)
    /\ Within(q.minWorth, q.maxWorth, p.worth)
    /\ q.include \subseteq {i.item : i \in p.purchases}
    /\ NoItemExcluded(q, p)
    /\ Within(q.minBought, q.maxBought, it.at)

\* A row for every purchase of an upgrade after the start of a match.
ExplodedPlayers(q) ==
    {r \in UNION {{[match |-> r.match, p |-> r.p, it |-> it] : it \in r.p.purchases} :
                    r \in RowsOf(ItemMatches(q))} :
        r.it.item \in Upgrades /\ r.it.at > 0 /\ ItemPlayerFilters(q, r.p, r.it)}

ItemStats(rows) ==
    [wins |-> Cardinality(WonIn(rows)), matches |-> Cardinality(rows),
     players |-> Cardinality({r.p.account : r \in rows}),
     bought |-> SumFunction([r \in rows |-> r.it.at])]

BuildItemQuery(q) ==
    LET key(r) == <<r.it.item, SelectBucket(q.bucket, r)>>
        rows == ExplodedPlayers(q)
        group(k) == {r \in rows : key(r) = k}
    IN  [k \in {k \in {key(r) : r \in rows} : Within(q.minMatches, q.maxMatches, Cardinality(group(k)))}
            |-> ItemStats(group(k))]

item_stats(q) == IF Refused(q.accounts) THEN [refused |-> TRUE] ELSE BuildItemQuery(q)

----------------------------------------------------------------------------
\* Properties

In(q, bucket) == item_stats([q EXCEPT !.bucket = bucket])

\* A phase of the game starts and ends with a minute: the first five buckets of
\* game_time_min make the first phase, the next five the second, and so on,
\* though the two kinds of buckets round on their own (item_stats.rs:84-91).
PhasesAreWholeMinutes ==
    \A q \in ItemQueries : ~Refused(q.accounts) /\ q.minMatches \cup q.maxMatches = {} =>
        LET minutes == In(q, "game_time_min")
            phases == In(q, "game_phase")
            parts(k) == {m \in DOMAIN minutes : m[1] = k[1] /\ GamePhase(m[2] * Minute) = k[2]}
        IN  \A k \in DOMAIN phases :
                /\ phases[k].wins = SumFunction([m \in parts(k) |-> minutes[m].wins])
                /\ phases[k].matches = SumFunction([m \in parts(k) |-> minutes[m].matches])
                /\ phases[k].bought \in SumFunction([m \in parts(k) |-> m[2] * Minute * minutes[m].matches])
                        .. SumFunction([m \in parts(k) |-> ((m[2] + 1) * Minute - 1) * minutes[m].matches])

\* No purchase of a match falls outside its hundred percent, the one in the last
\* second included (item_stats.rs:85).
PercentWithinMatch ==
    \A q \in ItemQueries : ~Refused(q.accounts) =>
        \A k \in DOMAIN In(q, "game_time_normalized_percentage") : k[2] \in 0 .. 99

\* Leaving out the players with either of two items is inclusion and exclusion
\* of the players with each and with both (item_stats.rs:254-265).
ItemFiltersAddUp ==
    \A q \in ItemQueries :
        LET n(in, out) == Cardinality(ExplodedPlayers([q EXCEPT !.include = in, !.exclude = out]))
        IN  \A a, b \in q.include \cup q.exclude :
                n({}, {a, b}) + n({a}, {}) + n({b}, {}) = n({}, {}) + n({a, b}, {})
=============================================================================

----------------------------- MODULE ItemOrders -----------------------------
(***************************************************************************)
(* The order in which a player bought items                                *)
(* (routes/v1/analytics/item_permutation_stats.rs) and learned abilities   *)
(* (ability_order_stats.rs).                                               *)
(***************************************************************************)
EXTENDS MatchTables, Sequences, SequencesExt

CONSTANTS
    Abilities,              \* items of type ability
    HeroIds,                \* heroes the assets API knows
    PermutationQueries,     \* the queries callers send
    OrderQueries

\* What a player bought and learned, in order.
ASSUME OrdersAssumption == \A m \in PossibleMatches : \A p \in m.players : p.order \in Seq(Nat)

ItemPermutationStatsQuery ==
    [items |-> {}, size |-> {}, heroes |-> {}, info |-> AnyMatch, minWorth |-> {}, maxWorth |-> {},
     accounts |-> {}]

ASSUME PermutationQueriesAssumption ==
    \A q \in PermutationQueries : DOMAIN q = DOMAIN ItemPermutationStatsQuery

PermutationMatches(q) == Chosen(q.info)

PermutationRows(q) ==
    {r \in RowsOf(PermutationMatches(q)) :
        /\ q.heroes # {} => r.p.hero \in q.heroes
        /\ q.accounts # {} => r.p.account \in Shown(q.accounts)
        /\ Within(q.minWorth, q.maxWorth, r.p.worth)}

ItemPermutationStats(rows) ==
    [wins |-> Cardinality(WonIn(rows)), losses |-> Cardinality(rows \ WonIn(rows))]

\* The k-th of some places, and a sequence with nothing but what it has there.
Place(places, k) == CHOOSE i \in places : Cardinality({j \in places : j <= i}) = k
AtPlaces(s, places) == [k \in 1 .. Cardinality(places) |-> s[Place(places, k)]]

\* The first purchase of each item.
Distinct(items) == {i \in DOMAIN items : \A j \in 1 .. i - 1 : items[j] # items[i]}

\* Items of some kind, each where it was bought first.
DistinctOf(kind, items) == AtPlaces(items, {i \in Distinct(items) : items[i] \in kind})

\* p_items of t_players
PlayerItems(p) == DistinctOf(Upgrades, p.order)

\* Mutant: two places of a permutation may be the same.
NotDecreasingPlaces(s, size) == {f \in [1 .. size -> DOMAIN s] : \A i \in 1 .. size - 1 : f[i] <= f[i + 1]}

\* i0_index < i1_index < ...
IncreasingPlaces(s, size) == {f \in [1 .. size -> DOMAIN s] : \A i \in 1 .. size - 1 : f[i] < f[i + 1]}

\* Without items in the query, every few items a player bought, in order.
ByCombSize(q, size) ==
    LET perms(r) == {[i \in 1 .. size |-> PlayerItems(r.p)[f[i]]] : f \in IncreasingPlaces(PlayerItems(r.p), size)}
        rows == PermutationRows(q)
    IN  [perm \in UNION {perms(r) : r \in rows} |-> ItemPermutationStats({r \in rows : perm \in perms(r)})]

\* With items in the query, the players who had them all, by the order they
\* bought them in (the order of arrayIntersect's first argument).
ByItems(q) ==
    LET rows == {r \in PermutationRows(q) : q.items \subseteq ToSet(r.p.order)}
        perm(r) == DistinctOf(q.items, r.p.order)
    IN  [s \in {perm(r) : r \in rows} |-> ItemPermutationStats({r \in rows : perm(r) = s})]

\* A single item makes an empty statement, which the database turns down.
BuildPermutationQuery(q) ==
    CASE q.items = {} -> ByCombSize(q, IF q.size = {} THEN 2 ELSE CHOOSE n \in q.size : TRUE)
      [] Cardinality(q.items) = 1 -> [failed |-> TRUE]
      [] OTHER -> ByItems(q)

item_permutation_stats(q) ==
    CASE Refused(q.accounts) -> [refused |-> TRUE]
      [] q.items # {} /\ q.size # {} -> [bad_request |-> TRUE]
      [] OTHER -> BuildPermutationQuery(q)

----------------------------------------------------------------------------
AbilityOrderStatsQuery ==
    [hero |-> 1, info |-> AnyMatch, minUpgrades |-> {}, maxUpgrades |-> {}, minWorth |-> {},
     maxWorth |-> {}, minMatches |-> {10}, accounts |-> {}]

ASSUME OrderQueriesAssumption ==
    \A q \in OrderQueries : DOMAIN q = DOMAIN AbilityOrderStatsQuery

OrderMatches(q) == Chosen(q.info)

AbilityOrder(p) == AtPlaces(p.order, {i \in DOMAIN p.order : p.order[i] \in Abilities})

AbilityUpgrades(q, p) == Within(q.minUpgrades, q.maxUpgrades, Len(AbilityOrder(p)))

OrderRows(q) ==
    {r \in RowsOf(OrderMatches(q)) :
        /\ r.p.hero = q.hero
        /\ q.accounts # {} => r.p.account \in Shown(q.accounts)
        /\ Within(q.minWorth, q.maxWorth, r.p.worth)
        /\ AbilityUpgrades(q, r.p)}

AbilityOrderStats(rows) ==
    [wins |-> Cardinality(WonIn(rows)), losses |-> Cardinality(rows \ WonIn(rows)),
     players |-> Cardinality({r.p.account : r \in rows}), kills |-> KillsIn(rows)]

BuildOrderQuery(q) ==
    LET group(s) == {r \in OrderRows(q) : AbilityOrder(r.p) = s}
        orders == {AbilityOrder(r.p) : r \in OrderRows(q)}
    IN  [s \in {s \in orders : AtLeast(q.minMatches, Cardinality(group(s)))} |-> AbilityOrderStats(group(s))]

ability_order_stats(q) ==
    CASE Refused(q.accounts) -> [refused |-> TRUE]
      [] q.hero \notin HeroIds -> [bad_request |-> TRUE]
      [] OTHER -> BuildOrderQuery(q)

----------------------------------------------------------------------------
\* Properties

MatchesIn(stats) == SumFunction([s \in DOMAIN stats |-> stats[s].wins + stats[s].losses])

\* The two ways to ask agree: what item_ids says of two items is what the
\* pairs of comb_size say of them in one order and in the other, though one
\* looks at all items and the other joins the upgrades with themselves
\* (item_permutation_stats.rs:164-209).
PairsAgree ==
    \A q \in PermutationQueries : ~Refused(q.accounts) =>
        LET pairs == item_permutation_stats([q EXCEPT !.items = {}, !.size = {2}])
        IN  \A a, b \in Upgrades : a # b =>
                LET both == item_permutation_stats([q EXCEPT !.items = {a, b}, !.size = {}])
                    inOrder == DOMAIN pairs \cap {<<a, b>>, <<b, a>>}
                IN  /\ SumFunction([s \in DOMAIN both |-> both[s].wins])
                         = SumFunction([s \in inOrder |-> pairs[s].wins])
                    /\ SumFunction([s \in DOMAIN both |-> both[s].losses])
                         = SumFunction([s \in inOrder |-> pairs[s].losses])

\* However often a player bought an item, no permutation has it twice, and a
\* player with n upgrades brings one permutation for every few of them.
EveryFewItemsOnce ==
    \A q \in PermutationQueries : ~Refused(q.accounts) => \A size \in {2, 3} :
        LET stats == item_permutation_stats([q EXCEPT !.items = {}, !.size = {size}])
            bought(r) == ToSet(r.p.order) \cap Upgrades
        IN  /\ \A s \in DOMAIN stats : Cardinality(ToSet(s)) = size
            /\ MatchesIn(stats) =
                 SumFunction([r \in PermutationRows(q) |-> Cardinality(kSubset(size, bought(r)))])

\* The bounds on ability upgrades cut the players of a hero in two and change no
\* order on either side.
UpgradeLimitsSplit ==
    \A q \in OrderQueries : ~Refused(q.accounts) /\ q.hero \in HeroIds => \A n \in 0 .. 3 :
        LET open == [q EXCEPT !.minMatches = {}]
            all == ability_order_stats([open EXCEPT !.minUpgrades = {}, !.maxUpgrades = {}])
            few == ability_order_stats([open EXCEPT !.minUpgrades = {}, !.maxUpgrades = {n}])
            many == ability_order_stats([open EXCEPT !.minUpgrades = {n + 1}, !.maxUpgrades = {}])
        IN  /\ DOMAIN few \cap DOMAIN many = {}
            /\ DOMAIN all = DOMAIN few \cup DOMAIN many
            /\ \A s \in DOMAIN all : all[s] = (IF s \in DOMAIN few THEN few[s] ELSE many[s])
=============================================================================

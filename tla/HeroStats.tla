----------------------------- MODULE HeroStats -----------------------------
(* Hero statistics (routes/v1/analytics/hero_stats.rs).                      *)
EXTENDS MatchTables

CONSTANTS
    Buckets,        \* bucket -> its length, 0 for no_bucket
    HeroQueries     \* the queries callers send

HeroStatsQuery ==
    [info |-> AnyMatch, bucket |-> "no_bucket", minWorth |-> {}, maxWorth |-> {},
     minHero |-> {}, maxHero |-> {}, minTotal |-> {}, maxTotal |-> {},
     include |-> {}, exclude |-> {}, accounts |-> {}]

ASSUME HeroQueriesAssumption ==
    /\ Buckets["no_bucket"] = 0
    /\ \A q \in HeroQueries : DOMAIN q = DOMAIN HeroStatsQuery /\ q.info \in InfoFilter

BucketOf(q, m) ==
    IF Buckets[q.bucket] = 0 THEN 0 ELSE m.start - (m.start % Buckets[q.bucket])

NoneExcluded(q, p) == q.exclude \cap p.items = {}

HeroPlayerFilters(q, p) ==
    /\ q.accounts = {} \/ p.account \in Shown(q.accounts)
    /\ Within(q.minWorth, q.maxWorth, p.worth)
    /\ q.include \subseteq p.items
    /\ NoneExcluded(q, p)

Filtered(q) == {r \in RowsOf(Chosen(q.info)) : HeroPlayerFilters(q, r.p)}

\* The limits only apply when the first of them that is given exceeds one.
Limiting(min, max) == \E v \in (IF min # {} THEN min ELSE max) : v > 1

\* Mutant: a player's matches are counted bucket by bucket.
MatchesInBucket(q, r) ==
    Cardinality({s.match : s \in {s \in Filtered(q) :
        /\ s.p.account = r.p.account /\ s.p.hero = r.p.hero
        /\ BucketOf(q, s.match) = BucketOf(q, r.match)}})

\* uniq(match_id) of t_players
HeroMatches(q, r) ==
    Cardinality({s.match : s \in {s \in Filtered(q) :
                                    s.p.account = r.p.account /\ s.p.hero = r.p.hero}})

\* count() of player_match_history, which knows no filter
HeroMatchesTotal(r) ==
    Cardinality({s \in RowsOf(matches) : s.p.account = r.p.account /\ s.p.hero = r.p.hero})

Counted(q) ==
    {r \in Filtered(q) :
        /\ Limiting(q.minHero, q.maxHero) => Within(q.minHero, q.maxHero, HeroMatches(q, r))
        /\ Limiting(q.minTotal, q.maxTotal) => Within(q.minTotal, q.maxTotal, HeroMatchesTotal(r))}

\* wins, losses, the players and the sums of a group
AnalyticsHeroStats(rows) ==
    [wins |-> Cardinality(WonIn(rows)), losses |-> Cardinality(rows \ WonIn(rows)),
     players |-> Cardinality({r.p.account : r \in rows}), kills |-> KillsIn(rows)]

Group(q, hero, bucket) ==
    {r \in Counted(q) : r.p.hero = hero /\ BucketOf(q, r.match) = bucket}

\* Without buckets the matches of the hero, with them those of all heroes.
MatchesPerBucket(q, hero, bucket) ==
    IF q.bucket = "no_bucket" THEN Cardinality(Group(q, hero, bucket))
    ELSE Cardinality({<<r.p.hero, r.match>> : r \in {r \in Counted(q) : BucketOf(q, r.match) = bucket}})

BuildHeroQuery(q) ==
    [key \in {<<r.p.hero, BucketOf(q, r.match)>> : r \in Counted(q)} |->
        [stats |-> AnalyticsHeroStats(Group(q, key[1], key[2])),
         all   |-> MatchesPerBucket(q, key[1], key[2])]]

hero_stats(q) == IF Refused(q.accounts) THEN [refused |-> TRUE] ELSE BuildHeroQuery(q)

----------------------------------------------------------------------------
\* Properties

Unbucketed(q) == [q EXCEPT !.bucket = "no_bucket"]
BucketsOf(q, hero) == {BucketOf(q, r.match) : r \in {r \in Counted(q) : r.p.hero = hero}}

\* The range of matches is widened to whole hours and by nothing else.
RangeWidenedToHours == \A q \in HeroQueries : WidenedAtMostAnHour(q.info)

\* Whatever the bucket, the buckets of a hero add up to its unbucketed stats:
\* the limits on a player's matches look at the whole range (hero_stats.rs:285),
\* so that no bucket drops a player another one counts.
BucketsAddUp ==
    \A q \in HeroQueries : ~Refused(q.accounts) =>
        LET all == hero_stats(Unbucketed(q))
            parts == hero_stats(q)
        IN  /\ DOMAIN all = {<<key[1], 0>> : key \in DOMAIN parts}
            /\ \A h \in {key[1] : key \in DOMAIN parts} :
             LET whole == all[<<h, 0>>].stats
                 part(b) == parts[<<h, b>>].stats
             IN  /\ whole.wins = SumFunction([b \in BucketsOf(q, h) |-> part(b).wins])
                 /\ whole.losses = SumFunction([b \in BucketsOf(q, h) |-> part(b).losses])
                 /\ whole.kills = SumFunction([b \in BucketsOf(q, h) |-> part(b).kills])

\* A query that names accounts is answered as if the protected ones were not
\* named; when nobody is left it is turned down, and never answered as if it had
\* named nobody (hero_stats.rs:397-417).
ProtectedLeaveNoTrace ==
    \A q \in HeroQueries : q.accounts # {} =>
        hero_stats(q) = IF q.accounts \subseteq protected THEN [refused |-> TRUE]
                        ELSE hero_stats([q EXCEPT !.accounts = @ \ protected])

\* Leaving out the buyers of two items is inclusion and exclusion of the buyers
\* of each and of both (hero_stats.rs:188-199).
HeroFiltersAddUp ==
    \A q \in HeroQueries : q.minHero \cup q.maxHero = {} =>
        LET n(in, out) == Cardinality(Counted([q EXCEPT !.include = in, !.exclude = out]))
        IN  \A a, b \in q.include \cup q.exclude :
                n({}, {a, b}) + n({a}, {}) + n({b}, {}) = n({}, {}) + n({a, b}, {})
=============================================================================

----------------------------- MODULE PlayerMMR -----------------------------
(***************************************************************************)
(* The rank of a player (routes/v1/players/mmr): an average over the last  *)
(* matches of the badge of the player's team, each match counting less     *)
(* the older it is.  A score is a fraction, <<numerator, denominator>>.    *)
(***************************************************************************)
EXTENDS PlayerTables

CONSTANTS
    WindowSize,         \* matches looked at, 40
    Keep, Of,           \* SMOOTHING_FACTOR, 0.8, is Keep / Of
    RatedHeroes,
    MMRQueries,         \* the queries callers send
    DistributionQueries

ASSUME WindowAssumption == WindowSize \in Nat \ {0}
ASSUME SmoothingAssumption == {Keep, Of} \subseteq Nat \ {0}

\* A badge is made of a tier and of one of six subtiers, 0 where there is none.
ASSUME BadgeAssumption ==
    \A m \in PossibleMatches : \A b \in {m.badge0, m.badge1} :
        b \in Nat /\ (b > 0 => b \div 10 \in 1 .. 11 /\ b % 10 \in 1 .. 6)

ASSUME MMRQueriesAssumption == \A q \in MMRQueries : IsFiniteSet(q.accounts) /\ q.maxId \subseteq Nat

\* The badge of tier t and subtier s as a number of subtiers.
MMR(badge) == ((badge \div 10) - 1) * 6 + (badge % 10)

\* Those who only watched get the badge of the first team.
TeamBadge(r) == IF r.p.team = 1 THEN r.match.badge1 ELSE r.match.badge0

\* t_matches: the history of an account, of one hero if heroes is not empty.
Rated(account, heroes) ==
    {[id |-> r.match.id, start |-> r.match.start, mmr |-> MMR(TeamBadge(r)), match |-> r.match] :
        r \in {r \in Histories :
                  /\ r.p.account = account
                  /\ r.match \in matches
                  /\ heroes # {} => r.p.hero \in heroes
                  /\ r.match.scored /\ ~r.match.notScored
                  /\ TeamBadge(r) > 0}}

Window(rows, last) ==
    {r \in rows : r.id <= last.id /\ Cardinality({s \in rows : r.id < s.id /\ s.id <= last.id}) < WindowSize}

\* date_diff('hour', ...): later ids may have started earlier.
HoursBefore(r, last) == (last.start \div Hour) - (r.start \div Hour)

PowersOf(base) == LET p[n \in Nat] == IF n = 0 THEN 1 ELSE base * p[n - 1] IN p

\* The weighted mean; the weights, powers of Keep / Of, are brought to whole numbers.
Score(window, last) ==
    LET hours == {HoursBefore(r, last) : r \in window}
        weight(r) == PowersOf(Keep)[HoursBefore(r, last) - Min(hours)]
                       * PowersOf(Of)[Max(hours) - HoursBefore(r, last)]
        den == SumFunction([r \in window |-> weight(r)])
        num == SumFunction([r \in window |-> weight(r) * r.mmr])
    IN  <<Max({0, Min({num, 66 * den})}), den>>

Floor(score) == score[1] \div score[2]

\* From a score to a badge; between zero and one the remainder is negative.
Rank(score) ==
    CASE score[1] = 0 -> 0
      [] score[1] > 0 /\ Floor(score) = 0 -> 10
      [] OTHER -> 10 * ((Floor(score) - 1) \div 6) + 11 + ((Floor(score) - 1) % 6)

MMRHistory(rows, last) ==
    LET score == Score(Window(rows, last), last)
    IN  [match |-> last.id, start |-> last.start, score |-> score, rank |-> Rank(score),
         division |-> Rank(score) \div 10, tier |-> Rank(score) % 10]

\* Every match of an account and where the player stood after it.
HistoryQuery(account, heroes) ==
    LET rows == Rated(account, heroes)
    IN  [id \in {r.id : r \in rows} |-> MMRHistory(rows, CHOOSE r \in rows : r.id = id)]

mmr_history(account) == Answer(account, HistoryQuery(account, {}))
hero_mmr_history(account, hero) == Answer(account, HistoryQuery(account, {hero}))

Newest(rows) == CHOOSE r \in rows : \A s \in rows : s.id <= r.id

\* Mutant: the newest match is chosen first and the limit looked at afterwards.
LimitAfterwards(account, heroes, maxId) ==
    LET rows == Rated(account, heroes)
    IN  IF rows = {} \/ ~AtMost(maxId, Newest(rows).id) THEN {} ELSE {MMRHistory(rows, Newest(rows))}
\* Where an account stood after its last match up to maxId, if it has one.
LastQuery(account, heroes, maxId) ==
    LET rows == {r \in Rated(account, heroes) : AtMost(maxId, r.id)}
    IN  IF rows = {} THEN {} ELSE {MMRHistory(rows, Newest(rows))}

MMRBatchQuery == [accounts |-> {}, maxId |-> {}]

Batch(q, heroes) ==
    IF Cardinality(Shown(q.accounts)) > MaxAccounts THEN [bad_request |-> TRUE]
    ELSE [a \in {a \in Shown(q.accounts) : LastQuery(a, heroes, q.maxId) # {}} |->
             CHOOSE h \in LastQuery(a, heroes, q.maxId) : TRUE]

mmr(q) == Batch(q, {})
hero_mmr(hero, q) == Batch(q, {hero})

----------------------------------------------------------------------------
MMRDistributionQuery ==
    [minTime |-> {}, maxTime |-> {}, maxDuration |-> {}, minId |-> {}, maxId |-> {}, in |-> {}, out |-> {}]

DistributionFilters(q, m) ==
    /\ Within(q.minTime, q.maxTime, m.start)
    /\ Within(q.minId, q.maxId, m.id)
    /\ AtMost(q.maxDuration, m.duration)
    /\ q.in \subseteq m.pools
    /\ q.out \cap m.pools = {}

\* Where each account stands that has filled one half of the window, or both.
Standing(q, heroes, halves) ==
    LET rows(a) == {r \in Rated(a, heroes) : DistributionFilters(q, r.match)}
        window(a) == Window(rows(a), Newest(rows(a)))
    IN  [a \in {a \in Participants : rows(a) # {} /\ 2 * Cardinality(window(a)) >= halves * WindowSize} |->
            Rank(<<Floor(Score(window(a), Newest(rows(a)))), 1>>)]

DistributionEntries(standing, ranks) ==
    [rank \in {standing[a] : a \in DOMAIN standing} \cap ranks |->
        Cardinality({a \in DOMAIN standing : standing[a] = rank})]

mmr_distribution(q) == DistributionEntries(Standing(q, {}, 1), 11 .. 116)

\* Here the whole window has to be filled, and any rank is shown.
hero_mmr_distribution(hero, q) == DistributionEntries(Standing(q, {hero}, 2), 0 .. 116)

----------------------------------------------------------------------------
\* Properties

BadgesOf(account, rows) ==
    {IF h.p.team = 1 THEN h.match.badge1 ELSE h.match.badge0 :
        h \in {h \in Histories : h.p.account = account /\ h.match.id \in {r.id : r \in rows}}}

\* However the matches are weighted, the rank is one between the lowest and the
\* highest badge of the matches in the window, and a badge stays itself on the way
\* to a score and back (mmr_history.rs:55, 79-80).
RankWithinWindow ==
    \A a \in Participants : Known(a) =>
        \A id \in DOMAIN mmr_history(a) :
            LET rows == {r \in Rated(a, {}) : r.id <= id}
                recent == {r \in rows : Cardinality({s \in rows : s.id > r.id}) < WindowSize}
            IN  mmr_history(a)[id].rank \in Min(BadgesOf(a, recent)) .. Max(BadgesOf(a, recent))

\* The batch endpoint, which numbers the rows after the windows are made, says
\* of every account what its history says of its last match up to the limit
\* (batch.rs:63-72, mmr_history.rs:64-74).
BatchEndsHistory ==
    \A q \in MMRQueries, hero \in RatedHeroes \cup {0} :
        Cardinality(Shown(q.accounts)) <= MaxAccounts =>
            LET batch == IF hero = 0 THEN mmr(q) ELSE hero_mmr(hero, q)
                history(a) == IF hero = 0 THEN mmr_history(a) ELSE hero_mmr_history(a, hero)
                upTo(a) == {id \in DOMAIN history(a) : AtMost(q.maxId, id)}
            IN  \A a \in q.accounts :
                    IF Known(a) /\ upTo(a) # {}
                    THEN a \in DOMAIN batch /\ batch[a] = history(a)[Max(upTo(a))]
                    ELSE a \notin DOMAIN batch

\* The distribution of all players is made of the ranks the batch endpoint gives
\* them, of those who have half a window of matches; its scores are cut to whole
\* numbers before they are ranked, and players are counted once
\* (distribution.rs:109-118, batch.rs:78-79).
DistributionCountsBatch ==
    LET rank(a) == mmr([MMRBatchQuery EXCEPT !.accounts = {a}])[a].rank
        enough == {a \in Participants : Known(a) /\ 2 * Cardinality(Rated(a, {})) >= WindowSize}
    IN  mmr_distribution(MMRDistributionQuery) =
            [n \in {rank(a) : a \in enough} |-> Cardinality({a \in enough : rank(a) = n})]

\* Whose hero rank is counted has a rank with that hero, and no distribution has
\* more players than there are (distribution.rs:152-156).
HeroDistributionKnown ==
    \A q \in DistributionQueries, hero \in RatedHeroes :
        LET counted == hero_mmr_distribution(hero, q)
        IN  SumFunction(counted)
              <= Cardinality({a \in Participants : Known(a) /\ Cardinality(DOMAIN hero_mmr_history(a, hero)) >= WindowSize})
=============================================================================

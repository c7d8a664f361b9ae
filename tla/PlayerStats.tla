---------------------------- MODULE PlayerStats ----------------------------
(***************************************************************************)
(* What a player sees of the matches played (routes/v1/players): by hero,  *)
(* with mates, against enemies and in parties.  The endpoint of several    *)
(* accounts does not ask who is protected, it relies on the row policies.  *)
(***************************************************************************)
EXTENDS PlayerTables

CONSTANTS
    StatsQueries,       \* the queries callers send, of mates, enemies and parties
    PlayerHeroQueries

----------------------------------------------------------------------------
StatsOf(rows, wins) ==
    [wins |-> Cardinality(rows \cap wins), matches |-> {r.match.id : r \in rows}]

\* The stats of every other account, those of too few or too many matches left out.
ByAccount(q, rows, wins) ==
    LET stats(a) == StatsOf({r \in rows : r.p.account = a}, wins)
    IN  [a \in {a \in {r.p.account : r \in rows} :
                   Within(q.minMatches, q.maxMatches, Cardinality(stats(a).matches))} |-> stats(a)]

MateStatsQuery == [info |-> AnyMatch, minMatches |-> {}, maxMatches |-> {}, sameParty |-> TRUE]

ASSUME StatsQueriesAssumption == \A q \in StatsQueries : DOMAIN q = DOMAIN MateStatsQuery

MateHistories(account, q) ==
    {r \in Histories : r.p.account = account /\ InfoFilters(q.info, r.match)}

InParty(r) == r.p.party # 0

\* With whom a player was in a party, as far as the match is known in detail.
PartyMates(account, q) ==
    LET players == {r \in RowsOf(matches) :
                        /\ r.p.account = account
                        /\ InParty(r)
                        /\ \E h \in MateHistories(account, q) : h.match.id = r.match.id}
    IN  {r \in RowsOf(matches) :
            /\ r.p.account # account
            /\ \E own \in players : /\ own.match = r.match
                                    /\ own.p.team = r.p.team /\ own.p.party = r.p.party}

\* Whose stored history has the match, in the same team.
TeamMates(account, q) ==
    {r \in Histories :
        /\ r.p.account # account
        /\ \E h \in MateHistories(account, q) : h.match.id = r.match.id /\ h.p.team = r.p.team}

mate_stats(account, q) ==
    LET mates == IF q.sameParty THEN PartyMates(account, q) ELSE TeamMates(account, q)
    IN  Answer(account, ByAccount(q, mates, {r \in mates : r.p.won}))

\* Mutant: those who only watched have enemies too.
Watching(account, q) == MateHistories(account, q)
EnemyHistories(account, q) ==
    {r \in Histories : /\ r.p.account = account
                       /\ r.p.team \in {0, 1}
                       /\ InfoFilters(q.info, r.match)}

\* Whose stored history has the match, in the other team.
EnemyRows(account, q) ==
    {r \in Histories : \E h \in EnemyHistories(account, q) :
        h.match.id = r.match.id /\ r.p.team = (IF h.p.team = 1 THEN 0 ELSE 1)}

\* A match is won that the enemy has not won.
enemy_stats(account, q) ==
    LET enemies == EnemyRows(account, q)
    IN  Answer(account, ByAccount(q, enemies, {r \in enemies : ~r.p.won}))

\* The party of each match, the player alone where there is none.  The player's
\* own rows are taken from all matches.
PartyRows(account, q) ==
    LET histories == {h.match.id : h \in {h \in Histories :
                                            h.p.account = account /\ InfoFilters(q.info, h.match)}}
        parties == {r \in RowsOf(matches) : r.p.account = account /\ r.p.party # 0 /\ r.match.id \in histories}
        members(m) == {r \in RowsOf({m}) :
                          \/ r.p.account = account
                          \/ \E own \in parties : /\ own.match = m
                                                  /\ own.p.team = r.p.team /\ own.p.party = r.p.party}
    IN  {[match |-> m, won |-> \E r \in members(m) : r.p.won,
          size |-> Cardinality({r.p.account : r \in members(m)})] :
            m \in {m \in matches : members(m) # {}}}

PartyStats(rows) ==
    [n \in {r.size : r \in rows} |-> StatsOf({r \in rows : r.size = n}, {r \in rows : r.won})]

party_stats(account, q) == Answer(account, PartyStats(PartyRows(account, q)))

PlayerHeroStatsQuery ==
    [accounts |-> {}, heroes |-> {}, info |-> AnyMatch, minWorth |-> {}, maxWorth |-> {}]

ASSUME PlayerHeroQueriesAssumption == \A q \in PlayerHeroQueries : DOMAIN q = DOMAIN PlayerHeroStatsQuery

OfHeroes(q, r) == r.p.account \in q.accounts /\ (q.heroes # {} => r.p.hero \in q.heroes)

\* Matches in the history of one of the accounts.
HeroHistories(q) == {h.match.id : h \in {h \in Histories : OfHeroes(q, h)}}

HeroMatchRows(q) ==
    {r \in RowsOf(matches) : /\ r.match.id \in HeroHistories(q)
                             /\ OfHeroes(q, r)
                             /\ InfoFilters(q.info, r.match)
                             /\ Within(q.minWorth, q.maxWorth, r.p.worth)}

HeroStats(rows) ==
    [wins |-> Cardinality(WonIn(rows)), matches |-> {r.match.id : r \in rows},
     last_played |-> Max({r.match.start : r \in rows}),
     time_played |-> SumFunction([r \in rows |-> r.match.duration]), kills |-> KillsIn(rows)]

get_hero_stats(q) ==
    IF q.accounts = {} \/ Cardinality(q.accounts) > MaxAccounts THEN [bad_request |-> TRUE]
    ELSE [k \in {<<r.p.account, r.p.hero>> : r \in HeroMatchRows(q)} |->
             HeroStats({r \in HeroMatchRows(q) : <<r.p.account, r.p.hero>> = k})]

player_hero_stats(q) == get_hero_stats(q)

hero_stats_single(account, q) ==
    Answer(account, get_hero_stats([q EXCEPT !.accounts = {account}, !.heroes = {}]))

----------------------------------------------------------------------------
\* Properties

\* Two players see the same of each other: as many matches together, and of those
\* against each other every one is won by one of them, though each answer starts
\* from the history of its own player and spectators have histories too
\* (mate_stats.rs:124-131, enemy_stats.rs:89-101).
PlayersSeeTheSame ==
    \A q \in StatsQueries, a, b \in Participants : Known(a) /\ Known(b) /\ ~q.sameParty =>
        LET mates == mate_stats(a, q)
            enemies == enemy_stats(a, q)
        IN  /\ b \in DOMAIN mates => a \in DOMAIN mate_stats(b, q) /\ mates[b] = mate_stats(b, q)[a]
            /\ b \in DOMAIN enemies =>
                 LET theirs == enemy_stats(b, q)
                 IN  /\ a \in DOMAIN theirs
                     /\ theirs[a].matches = enemies[b].matches
                     /\ theirs[a].wins + enemies[b].wins = Cardinality(enemies[b].matches)

Unlimited(q, party) == [q EXCEPT !.sameParty = party, !.minMatches = {}, !.maxMatches = {}]

\* Nobody is a mate and an enemy in one match, and the mates of a party are among
\* those of the team wherever their own histories are stored
\* (mate_stats.rs:97-109, 124-131; enemy_stats.rs:89-101).
PartyMatesAreMates ==
    \A q \in StatsQueries, a \in Participants : Known(a) =>
        LET party == mate_stats(a, Unlimited(q, TRUE))
            team == mate_stats(a, Unlimited(q, FALSE))
            enemies == enemy_stats(a, Unlimited(q, FALSE))
            has(stats, b) == IF b \in DOMAIN stats THEN stats[b].matches ELSE {}
        IN  \A b \in Participants :
                /\ has(team, b) \cap has(enemies, b) = {}
                /\ has(party, b) \cap {h.match.id : h \in {h \in Histories : h.p.account = b}} \subseteq has(team, b)

\* Party sizes and party mates are two counts of the same thing: a party of n has
\* n - 1 mates, and a player without a party has none
\* (party_stats.rs:71-77, mate_stats.rs:98-109).
PartySizesAddUp ==
    \A q \in StatsQueries, a \in Participants : Known(a) =>
        LET mates == mate_stats(a, Unlimited(q, TRUE))
            parties == party_stats(a, q)
        IN  SumFunction([b \in DOMAIN mates |-> Cardinality(mates[b].matches)])
              = SumFunction([n \in DOMAIN parties |-> (n - 1) * Cardinality(parties[n].matches)])

\* A call for several accounts has everything the calls for each have; and with a
\* hero asked for, exactly what the answer to all heroes says of it
\* (hero_stats.rs:147-165).
HeroAnswersFit ==
    \A q \in PlayerHeroQueries : Cardinality(q.accounts) \in 1 .. MaxAccounts =>
        LET together == player_hero_stats(q)
        IN  \A a \in q.accounts :
                LET alone == player_hero_stats([q EXCEPT !.accounts = {a}])
                    single == hero_stats_single(a, q)
                IN  /\ DOMAIN alone \subseteq DOMAIN together
                    /\ \A k \in DOMAIN alone : alone[k].matches \subseteq together[k].matches
                    /\ Known(a) => \A k \in DOMAIN single :
                                      q.heroes = {} \/ k[2] \in q.heroes => k \in DOMAIN alone /\ alone[k] = single[k]
=============================================================================

---------------------------- MODULE Scoreboards ----------------------------
(***************************************************************************)
(* Players and heroes ordered by a statistic                               *)
(* (routes/v1/analytics/player_scoreboard.rs, hero_scoreboard.rs and       *)
(* scoreboard_types.rs).  The number of a row in the answer is left out:   *)
(* the database counts rows before it orders them.                         *)
(***************************************************************************)
EXTENDS MatchTables, Sequences, SequencesExt

CONSTANTS
    Stored,                  \* where the database comes upon each player and hero
    PlayerBoardQueries,      \* the queries callers send
    HeroBoardQueries

\* A place for every account and for every hero; account 0 is hidden.
ASSUME StoredAssumption ==
    /\ \A a, b \in DOMAIN Stored : Stored[a] \in Nat /\ (Stored[a] = Stored[b] => a = b)
    /\ \A m \in PossibleMatches : \A p \in m.players : {p.account, p.hero} \subseteq DOMAIN Stored
    /\ Accounts \subseteq Nat \ {0}

PlayerScoreboardQuery ==
    [sortBy |-> "matches", descending |-> TRUE, heroes |-> {}, minMatches |-> {20},
     maxMatches |-> {}, info |-> AnyMatch, minWorth |-> {}, maxWorth |-> {}, start |-> 0,
     limit |-> 100, accounts |-> {}]

HeroScoreboardQuery ==
    [sortBy |-> "matches", descending |-> TRUE, minMatches |-> {}, info |-> AnyMatch,
     minWorth |-> {}, maxWorth |-> {}, accounts |-> {}]

SortBy ==
    {"matches", "wins", "losses", "winrate", "max_kills_per_match", "avg_kills_per_match", "kills"}

ASSUME BoardQueriesAssumption ==
    /\ \A q \in PlayerBoardQueries :
          /\ DOMAIN q = DOMAIN PlayerScoreboardQuery
          /\ q.sortBy \in SortBy /\ q.descending \in BOOLEAN /\ {q.start, q.limit} \subseteq Nat
    /\ \A q \in HeroBoardQueries :
          /\ DOMAIN q = DOMAIN HeroScoreboardQuery
          /\ q.sortBy \in SortBy /\ q.descending \in BOOLEAN

\* A statistic is a fraction: kills stands for every column, damage_taken for
\* none but the largest in a match.
GetSelectClause(sortBy, rows) ==
    LET games == Cardinality({r.match : r \in rows})
        wins == Cardinality(WonIn(rows))
    IN  CASE sortBy = "matches" -> <<games, 1>>
          [] sortBy = "wins" -> <<wins, 1>>
          [] sortBy = "losses" -> <<Cardinality(rows) - wins, 1>>
          [] sortBy = "winrate" -> <<wins, games>>
          [] sortBy = "max_kills_per_match" -> <<Max({r.p.kills : r \in rows}), 1>>
          [] sortBy = "avg_kills_per_match" -> <<KillsIn(rows), Cardinality(rows)>>
          [] sortBy = "kills" -> <<KillsIn(rows), 1>>

Below(x, y) == x[1] * y[2] < y[1] * x[2]

Before(x, y, descending) ==
    \/ descending /\ Below(y.value, x.value)
    \/ ~descending /\ Below(x.value, y.value)
    \/ ~Below(y.value, x.value) /\ ~Below(x.value, y.value) /\ Stored[x.of] < Stored[y.of]

\* The entries in the order of their values, those of the same value as they are
\* come upon: each where as many are before it.
Ordered(entries, descending) ==
    [k \in 1 .. Cardinality(entries) |->
        CHOOSE e \in entries : Cardinality({x \in entries : Before(x, e, descending)}) = k - 1]

Entry(q, of, rows) ==
    [of |-> of, value |-> GetSelectClause(q.sortBy, rows), matches |-> Cardinality({r.match : r \in rows})]

PlayerMatches(q) == Chosen(q.info)

\* Players who hide their account have none.
PlayerRows(q) ==
    {r \in RowsOf(PlayerMatches(q)) :
        /\ q.heroes # {} => r.p.hero \in q.heroes
        /\ Within(q.minWorth, q.maxWorth, r.p.worth)
        /\ r.p.account > 0
        /\ q.accounts # {} => r.p.account \in Shown(q.accounts)}

Players(q) ==
    LET entry(a) == Entry(q, a, {r \in PlayerRows(q) : r.p.account = a})
    IN  Ordered({e \in {entry(a) : a \in {r.p.account : r \in PlayerRows(q)}} :
                    Within(q.minMatches, q.maxMatches, e.matches)}, q.descending)

\* Mutant: the offset counts pages.
PageOffset(q) == q.start * q.limit
Offset(q) == q.start + 1

PlayerScoreboard(q) == SubSeq(Players(q), Offset(q) + 1, Min({Offset(q) + q.limit, Len(Players(q))}))

player_scoreboard(q) == IF Refused(q.accounts) THEN [refused |-> TRUE] ELSE PlayerScoreboard(q)

HeroBoardMatches(q) == Chosen(q.info)

HeroWorth(q, v) == Within(q.minWorth, q.maxWorth, v)

HeroRows(q) ==
    {r \in RowsOf(HeroBoardMatches(q)) :
        /\ q.accounts # {} => r.p.account \in Shown(q.accounts)
        /\ HeroWorth(q, r.p.worth)}

HeroScoreboard(q) ==
    LET entry(h) == Entry(q, h, {r \in HeroRows(q) : r.p.hero = h})
    IN  Ordered({e \in {entry(h) : h \in {r.p.hero : r \in HeroRows(q)}} :
                    AtLeast(q.minMatches, e.matches)}, q.descending)

hero_scoreboard(q) == IF Refused(q.accounts) THEN [refused |-> TRUE] ELSE HeroScoreboard(q)

----------------------------------------------------------------------------
\* Properties

\* Reading on where a page ended gives what one longer page gives: no player is
\* shown twice or left out between two pages (player_scoreboard.rs:181).
PagesTile ==
    \A q \in PlayerBoardQueries : ~Refused(q.accounts) =>
        player_scoreboard(q) \o player_scoreboard([q EXCEPT !.start = @ + q.limit])
            = player_scoreboard([q EXCEPT !.limit = 2 * @])

\* What the scoreboard of heroes says of a hero played by one account is what
\* the scoreboard of players says of that account on the hero
\* (player_scoreboard.rs:137-153, hero_scoreboard.rs:119-140).
BoardsAgree ==
    \A q \in HeroBoardQueries : q.accounts = {} /\ q.minMatches = {} =>
        \A a \in Accounts \ protected :
            LET board == hero_scoreboard([q EXCEPT !.accounts = {a}])
                asPlayer(h) ==
                    [PlayerScoreboardQuery EXCEPT
                        !.sortBy = q.sortBy, !.heroes = {h}, !.accounts = {a}, !.info = q.info,
                        !.minWorth = q.minWorth, !.maxWorth = q.maxWorth, !.minMatches = {}]
            IN  \A i \in DOMAIN board :
                    Players(asPlayer(board[i].of)) = <<[board[i] EXCEPT !.of = a]>>

\* Turning the order round turns the values round, and lets nobody in or out.
OrderTurnsRound ==
    \A q \in HeroBoardQueries : ~Refused(q.accounts) =>
        LET down == hero_scoreboard([q EXCEPT !.descending = TRUE])
            up == Reverse(hero_scoreboard([q EXCEPT !.descending = FALSE]))
        IN  /\ Len(up) = Len(down)
            /\ \A i \in DOMAIN down : up[i].value[1] * down[i].value[2] = down[i].value[1] * up[i].value[2]
=============================================================================

---------------------------- MODULE PlayerTables ----------------------------
(***************************************************************************)
(* What the endpoints about players have in common: the matches are looked *)
(* up in the stored histories of players, the details in match_player and  *)
(* match_info; either may lack what the other has.                         *)
(***************************************************************************)
EXTENDS MatchTables

CONSTANTS
    HistoryRows,        \* bound: the rows of histories that may be stored
    MaxAccounts         \* accounts one call may name, 1000

VARIABLE
    stored              \* the rows of player_match_history

ASSUME MaxAccountsAssumption == MaxAccounts \in Nat \ {0}

\* The rows of one account are about different matches, whose details, where they
\* are known, say the same as the row; won is whether the team is the one that won.
ASSUME HistoryAssumption ==
    /\ \A m, n \in PossibleMatches : m.id = n.id => m = n
    /\ \A m \in PossibleMatches : \A p1, p2 \in m.players : p1.account = p2.account => p1 = p2
    /\ \A r \in HistoryRows : r.match \in PossibleMatches /\ r.p.won \in BOOLEAN
    /\ \A r \in HistoryRows : \A p \in r.match.players : p.account = r.p.account => p = r.p
    /\ \A r, s \in HistoryRows : r.match = s.match =>
         /\ r.p.account = s.p.account => r = s
         /\ r.p.team = s.p.team => r.p.won = s.p.won
         /\ {r.p.team, s.p.team} = {0, 1} => r.p.won # s.p.won

playerTables == <<matches, protected, stored>>

\* insert_match_history_to_ch, one player's entry for a match.
StoreHistory(r) ==
    /\ stored' = stored \cup {r}
    /\ UNCHANGED tables

PlayerInit == TablesInit /\ stored = {}

PlayerNext ==
    \/ TablesNext /\ UNCHANGED stored
    \/ \E r \in HistoryRows \ stored : StoreHistory(r)

PlayerSpec == PlayerInit /\ [][PlayerNext]_playerTables

----------------------------------------------------------------------------
\* What the read-only client sees of the histories.
Histories == {r \in stored : r.p.account \notin protected}

\* Who a call is turned down for.
Answer(account, stats) == IF account \in protected THEN [refused |-> TRUE] ELSE stats

Participants == UNION {{p.account : p \in m.players} : m \in PossibleMatches}

Known(account) == account \notin protected
=============================================================================

---------------------------- MODULE MatchTables ----------------------------
(***************************************************************************)
(* What the analytics endpoints have in common: the tables match_info and  *)
(* match_player, which grow as matches are ingested, the accounts that     *)
(* have asked to be left out, and the filters every endpoint puts on the   *)
(* matches it looks at.                                                    *)
(*                                                                         *)
(* A parameter that may be absent is a set of at most one value.  The many *)
(* columns that are only summed up are represented by one, kills.  The     *)
(* nested column `items` is there three times: the set of its item_ids,    *)
(* what was bought in order, and the purchases with their times.           *)
(***************************************************************************)
EXTENDS Integers, FiniteSets, FiniteSetsExt

CONSTANTS
    PossibleMatches,    \* the matches that may be ingested, with their players
    Accounts,           \* accounts that may ask for data protection
    Hour,               \* an hour, in the unit of start_time
    Minute,             \* a minute, in the unit of times in a match
    Upgrades            \* the items of type upgrade

VARIABLES
    matches,            \* the matches ingested so far
    protected           \* accounts under data protection

tables == <<matches, protected>>

\* What the columns of a match and of its players hold.
ASSUME MatchAssumption ==
    \A m \in PossibleMatches :
        /\ {m.id, m.start, m.duration} \subseteq Nat
        /\ IsFiniteSet(m.players)
        /\ \A p \in m.players : {p.kills, p.worth} \subseteq Nat

ASSUME LengthsAssumption == {Hour, Minute} \subseteq Nat \ {0}

TablesInit == matches = {} /\ protected = {}

Store(m) ==
    /\ matches' = matches \cup {m}
    /\ UNCHANGED protected

Protect(a) ==
    /\ protected' = protected \cup {a}
    /\ UNCHANGED matches

TablesNext ==
    \/ \E m \in PossibleMatches \ matches : Store(m)
    \/ \E a \in Accounts \ protected : Protect(a)

TablesSpec == TablesInit /\ [][TablesNext]_tables

----------------------------------------------------------------------------
\* The rows of match_player the read-only client sees: the row policy hides those of protected accounts.
PlayersOf(m) == {p \in m.players : p.account \notin protected}

\* Each row with its match.
RowsOf(ms) == UNION {{[match |-> m, p |-> p] : p \in PlayersOf(m)} : m \in ms}

AtLeast(bound, v) == \A b \in bound : v >= b
AtMost(bound, v) == \A b \in bound : v <= b
Within(min, max, v) == AtLeast(min, v) /\ AtMost(max, v)

KillsIn(rows) == SumFunction([r \in rows |-> r.p.kills])
WonIn(rows) == {r \in rows : r.p.won}

\* Parameters of the filter on matches.
AnyMatch ==
    [minTime |-> {}, maxTime |-> {}, minId |-> {}, maxId |-> {}, minDuration |-> {},
     maxDuration |-> {}, minBadge |-> {}, maxBadge |-> {}]

InfoFilter == [DOMAIN AnyMatch -> SUBSET Nat]

\* Badges at the ends of the scale are no filter at all.
InfoFilters(f, m) ==
    /\ m.scored
    /\ Within(f.minTime, f.maxTime, m.start)
    /\ Within(f.minId, f.maxId, m.id)
    /\ \A b \in f.minBadge : b > 11 => m.badge0 >= b /\ m.badge1 >= b
    /\ \A b \in f.maxBadge : b < 116 => m.badge0 <= b /\ m.badge1 <= b
    /\ Within(f.minDuration, f.maxDuration, m.duration)

\* Whole hours, so that queries a moment apart share a cached answer.
Rounded(f) ==
    [f EXCEPT !.minTime = {t - (t % Hour) : t \in @}, !.maxTime = {t + Hour - (t % Hour) : t \in @}]

Chosen(f) == {m \in matches : InfoFilters(Rounded(f), m)}

\* Mutant: nobody is taken out.
ShowAll(accounts) == accounts

\* The accounts a query names (account_ids, or the one of the deprecated
\* account_id), once those under protection are taken out.
Shown(accounts) == accounts \ protected

\* A query for protected accounts only is turned down.
Refused(accounts) == accounts # {} /\ Shown(accounts) = {}

\* Rounding may add matches up to an hour from the range asked for, and it never leaves one out (hero_stats.rs:364).
WidenedAtMostAnHour(f) ==
    \A m \in matches :
        /\ InfoFilters(f, m) => m \in Chosen(f)
        /\ m \in Chosen(f) => InfoFilters([f EXCEPT !.minTime = {t - Hour + 1 : t \in @},
                                                    !.maxTime = {t + Hour : t \in @}], m)
=============================================================================

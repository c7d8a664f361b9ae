---------------------------- MODULE MCMatchSalts ----------------------------
(***************************************************************************)
(* The salts of a match and its metadata file, for TLC.  As the two share  *)
(* no state, a behaviour is about the one or the other.                    *)
(***************************************************************************)
EXTENDS MatchFiles, TLC

Meta    == [match |-> 1, meta |-> "set",  replay |-> "none", cluster |-> "set"]
Replay  == [match |-> 1, meta |-> "none", replay |-> "set",  cluster |-> "set"]
ZeroMeta == [match |-> 1, meta |-> "zero", replay |-> "none", cluster |-> "set"]

SomeEntries == {Meta, ZeroMeta, Replay}

\* Steam's group may be 0, and the metadata salt may be missing.
SteamSays ==
    {[meta |-> "set",  replay |-> "set",  cluster |-> "set"],
     [meta |-> "set",  replay |-> "none", cluster |-> "zero"],
     [meta |-> "none", replay |-> "set",  cluster |-> "set"]}

SomeFiles == {<<1, "meta">>, <<2, "meta">>, <<2, "hltv">>}
SomeForms == [f \in SomeFiles |->
                IF f[1] = 1 THEN "bare" ELSE IF f[2] = "hltv" THEN "damaged" ELSE "plain"]

Symmetry == Permutations(Fetches) \cup Permutations(Ingests)

----------------------------------------------------------------------------
\* Which of the two this behaviour is about.
VARIABLE about

MCInit ==
    /\ Init /\ File!Init
    /\ \/ about = "salts"
       \/ about = "file" /\ \A f \in Fetches : fmatch[f] = 1
MCNext ==
    \/ about = "salts" /\ Next /\ UNCHANGED <<fileVars, about>>
    \/ about = "file" /\ File!Next /\ UNCHANGED <<vars, about>>

MCSpec == MCInit /\ [][MCNext]_<<vars, fileVars, about>>
=============================================================================

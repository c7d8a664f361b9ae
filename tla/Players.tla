------------------------------ MODULE Players ------------------------------
(***************************************************************************)
(* The endpoints about players on one set of tables, and those about       *)
(* builds: the properties of each group of endpoints, one conjunction for a *)
(* group; every conjunct is stated and explained in the module it is of.   *)
(***************************************************************************)
EXTENDS PlayerStats, PlayerMMR, Builds

\* Players: two players count the matches they shared alike, whoever is in the
\* party is a mate, the sizes of parties add up to all matches, and the answers
\* about heroes agree with each other (PlayerStats).
PlayersFit == PlayersSeeTheSame /\ PartyMatesAreMates /\ PartySizesAddUp /\ HeroAnswersFit

\* Ranks: a rank comes from the badges of its window, the batch answers with the
\* last rank of the history, and the distributions count what the batch answers
\* (PlayerMMR).
RanksFit == RankWithinWindow /\ BatchEndsHistory /\ DistributionCountsBatch /\ HeroDistributionKnown

\* Builds: ascending order is descending order turned round, with only_latest
\* each build found is there once and none is missing, and the item stats are
\* those of the builds that the search finds (Builds).
BuildsFit == BuildsTurnRound /\ OneVersionOfEach /\ ItemsOfSearch
=============================================================================

----------------------------- MODULE MatchFiles -----------------------------
(***************************************************************************)
(* The salts of a match (MatchSalts) beside the requests for its metadata  *)
(* file (MatchMetadata).  A request for the file asks for salts and awaits *)
(* an answer or an error, whatever the state of the salts: the two share   *)
(* the matches and no state.                                               *)
(***************************************************************************)
EXTENDS MatchSalts

CONSTANTS
    Connections,    \* the calls of MatchMetadata
    Files, Form     \* the files that may exist and their encodings

VARIABLES cache, s3, stored, aged, cell, pc, raw, match, reads, reply, held, erred, covered

fileVars == <<cache, s3, stored, aged, cell, pc, raw, match, reads, reply, held, erred, covered>>

File == INSTANCE MatchMetadata WITH Calls <- Connections, known <- stored

ASSUME FilesAssumption == File!ConstantsOK

\* The states of the requests for salts and for a file (MatchSalts, MatchMetadata).
TypesOK == TypeOK /\ File!TypeOK

\* Valve is not asked for a file that is kept somewhere, and a file that is kept
\* somewhere is answered with, whichever way it is encoded (MatchMetadata).
FilesServedInOrder == File!ValveAskedLast /\ File!KeptFilesServed
=============================================================================

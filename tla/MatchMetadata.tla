---------------------------- MODULE MatchMetadata ----------------------------
(***************************************************************************)
(* Where the metadata file of a match is found                             *)
(* (routes/v1/matches/metadata.rs): in the cache, then on S3, then at      *)
(* Valve.  The cache is only asked for matches from a minimum id on, which *)
(* is queried once and kept as long as the process lives.                  *)
(*                                                                         *)
(* Files are moved by a worker outside the repository: into the cache, to  *)
(* S3, and out of the cache when S3 has them.                              *)
(***************************************************************************)
EXTENDS Naturals, FiniteSetsExt

CONSTANTS
    Calls,      \* connections that send requests to the two endpoints
    Matches,    \* match ids, in the order the matches were played
    Files,      \* the files that may exist: <<match id, kind>>
    Form        \* file -> how its contents are encoded

Kinds == {"meta", "hltv"}
Forms == {"plain", "patched", "bare", "damaged"}

\* Assumed of the constants where the module is instantiated.
ConstantsOK ==
    /\ Matches \subseteq Nat \ {0}
    /\ Files \subseteq Matches \X Kinds
    /\ Form \in [Files -> Forms]

VARIABLES
    cache, s3,  \* the files each store holds
    known,      \* matches in match_info
    aged,       \* matches that began more than two weeks ago
    cell,       \* MIN_MATCH_ID_IN_CACHE: {} until it is set, then {id}
    pc,         \* call -> where it stands
    raw,        \* call -> is it metadata_raw
    match,      \* call -> its match
    reads,      \* call -> kind -> what its read has given
    reply       \* call -> what it was answered

\* History, never read by a guard.
VARIABLES
    held,       \* call -> kinds some store held at all times since it began
    erred,      \* call -> has a read failed though the file was there
    covered     \* matches in match_info and recent when the minimum was queried

vars == <<cache, s3, known, aged, cell, pc, raw, match, reads, reply,
          held, erred, covered>>

Reading == {"cache", "s3"}
PcState == Reading \cup {"idle", "min", "limits", "salts", "valve", "done"}
Replies == {"none", "file", "contents", "too_many", "error"}
Unread == [k \in Kinds |-> "pending"]
Recent == known \ aged

Init ==
    /\ cache = {} /\ s3 = {} /\ known = {} /\ aged = {} /\ cell = {}
    /\ pc = [c \in Calls |-> "idle"]
    /\ raw = [c \in Calls |-> FALSE]
    /\ match = [c \in Calls |-> Min(Matches)]
    /\ reads = [c \in Calls |-> Unread]
    /\ reply = [c \in Calls |-> "none"]
    /\ held = [c \in Calls |-> {}]
    /\ erred = [c \in Calls |-> FALSE]
    /\ covered = {}

env == <<cache, s3, known, aged>>
file(c, k) == <<match[c], k>>

\* The next request on a connection follows the answer to the one before.
Begin(c) ==
    /\ pc[c] \in {"idle", "done"}
    /\ pc' = [pc EXCEPT ![c] = "min"]
    /\ raw' \in {[raw EXCEPT ![c] = r] : r \in BOOLEAN}
    /\ match' \in {[match EXCEPT ![c] = m] : m \in Matches}
    /\ reads' = [reads EXCEPT ![c] = Unread]
    /\ reply' = [reply EXCEPT ![c] = "none"]
    /\ held' = [held EXCEPT ![c] = {k \in Kinds : <<match'[c], k>> \in cache \cup s3}]
    /\ erred' = [erred EXCEPT ![c] = FALSE]
    /\ UNCHANGED <<env, cell, covered>>

----------------------------------------------------------------------------
\* min_cache_match_id: a failed query, like an empty table, gives 0, for good.

\* The ids the query may give.
MinId == {0} \cup (IF Recent = {} THEN {} ELSE {Min(Recent)})

QueryMin(c) ==
    /\ pc[c] = "min" /\ cell = {}
    /\ \E id \in MinId : cell' = {id}
    /\ covered' = Recent
    /\ UNCHANGED <<env, pc, raw, match, reads, reply, held, erred>>

\* Mutant: S3 is asked before the cache is.
S3First(c) ==
    /\ pc[c] = "min" /\ cell # {}
    /\ pc' = [pc EXCEPT ![c] = "limits"]
    /\ UNCHANGED <<env, cell, raw, match, reads, reply, held, erred, covered>>

\* metadata_raw compares for itself and passes no cache on.
CompareMin(c) ==
    /\ pc[c] = "min" /\ cell # {}
    /\ \E id \in cell : pc' = [pc EXCEPT ![c] = IF match[c] >= id THEN "cache" ELSE "limits"]
    /\ UNCHANGED <<env, cell, raw, match, reads, reply, held, erred, covered>>

----------------------------------------------------------------------------
\* join(fetch_from_s3(..), fetch_from_s3(..)): both reads are under way at once.
Store(c) == IF pc[c] = "cache" THEN cache ELSE s3

Read(c, k) ==
    /\ pc[c] \in Reading /\ reads[c][k] = "pending"
    /\ \E ok \in {file(c, k) \in Store(c), FALSE} :
         /\ reads' = [reads EXCEPT ![c][k] = IF ok THEN "ok" ELSE "failed"]
         /\ erred' = [erred EXCEPT ![c] = @ \/ (~ok /\ file(c, k) \in Store(c))]
    /\ UNCHANGED <<env, cell, pc, raw, match, reply, held, covered>>

\* parse_match_metadata_raw: contents as they are, patched, or patched with
\* nothing around them; anything else is an error.
Parse(f) == IF Form[f] \in {"plain", "patched", "bare"} THEN "contents" ELSE "error"
Answer(c, f) == reply' = [reply EXCEPT ![c] = IF raw[c] THEN "file" ELSE Parse(f)]

Found(c) ==
    /\ pc[c] \in Reading
    /\ \A k \in Kinds : reads[c][k] # "pending"
    /\ \E k \in Kinds :
         /\ reads[c][k] = "ok"
         /\ k = "hltv" => reads[c]["meta"] = "failed"
         /\ Answer(c, file(c, k))
    /\ pc' = [pc EXCEPT ![c] = "done"]
    /\ UNCHANGED <<env, cell, raw, match, reads, held, erred, covered>>

NotFound(c) ==
    /\ pc[c] \in Reading
    /\ \A k \in Kinds : reads[c][k] = "failed"
    /\ pc' = [pc EXCEPT ![c] = IF @ = "cache" THEN "limits" ELSE "salts"]
    /\ reads' = [reads EXCEPT ![c] = Unread]
    /\ UNCHANGED <<env, cell, raw, match, reply, held, erred, covered>>

Limits(c) ==
    /\ pc[c] = "limits"
    /\ \/ pc' = [pc EXCEPT ![c] = "s3"] /\ UNCHANGED reply
       \/ pc' = [pc EXCEPT ![c] = "done"] /\ reply' = [reply EXCEPT ![c] = "too_many"]
    /\ UNCHANGED <<env, cell, raw, match, reads, held, erred, covered>>

\* fetch_match_salts (see MatchSalts) gives salts or an error.
Salts(c) ==
    /\ pc[c] = "salts"
    /\ \/ pc' = [pc EXCEPT ![c] = "valve"] /\ UNCHANGED reply
       \/ pc' = [pc EXCEPT ![c] = "done"] /\ reply' = [reply EXCEPT ![c] = "error"]
    /\ UNCHANGED <<env, cell, raw, match, reads, held, erred, covered>>

\* fetch_metadata_file: Valve's replay server has every file it ever had.
Valve(c) ==
    /\ pc[c] = "valve"
    /\ pc' = [pc EXCEPT ![c] = "done"]
    /\ \/ file(c, "meta") \in Files /\ Answer(c, file(c, "meta"))
       \/ reply' = [reply EXCEPT ![c] = "error"]
    /\ UNCHANGED <<env, cell, raw, match, reads, held, erred, covered>>

----------------------------------------------------------------------------
\* The worker, and time.
calls == <<cell, pc, raw, match, reads, reply, erred, covered>>
StillHeld == held' = [c \in Calls |-> {k \in held[c] : file(c, k) \in cache' \cup s3'}]

Upload(f) == f \notin cache \cup s3 /\ cache' = cache \cup {f} /\ UNCHANGED s3
Copy(f)   == f \in cache \ s3 /\ s3' = s3 \cup {f} /\ UNCHANGED cache
Evict(f)  == f \in cache \cap s3 /\ cache' = cache \ {f} /\ UNCHANGED s3
Move(f) ==
    /\ Upload(f) \/ Copy(f) \/ Evict(f)
    /\ StillHeld
    /\ UNCHANGED <<calls, known, aged>>

Ingested(m) == m \notin known /\ known' = known \cup {m} /\ UNCHANGED aged
Ages(m) == m \notin aged /\ (\A n \in Matches : n < m => n \in aged)
             /\ aged' = aged \cup {m} /\ UNCHANGED known
Moves(m) == (Ingested(m) \/ Ages(m)) /\ UNCHANGED <<calls, cache, s3, held>>

Serve(c) ==
    \/ Begin(c) \/ QueryMin(c) \/ CompareMin(c) \/ Found(c) \/ NotFound(c)
    \/ Limits(c) \/ Salts(c) \/ Valve(c) \/ \E k \in Kinds : Read(c, k)

Next ==
    \/ \E c \in Calls : Serve(c)
    \/ \E f \in Files : Move(f)
    \/ \E m \in Matches : Moves(m)

Spec == Init /\ [][Next]_vars

----------------------------------------------------------------------------
\* Properties

TypeOK ==
    /\ cache \cup s3 \subseteq Files /\ known \cup aged \cup covered \subseteq Matches
    /\ cell \subseteq Matches \cup {0}
    /\ pc \in [Calls -> PcState]
    /\ reads \in [Calls -> [Kinds -> {"pending", "ok", "failed"}]]
    /\ reply \in [Calls -> Replies]
    /\ \A c \in Calls : reply[c] # "none" <=> pc[c] = "done"

\* While a file of the match is kept somewhere, moved from the cache to S3 under
\* the eyes of the call or not, Valve is not asked for it and the scarce quota
\* of salts is not touched; except after a read has failed, and for a match
\* that match_info got after the minimum was frozen (metadata.rs:34-127).
ValveAskedLast ==
    \A c \in Calls :
        pc[c] \in {"salts", "valve"} /\ held[c] # {} /\ match[c] \in covered => erred[c]

\* A file that is kept somewhere while a call is let through is answered with,
\* in whichever of three ways it is encoded: an error is owed to a failed read,
\* to a file nobody can decode, or to the frozen minimum (metadata.rs:66-158).
KeptFilesServed ==
    \A c \in Calls :
        pc[c] = "done" /\ reply[c] = "error" /\ held[c] # {} /\ ~erred[c]
          => \/ \E k \in Kinds : reads[c][k] = "ok" /\ Form[file(c, k)] = "damaged"
             \/ match[c] \notin covered
=============================================================================

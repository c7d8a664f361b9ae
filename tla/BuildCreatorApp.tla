-------------------------- MODULE BuildCreatorApp --------------------------
(***************************************************************************)
(* The build creator's page (docs/js/app.js): the data of the selected hero *)
(* and rank that loadHeroItems, loadSynergies and loadAbilities fetch.      *)
(* JavaScript runs a handler without interruption up to its next await; a  *)
(* step here is such a stretch of code.  Nothing cancels a call that is     *)
(* under way when the user selects something else.                         *)
(*                                                                         *)
(* Data fetched for a hero and a rank filter is the pair <<hero, rank>>.    *)
(***************************************************************************)
EXTENDS Naturals

CONSTANTS
    Heroes,
    Ranks,          \* the rank filters, `All` among them
    All,            \* no rank filter
    None,           \* null, an empty list or an empty map
    MaxRequests     \* bound: a user acts only below so many requests

ASSUME PageConstantsAssumption ==
    /\ All \in Ranks
    /\ None \notin Heroes
    /\ None \notin Heroes \X Ranks
    /\ MaxRequests \in Nat

VARIABLES
    selectedHero,       \* state.selectedHeroId
    rank,               \* state.selectedRankMin and selectedRankMax
    itemData,           \* state.itemData
    buildPath,          \* state.buildPathData, by what it was built from
    synergyData,        \* state.synergyData
    synergyMap,         \* state.synergyMap, by what it was built from
    synergiesLoaded,
    abilitiesData,      \* state.abilitiesData: the hero it is about
    abilitiesLoaded,
    isLoading,          \* the loading indicator
    viewMode,
    calls,              \* the calls under way, each with the request it awaits
    sent,               \* number of requests sent so far
    inOrder             \* whether one endpoint answers in the order it was asked

\* History: the request number the latest load started with, and its outcome.
VARIABLES latest, outcome

loaded == <<itemData, synergyData>>
synergies == <<synergyMap, synergiesLoaded>>
abilities == <<abilitiesData, abilitiesLoaded>>
history == <<latest, outcome>>
pageVars == <<selectedHero, rank, loaded, buildPath, synergies, abilities, isLoading,
          viewMode, calls, sent, inOrder, history>>

Datum == (Heroes \X Ranks) \cup {None}
View == {"build", "tier", "phase", "abilities", "synergies"}

\* What a call waits for: loadHeroItems the items' metadata and then the
\* statistics, loadSynergies the pairs, loadAbilities the sequences.
Await == {"metadata", "stats", "pairs", "sequences"}
Call == [await : Await, hero : Heroes, rank : Ranks, no : Nat, load : Nat]
Loading == {c \in calls : c.await \in {"metadata", "stats"}}

PageInit ==
    /\ selectedHero = None /\ rank = All
    /\ itemData = None /\ buildPath = None
    /\ synergyData = None /\ synergyMap = None /\ synergiesLoaded = FALSE
    /\ abilitiesData = None /\ abilitiesLoaded = FALSE
    /\ isLoading = FALSE
    /\ viewMode = "build"
    /\ calls = {} /\ sent = 0
    /\ inOrder \in BOOLEAN
    /\ latest = 0 /\ outcome = "none"

\* Whether the request call c awaits may be answered next.
Answerable(c) ==
    /\ c \in calls
    /\ inOrder => \A d \in calls : d.await = c.await => c.no <= d.no

NewCall(await, h, load) ==
    [await |-> await, hero |-> h, rank |-> rank, no |-> sent + 1, load |-> load]

----------------------------------------------------------------------------
\* loadHeroItems

\* Up to its first await.
StartLoad(h) ==
    /\ isLoading' = TRUE
    /\ selectedHero' = h
    /\ buildPath' = None
    /\ abilitiesData' = None /\ abilitiesLoaded' = FALSE
    /\ synergiesLoaded' = FALSE /\ synergyMap' = None
    /\ calls' = calls \cup {NewCall("metadata", h, sent + 1)}
    /\ sent' = sent + 1
    /\ latest' = sent + 1 /\ outcome' = "running"

SelectHero(h) ==
    /\ sent < MaxRequests
    /\ StartLoad(h)
    /\ UNCHANGED <<rank, loaded, viewMode>>

\* Mutant: the new filter only applies to what is loaded later.
SelectRankLazily(r) ==
    /\ sent < MaxRequests
    /\ rank' = r
    /\ synergiesLoaded' = FALSE /\ synergyMap' = None
    /\ UNCHANGED <<selectedHero, buildPath, abilities, isLoading, calls, sent, history,
                   loaded, viewMode>>

SelectRank(r) ==
    /\ sent < MaxRequests
    /\ rank' = r
    /\ \/ selectedHero # None /\ StartLoad(selectedHero)
       \/ /\ selectedHero = None
          /\ synergiesLoaded' = FALSE /\ synergyMap' = None
          /\ UNCHANGED <<selectedHero, buildPath, abilities, isLoading, calls, sent, history>>
    /\ UNCHANGED <<loaded, viewMode>>

\* The metadata is here: the statistics are asked for, under the rank selected now.
MetadataArrives(c) ==
    /\ Answerable(c)
    /\ c.await = "metadata"
    /\ calls' = (calls \ {c}) \cup {NewCall("stats", c.hero, c.load)}
    /\ sent' = sent + 1
    /\ UNCHANGED <<selectedHero, rank, loaded, buildPath, synergies, abilities, isLoading,
                   viewMode, history>>

\* applyViewMode, called from the end of a load or by the user, fetches what
\* the open view lacks.  `pending` are the other calls; `wanted` says what for.
FetchFor(wanted, pending) ==
    IF selectedHero # None /\ wanted
    THEN /\ calls' = pending \cup {NewCall(IF viewMode' = "abilities" THEN "sequences" ELSE "pairs",
                                           selectedHero, 0)}
         /\ sent' = sent + 1
    ELSE calls' = pending /\ UNCHANGED sent

EndOf(c, result) == outcome' = IF c.load = latest THEN result ELSE outcome

\* Mutant: the chains are built before the new statistics are stored.
StatsArriveChainsFirst(c) ==
    /\ Answerable(c)
    /\ c.await = "stats"
    /\ itemData' = <<c.hero, c.rank>>
    /\ synergyData' \in {<<c.hero, c.rank>>, None}
    /\ synergyMap' = synergyData' /\ synergiesLoaded' = TRUE
    /\ buildPath' = itemData
    /\ isLoading' = FALSE
    /\ EndOf(c, "ok")
    /\ UNCHANGED <<selectedHero, rank, abilities, viewMode, latest>>
    /\ FetchFor(viewMode = "abilities" /\ ~abilitiesLoaded, calls \ {c})

\* The statistics are here, with the synergies or, when those failed, with none;
\* chains are built and everything is rendered, ending in applyViewMode.
StatsArrive(c) ==
    /\ Answerable(c)
    /\ c.await = "stats"
    /\ itemData' = <<c.hero, c.rank>>
    /\ synergyData' \in {<<c.hero, c.rank>>, None}
    /\ synergyMap' = synergyData' /\ synergiesLoaded' = TRUE
    /\ buildPath' = itemData'
    /\ isLoading' = FALSE
    /\ EndOf(c, "ok")
    /\ UNCHANGED <<selectedHero, rank, abilities, viewMode, latest>>
    /\ FetchFor(viewMode = "abilities" /\ ~abilitiesLoaded, calls \ {c})

\* Mutant: the catch block leaves the indicator on.
LoadFailsLoading(c) ==
    /\ Answerable(c)
    /\ c \in Loading
    /\ EndOf(c, "failed")
    /\ calls' = calls \ {c}
    /\ UNCHANGED <<selectedHero, rank, loaded, buildPath, synergies, abilities, isLoading,
                   viewMode, sent, latest>>

LoadFails(c) ==
    /\ Answerable(c)
    /\ c \in Loading
    /\ isLoading' = FALSE
    /\ EndOf(c, "failed")
    /\ calls' = calls \ {c}
    /\ UNCHANGED <<selectedHero, rank, loaded, buildPath, synergies, abilities,
                   viewMode, sent, latest>>

----------------------------------------------------------------------------
\* setViewMode, loadSynergies, loadAbilities

\* Opening a view; setSortBy and selectNetworth amount to opening the current
\* one again, once there are items.  loadSynergies takes the pairs it finds in
\* state.synergyData, whoever put them there.
OpenView(v) ==
    /\ sent < MaxRequests
    /\ viewMode' = v
    /\ LET lacking == v = "synergies" /\ ~synergiesLoaded /\ selectedHero # None
       IN  /\ synergiesLoaded' = (synergiesLoaded \/ (lacking /\ synergyData # None))
           /\ FetchFor(\/ lacking /\ synergyData = None
                       \/ v = "abilities" /\ ~abilitiesLoaded, calls)
    /\ UNCHANGED <<selectedHero, rank, loaded, buildPath, synergyMap, abilities, isLoading, history>>

PairsArrive(c) ==
    /\ Answerable(c)
    /\ c.await = "pairs"
    /\ synergyData' \in {<<c.hero, c.rank>>, None}
    /\ synergyMap' = synergyData' /\ synergiesLoaded' = TRUE
    /\ calls' = calls \ {c}
    /\ UNCHANGED <<selectedHero, rank, itemData, buildPath, abilities, isLoading, viewMode,
                   sent, history>>

SequencesArrive(c) ==
    /\ Answerable(c)
    /\ c.await = "sequences"
    /\ abilitiesData' = c.hero /\ abilitiesLoaded' = TRUE
    /\ calls' = calls \ {c}
    /\ UNCHANGED <<selectedHero, rank, loaded, buildPath, synergies, isLoading, viewMode,
                   sent, history>>

\* The panel says so; nothing is remembered.
PanelFails(c) ==
    /\ Answerable(c)
    /\ c.await \in {"pairs", "sequences"}
    /\ calls' = calls \ {c}
    /\ UNCHANGED <<selectedHero, rank, loaded, buildPath, synergies, abilities, isLoading,
                   viewMode, sent, history>>

User ==
    \/ \E h \in Heroes : SelectHero(h)
    \/ \E r \in Ranks : SelectRank(r)
    \/ \E v \in View : OpenView(v)

Network(c) ==
    \/ MetadataArrives(c) \/ StatsArrive(c) \/ LoadFails(c)
    \/ PairsArrive(c) \/ SequencesArrive(c) \/ PanelFails(c)

PageNext ==
    /\ User \/ \E c \in calls : Network(c)
    /\ UNCHANGED inOrder

PageSpec == PageInit /\ [][PageNext]_pageVars

----------------------------------------------------------------------------
\* Properties

Selection == <<selectedHero, rank>>

PageTypeOK ==
    /\ selectedHero \in Heroes \cup {None}
    /\ rank \in Ranks
    /\ itemData \in Datum /\ buildPath \in Datum
    /\ synergyData \in Datum /\ synergyMap \in Datum
    /\ abilitiesData \in Heroes \cup {None}
    /\ synergiesLoaded \in BOOLEAN /\ abilitiesLoaded \in BOOLEAN /\ isLoading \in BOOLEAN
    /\ viewMode \in View
    /\ calls \subseteq Call
    /\ sent \in Nat
    /\ inOrder \in BOOLEAN
    /\ latest \in Nat
    /\ outcome \in {"none", "running", "ok", "failed"}

\* The loading indicator is never left on: whenever it shows, a load is still
\* under way, however loads overlap and fail (app.js showLoading, hideLoading).
SpinnerStops == isLoading => Loading # {}

\* What is on the page fits together whatever overlaps: the upgrade chains are
\* those of the item statistics shown and the synergy badges those of the raw
\* pairs kept, or there are none (app.js:391-437, 439-486).
ViewsAgree ==
    /\ buildPath # None => buildPath = itemData
    /\ synergyMap # None => synergyMap = synergyData

\* If each endpoint answers in the order it was asked, then once no load is under
\* way and the latest has succeeded the items are those of the hero and the rank
\* selected, though the rank is read after an await and each load overwrites
\* what it finds (app.js:391-437).
LatestLoadShown ==
    inOrder /\ Loading = {} /\ outcome = "ok" => itemData = Selection
============================================================================

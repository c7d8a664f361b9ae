\* Two calls, every failure, two matches a page, and a Steam whose cursor may follow
\* the pages, stand still, jump or end anywhere.
SPECIFICATION FairSpec
CONSTANTS
    Requests = {q1, q2}
    Matches = {1, 2, 3, 4}
    Unparsable = {2}
    Kinds = {"plain", "force", "stored", "both"}
    PageSize = 2
    MaxRefetch = 1
    CacheTtl = 1
    HonestCursor = FALSE
    ServicesFail = TRUE
    MaxTime = 2
INVARIANTS
    
    
    RefetchComplete
PROPERTIES
    EveryCallEnds
CHECK_DEADLOCK FALSE

\* Three callers of a function that runs under its key's lock and whose
\* failures are cached too.
SPECIFICATION FairSpec
CONSTANTS
    Callers = {c1, c2, c3}
    Keys = {k1}
    Mode = "by_key"
    OkOnly = FALSE
    Ttl = 2
    MaxRun = 1
    MaxVersion = 2
    MaxTime = 5
INVARIANTS
    OneRunPerKey
    NegativeForgotten
PROPERTIES
    KeepsContract
    
CHECK_DEADLOCK FALSE

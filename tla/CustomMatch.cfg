\* Two calls, one retry each, every failure the code handles.
SPECIFICATION Spec
CONSTANTS
    Calls = {c1, c2}
    Retries = 1
    LeaveAfter = 3
    CallbackTtl = 4
    CallbackUrls = {"none", "valid", "invalid"}
    ServicesFail = TRUE
    MayRestart = TRUE
    MaxTime = 6
SYMMETRY Symmetry
INVARIANTS
    OverstaysAccountedFor
    
    CallbackOutlivesBot
CHECK_DEADLOCK FALSE

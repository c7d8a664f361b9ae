\* One call with a malformed callback url; every service answers.
SPECIFICATION Spec
CONSTANTS
    Calls = {c1}
    Retries = 0
    LeaveAfter = 3
    CallbackTtl = 4
    CallbackUrls = {"invalid"}
    ServicesFail = FALSE
    MayRestart = FALSE
    MaxTime = 6
SYMMETRY Symmetry
INVARIANTS
    BotLeavesAsDocumented
CHECK_DEADLOCK FALSE

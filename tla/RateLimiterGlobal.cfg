\* Two of four calls at a time on a route with a global quota; Redis may fail.
SPECIFICATION Spec
CONSTANTS
    Requests = {q1, q2, q3, q4}
    Ips = {ip1}
    ApiKeys = {}
    QuotaLists <- GlobalRoutes
    CustomAnswers <- NoCustom
    EmergencyModes = {FALSE}
    RedisMayFail = TRUE
    MaxTtl = 3
    MaxInFlight = 2
    MaxTime = 3
SYMMETRY RequestSymmetry
INVARIANTS
    GlobalOvershootBound
CHECK_DEADLOCK FALSE

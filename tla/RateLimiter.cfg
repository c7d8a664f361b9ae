\* Callers with and without a key, one of them at an address, on routes limited
\* per address and per key, with and without custom quotas, before and after
\* the emergency flag is set.
SPECIFICATION Spec
CONSTANTS
    Requests = {q1, q2, q3}
    Ips = {ip1}
    ApiKeys = {k1}
    QuotaLists <- ClientRoutes
    CustomAnswers <- SomeCustom
    EmergencyModes = {TRUE, FALSE}
    RedisMayFail = FALSE
    MaxTtl = 2
    MaxInFlight = 2
    MaxTime = 3
SYMMETRY RequestSymmetry
INVARIANTS
    SlidingWindowLimit
    DenialIsOwnDoing
CHECK_DEADLOCK FALSE

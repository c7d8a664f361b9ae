\* Three accounts (one out of range), two privacy requests and two lookups in one process.
SPECIFICATION Spec
CONSTANTS
    Accounts = {a1, a2, a3}
    OutOfRange = {a3}
    Handlers = {h1, h2}
    Lookups = {r1, r2}
    Nobody = Nobody
SYMMETRY Symmetry
INVARIANTS
    ConfirmedAccountsHidden
PROPERTIES
    LonePolicyUpdateExact
CHECK_DEADLOCK FALSE

\* One endpoint answers in order or does not, and any request may fail.
SPECIFICATION PageSpec
CONSTANTS
    Heroes = {h1, h2}
    Ranks = {All, Eternus}
    All = All
    None = None
    MaxRequests = 4
SYMMETRY Symmetry
INVARIANTS
    SpinnerStops
    ViewsAgree
    
CHECK_DEADLOCK FALSE

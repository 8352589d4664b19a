CONSTANTS
    Checks = {}
    Recs = {r1, r2}
    MaxConcurrent = 1
    Detect = TRUE
SPECIFICATION Spec
SYMMETRY Symmetry
INVARIANTS
    OneReconnect
    StateAgrees

CONSTANTS
    Callers = {loop, rpc}
    FailureThreshold = 3
    SuccessThreshold = 2
    Timeout = 2
SPECIFICATION Spec
INVARIANTS
    ClosedCountsRun
    HalfOpenCountsRun
    HalfOpenAfterQuiet
PROPERTIES
    Recovers

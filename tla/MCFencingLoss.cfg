\* The database loses its token once.
CONSTANTS
    Process = {p1, p2}
    NoProcess = NoProcess
    MaxFailures = 0
    MaxLosses = 1
SPECIFICATION Spec
INVARIANT TokensNeverReused
CHECK_DEADLOCK FALSE

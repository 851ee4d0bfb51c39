\* Two attempts per job, so calls overtake each other; database calls fail
\* and the orchestrator crashes.
CONSTANTS
    Sandbox = {s1}
    Worker = {w1, w2}
    NoWorker = NoWorker
    Capacities = {1}
    MaxAttempts = 2
    Faults = TRUE
    MaxLosses = 0
SPECIFICATION MCRetrySpec
SYMMETRY MCSymmetry
INVARIANTS RowsHaveVMs HostedWhereAssigned

\* One attempt per job; one VM dies or fails to boot, or the worker restarts.
CONSTANTS
    Sandbox = {s1}
    Worker = {w1}
    NoWorker = NoWorker
    Capacities = {1}
    MaxAttempts = 1
    Faults = FALSE
    MaxLosses = 1
SPECIFICATION MCLiveSpec
INVARIANT RemovalOnlyOfEnded
PROPERTIES OrphansGo LossNoticed

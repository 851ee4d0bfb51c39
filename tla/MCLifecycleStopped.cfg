\* One sandbox, one worker, two attempts; nothing fails.
CONSTANTS
    Sandbox = {s1}
    Worker = {w1}
    NoWorker = NoWorker
    Capacities = {1}
    MaxAttempts = 2
    Faults = FALSE
SPECIFICATION Spec
INVARIANT StoppedIsConfirmed

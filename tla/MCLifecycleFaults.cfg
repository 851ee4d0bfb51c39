\* One sandbox, two workers, three attempts; database calls fail, the
\* orchestrator crashes at any step, River keeps going.
CONSTANTS
    Sandbox = {s1}
    Worker = {w1, w2}
    NoWorker = NoWorker
    Capacities = {0, 1}
    MaxAttempts = 3
    Faults = TRUE
SPECIFICATION FairSpec
INVARIANT LinkMatchesStatus
PROPERTIES OneWorkerPerSandbox NeverBackwards CreatedOnlyIfRunning EnqueuedOnce CreationSettles CleanupEnds

\* Two sandboxes compete for a worker with one slot or two, as it reports;
\* nothing fails.
CONSTANTS
    Sandbox = {s1, s2}
    Worker = {w1}
    NoWorker = NoWorker
    Capacities = {1, 2}
    MaxAttempts = 2
    Faults = FALSE
SPECIFICATION Spec
SYMMETRY MCSymmetry
INVARIANT NeverStranded
PROPERTY AssignedWithinCapacity

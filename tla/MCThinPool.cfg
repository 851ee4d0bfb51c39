\* Two sandboxes, two base IDs, three sandbox IDs; every call may fail, and
\* worker, import and host stop at any point, any number of times.
CONSTANTS
    Sandbox = {s1, s2}
    FirstSandboxID = 3
    MaxThinID = 5
    Minor = {m1, m2}
    NoMinor = NoMinor
    CallsFail = TRUE
SPECIFICATION Spec
SYMMETRY MCSymmetry
INVARIANTS OwnIDs IDsAccounted BaseIntact ReadyIsOwnImage RemovedIsGone

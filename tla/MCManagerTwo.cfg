\* Two sandboxes on a worker that reports room for one, once it has reported;
\* nothing but boots fails.
CONSTANTS
    Sandbox = {s1, s2}
    Call = {c1, c2}
    Service = {v1, v2}
    NoService = NoService
    NoCall = NoCall
    Main = Main
    Capacities = {1}
    Faults = {}
    MaxRestarts = 1
SPECIFICATION Spec
SYMMETRY MCSymmetry
INVARIANTS NotFoundIsGone RemoveReleases DeadIsOver
PROPERTIES AdmittedWithinCapacity

\* One sandbox, concurrent requests; actors panic and teardowns fail.
CONSTANTS
    Sandbox = {s1}
    Call = {c1, c2}
    Service = {v1, v2, v3}
    NoService = NoService
    NoCall = NoCall
    Main = Main
    Capacities = {}
    Faults = {"panic", "teardown"}
    MaxRestarts = 1
SPECIFICATION Spec
SYMMETRY MCSymmetry
INVARIANTS TypeOK OneOwner
PROPERTIES KeepsPromise HostContract

\* One sandbox, two requests at a time; faults and a restart; no symmetry, the properties are temporal.
CONSTANTS
    Sandbox = {s1}
    Call = {c1, c2}
    Service = {v1}
    NoService = NoService
    NoCall = NoCall
    Main = Main
    Capacities = {}
    Faults = {"panic", "teardown"}
    MaxRestarts = 1
SPECIFICATION FairSpec
PROPERTIES LeftoversGo DeathNoticed CallsReturn

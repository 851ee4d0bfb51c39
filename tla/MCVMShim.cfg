\* Two shims at a time; files fail to be written and removed; worker, shims
\* and VM end at any point, any number of times.
CONSTANTS
    Shim = {h1, h2}
    NoShim = NoShim
    DiskFails = TRUE
SPECIFICATION FairSpec
INVARIANTS HandleIsTrue OneVMPerVolume
PROPERTIES AttachFindsShim HostContract AllReaped ExitReported

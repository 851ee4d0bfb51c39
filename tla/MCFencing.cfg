\* Two processes under one worker ID; two registrations arrive late or lose
\* their reply, and the database loses its token once.
CONSTANTS
    Process = {p1, p2}
    NoProcess = NoProcess
    MaxFailures = 2
    MaxLosses = 1
SPECIFICATION FairSpec
INVARIANTS TokensUnique OldProcessRefused
PROPERTIES InventoryClaimedOnce Readmitted
CHECK_DEADLOCK FALSE

SPECIFICATION RunnerSpec
CONSTANTS
    Jobs = {j1}
    Leases = {l1, l2, l3}
    MaxAttempts = 2
    Concurrency = 2
    MaxRestarts = 1
    NoLease = NoLease
    NoClaim = NoClaim
SYMMETRY Symmetry
INVARIANT
    OrphansAreTempsOnly
CHECK_DEADLOCK FALSE

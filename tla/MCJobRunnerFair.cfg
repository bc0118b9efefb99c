SPECIFICATION FairRunnerSpec
CONSTANTS
    Jobs = {j1}
    Leases = {l1, l2, l3}
    MaxAttempts = 2
    Concurrency = 1
    MaxRestarts = 1
    NoLease = NoLease
    NoClaim = NoClaim
PROPERTIES
    JobsEnd
    ClaimsClosed
CHECK_DEADLOCK FALSE

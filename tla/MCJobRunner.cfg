SPECIFICATION RunnerSpec
CONSTANTS
    Jobs = {j1}
    Leases = {l1, l2, l3}
    MaxAttempts = 3
    Concurrency = 2
    MaxRestarts = 1
    NoLease = NoLease
    NoClaim = NoClaim
SYMMETRY Symmetry
INVARIANTS
    RunnerTypeOK
    ArtifactServed
    ConcurrencyCap
    EvidenceKept
    StopReleases
PROPERTIES
    QueueContract
CHECK_DEADLOCK FALSE

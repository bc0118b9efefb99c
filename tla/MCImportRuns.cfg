SPECIFICATION FairImportSpec
CONSTANTS
    Jobs = {j1}
    Leases = {l1, l2}
    MaxAttempts = 2
    Cancelable = {j1}
    MaxRestarts = 1
    NoLease = NoLease
    NoClaim = NoClaim
INVARIANTS
    ImportTypeOK
    WritesAreFenced
    OwnerKeepsClaim
    OnePlanUnlessReplanned
PROPERTIES
    CancelReturns
CHECK_DEADLOCK FALSE

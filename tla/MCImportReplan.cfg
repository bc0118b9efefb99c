SPECIFICATION ImportSpec
CONSTANTS
    Jobs = {j1}
    Leases = {l1, l2, l3}
    MaxAttempts = 3
    Cancelable = {}
    MaxRestarts = 0
    NoLease = NoLease
    NoClaim = NoClaim
SYMMETRY Symmetry
INVARIANT
    OnePlan
CHECK_DEADLOCK FALSE

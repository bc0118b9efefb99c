SPECIFICATION Spec
CONSTANTS
    Jobs = {j1, j2}
    Leases = {l1, l2, l3, l4}
    MaxAttempts = 2
    NoLease = NoLease
    NoClaim = NoClaim
SYMMETRY Symmetry
INVARIANTS
    TypeOK
    LeaseMatchesClaim
    AttemptsLeft
PROPERTIES
    TerminalIsFinal
CHECK_DEADLOCK FALSE

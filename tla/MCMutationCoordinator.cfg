SPECIFICATION FairSpec
CONSTANTS
    Resources = {}
    NoteIds = {}
    Segments = {"a", "d"}
    Paths <- MCPaths
    Calls = {"s1", "r1", "host"}
    Children = {"k1", "k2"}
    MethodOf <- MCMethodOf
    Requests <- MCRequests
    NoScope = NoScope
    Thrown = Thrown
INVARIANTS
    WorkIsFenced
    NoLeakedLease
PROPERTIES
    NoStarvation
    EveryCallReturns
CHECK_DEADLOCK FALSE

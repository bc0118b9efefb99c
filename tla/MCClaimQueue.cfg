SPECIFICATION Spec
CONSTANTS
    Resources = {"src"}
    NoteIds = {"n"}
    Segments = {"a", "b", "d"}
    Paths <- MCPaths
    MaxTickets = 4
    Requests <- MCRequests
INVARIANTS
    TypeOK
    MutualExclusion
    IndexesExact
PROPERTIES
    MatchesDrainScheduler
    NoOvertaking
CHECK_DEADLOCK FALSE

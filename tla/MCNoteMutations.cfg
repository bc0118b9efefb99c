SPECIFICATION FairNoteSpec
CONSTANTS
    Resources = {}
    NoteIds = {"n1", "n2", "n3"}
    Segments = {"a", "b", "c", "d", "e", "graph-target", "n1", "n2", "n3"}
    Paths <- MCPaths
    Calls = {1, 2, 3, 4}
    Children = {}
    MethodOf <- MCMethodOf
    Scenarios <- MCScenarios
    WhereAtStart <- MCWhere
    DirsAtStart <- MCDirs
    BodyAtStart <- MCBody
    Requests = {}
    NoScope = NoScope
    Thrown = Thrown
    NoPath = NoPath
    Unseen = Unseen
    NoPass = NoPass
INVARIANTS
    NoteTypeOK
    PremiseHolds
    LinksFollow
PROPERTIES
    EveryMutationReturns
CHECK_DEADLOCK FALSE

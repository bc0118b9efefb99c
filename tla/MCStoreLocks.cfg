SPECIFICATION FairSpec
CONSTANTS
    Resources = {}
    NoteIds = {}
    Segments = {"t", "n", "m"}
    Paths <- MCPaths
    Callers = {"rm", "rs", "po", "fe", "le", "su", "st"}
    KindOf <- MCKindOf
    ModeOf <- MCModeOf
    NoteOf <- MCNoteOf
    TrashRoot <- MCTrashRoot
    NoMode = NoMode
INVARIANTS
    TypeOK
    PhasesExclude
    EngineLeftAlone
PROPERTIES
    NobodyPassed
    EveryCallReturns
    StopReturns
CHECK_DEADLOCK FALSE

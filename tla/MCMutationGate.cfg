SPECIFICATION FairSpec
CONSTANTS
    Mutations = {m1, m2, m3}
    Checkpoints = {c1, c2}
    Chained = FALSE
INVARIANTS
    TypeOK
    TaskRunsAlone
    OneTask
PROPERTIES
    EntrantsAdmitted
CHECK_DEADLOCK FALSE

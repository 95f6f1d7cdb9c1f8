SPECIFICATION Spec
CONSTANTS
    Runner = {cron, web}
    Pruner = {}
    Process <- Processes
    Version = {v1, v2}
    Absent = Absent
    Torn = Torn
    Compress = TRUE
    S3 = TRUE
    RetentionDays <- AtOnce
    MinCopies <- KeepOne
    KeepDays = 0
    KeepCopies = 1
    SharedSecond = FALSE
    MaxTime = 2
    MaxFaults = 1
CHECK_DEADLOCK FALSE
SYMMETRY Symmetry
INVARIANTS
    TypeOK
    SidecarTrue
    VerdictHolds
    MirrorConsistent
    VictimsBacked
    ListingsBacked
PROPERTIES
    KeepsPromise

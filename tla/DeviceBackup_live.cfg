SPECIFICATION FairSpec
CONSTANTS
    Runner = {cron}
    Pruner = {cli}
    Process <- Processes
    Version = {v1, v2}
    Absent = Absent
    Torn = Torn
    Compress = FALSE
    S3 = FALSE
    RetentionDays <- AtOnce
    MinCopies <- KeepOne
    KeepDays = 0
    KeepCopies = 1
    SharedSecond = TRUE
    MaxTime = 1
    MaxFaults = 1
CHECK_DEADLOCK FALSE
PROPERTIES
    EveryRunEnds
    EventuallyCaptured

SPECIFICATION Spec
CONSTANTS
    Runner = {cron}
    Pruner = {}
    Process <- Processes
    Version = {v1, v2}
    Absent = Absent
    Torn = Torn
    Compress = FALSE
    S3 = TRUE
    RetentionDays <- AtOnce
    MinCopies <- KeepOne
    KeepDays = 0
    KeepCopies = 1
    SharedSecond = FALSE
    MaxTime = 3
    MaxFaults = 2
CHECK_DEADLOCK FALSE
PROPERTIES
    NeverLosesLastCopy
    StoresOnlyChanges

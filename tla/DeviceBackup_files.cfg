SPECIFICATION Spec
CONSTANTS
    Runner = {cron, web}
    Pruner = {}
    Process <- Processes
    Version = {v1, v2}
    Absent = Absent
    Torn = Torn
    Compress = FALSE
    S3 = FALSE
    RetentionDays <- OneSecond
    MinCopies <- KeepOne
    KeepDays = 1
    KeepCopies = 1
    SharedSecond = FALSE
    MaxTime = 3
    MaxFaults = 0
CHECK_DEADLOCK FALSE
PROPERTIES
    KeepsCompleteCopies

SPECIFICATION FairSpec
CONSTANTS
    Device = {d1}
    Runner = {run}
    Absent = Absent
    Torn = Torn
    Never = Never
    StaleAfter = {0, 1}
    Realert = 2
    MaxTime = 3
    MaxReloads = 2
    MaxCrashes = 1
    MaxLosses = 1
    MaxFaults = 1
CHECK_DEADLOCK FALSE
INVARIANTS
    TypeOK
PROPERTIES
    KeepsAlertProtocol
    NoFalseAlarm
    RecoveryIsReal
    OverdueTold
    RecoveryTold

SPECIFICATION FairSpec
CONSTANTS
    fw1 = fw1
    fw2 = fw2
    b1 = b1
    b2 = b2
    Name <- Names
    Bucket = {b1, b2}
    Texts <- Family
    Garbled = Garbled
    None = None
    Capacity = 2
    MaxActs = 3
    MaxFaults = 1
CHECK_DEADLOCK FALSE
INVARIANTS
    TypeOK
    AlarmsGoOut
    BlindOnlyAsStarted
PROPERTIES
    OneBucket
    Recovers

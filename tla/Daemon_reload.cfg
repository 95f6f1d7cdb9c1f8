SPECIFICATION FairSpec
CONSTANTS
    c1 = c1
    c2 = c2
    c3 = c3
    d1 = d1
    d2 = d2
    Config = {c1, c2, c3}
    Device = {d1, d2}
    Devices <- Files
    BadCron <- BadLast
    Torn = Torn
    Nothing = Nothing
    Handler = {h1}
    Visitor = {m1, m2}
    CronTask = {k1}
    Capacity = 1
    SharedSecond = FALSE
    MaxPosts = 2
    MaxSignals = 1
    MaxFaults = 1
CHECK_DEADLOCK FALSE
INVARIANTS
    TypeOK
    JobsMatchLive
    ConfigKept
    OneManualRun
    PrefixScheduled
PROPERTIES
    LiveFollowsDisk

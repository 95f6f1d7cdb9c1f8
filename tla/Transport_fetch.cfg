SPECIFICATION FairSpec
CONSTANTS
    Kinds = {"rest", "exec", "shell"}
    Timeout = 9
    Delay <- TwoDelays
    Idle <- Silences
    NoGap = 3
CHECK_DEADLOCK FALSE
INVARIANTS
    TypeOK
    WholeIfSteady
    SteadyServed
    NothingForeign
    FetchBounded
PROPERTIES
    FetchEnds

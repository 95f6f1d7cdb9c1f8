SPECIFICATION Spec
CONSTANTS
    Kinds = {"shell"}
    Timeout = 9
    Delay <- TwoDelays
    Idle <- Silences
    NoGap = 3
CHECK_DEADLOCK FALSE
INVARIANTS
    WholeConfig

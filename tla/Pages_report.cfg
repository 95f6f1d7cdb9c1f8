SPECIFICATION Spec

CONSTANTS
    fw = fw
    old = old
    Device = {fw}
    Dir = {fw, old}
    Moment <- Seconds
    MonthLength = 2
    Stray = Stray
    None = None
    MaxFaults = 1

CHECK_DEADLOCK FALSE

INVARIANTS
    TypeOK
    WholeOrNothing
    DiffForward

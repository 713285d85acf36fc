CONSTANTS
    Threads = {t1, t2}
    Length = 2
    Keys = {r1}
    NoKey = NoKey
    AttemptBound = 2
    SwitchBound = 1
SPECIFICATION LiveSpec
CHECK_DEADLOCK FALSE
INVARIANTS
    SuccessComplete
    KillStops
PROPERTIES
    OnlyEarlyOverwrites
    RunningEnds

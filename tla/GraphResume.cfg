CONSTANTS
    Threads = {t1}
    Length = 2
    Keys = {r1}
    NoKey = NoKey
    AttemptBound = 2
    SwitchBound = 0
SPECIFICATION Spec
CHECK_DEADLOCK FALSE
PROPERTIES
    NoRepeatedNode

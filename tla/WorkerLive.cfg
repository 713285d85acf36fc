CONSTANTS
    k1 = k1
    k2 = k2
    w1 = w1
    w2 = w2
    Keys = {k1, k2}
    Workers = {w1, w2}
    Aggregates = {a1}
    NoWorker = NoWorker
    NoKey = NoKey
    Codes = {manual, c1}
    ManualRetryCode = manual
    WorkerCode = c1
    MaxAttempts = 2
    LeaseTicks = 1
    MaxWait = 0
    BatchSize = 1
    ReportedClasses = {}
    ReportLimit = 0
    RetryKeys = {}
    Unhandled = {k2}
    Timeout = 1
    Beat = 1
    Disturbances = {"crash", "stop", "pause", "late"}
    DisturbanceLimit = 1
SPECIFICATION LiveSpec
INVARIANTS
    SuccessActed
PROPERTIES
    EventuallySettled
    StopDrains

CONSTANTS
    k1 = k1
    k2 = k2
    w1 = w1
    w2 = w2
    Keys = {k1}
    Workers = {w1, w2}
    Aggregates = {a1}
    NoWorker = NoWorker
    NoKey = NoKey
    Codes = {manual, c1}
    ManualRetryCode = manual
    WorkerCode = c1
    MaxAttempts = 2
    LeaseTicks = 1
    MaxWait = 0
    BatchSize = 1
    ReportedClasses = {}
    ReportLimit = 0
    RetryKeys = {}
    Unhandled = {}
    Timeout = 2
    Beat = 1
    Disturbances = {"late"}
    DisturbanceLimit = 1
SPECIFICATION WSpec
PROPERTIES
    TimeoutIsUnknown

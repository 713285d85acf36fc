CONSTANTS
    k1 = k1
    k2 = k2
    w1 = w1
    w2 = w2
    Keys = {k1, k2}
    Workers = {w1}
    Aggregates = {a1}
    NoWorker = NoWorker
    NoKey = NoKey
    Codes = {c1, manual}
    ManualRetryCode = manual
    MaxAttempts = 1
    LeaseTicks = 1
    MaxWait = 0
    BatchSize = 1
    ReportedClasses = {"deterministic", "transient", "unknown"}
    ReportLimit = 0
    RetryKeys = {k1, k2}
SPECIFICATION Spec
INVARIANTS
    CopiedSourceOnRecord

CONSTANTS
    k1 = k1
    k2 = k2
    w1 = w1
    w2 = w2
    Keys = {k1}
    Workers = {w1, w2}
    Aggregates = {a1}
    NoWorker = NoWorker
    NoKey = NoKey
    Codes = {c1, manual}
    ManualRetryCode = manual
    MaxAttempts = 2
    LeaseTicks = 2
    MaxWait = 1
    BatchSize = 1
    ReportedClasses = {"deterministic", "transient"}
    ReportLimit = 3
    RetryKeys = {k1}
SPECIFICATION Spec
SYMMETRY WorkerSymmetry
INVARIANTS
    TypeOK
    NewestFactDecides
    LeaseAgreement
    AttemptBudget
    FactsBehindAttempt
PROPERTIES
    TerminalFrozen
    ContractHolds

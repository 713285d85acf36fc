CONSTANTS
    Events = {e1, e2}
    Workers = {w1, w2}
    NoWorker = NoWorker
    Callers = {c1, c2}
    Payloads = {p1}
    NoPayload = NoPayload
    MaxAttempts = 2
    LeaseTicks = 1
    RetryBase = 1
    BatchSize = 2
    Outcomes = {"published", "retryable", "rejected", "unknown"}
    Trouble = 1
SPECIFICATION LiveSpec
INVARIANTS
    PublishedSent
    AttemptsUnique
    WriteWithEvent
    AttemptsBounded
PROPERTIES
    EndedFrozen
    ContractHolds
    EventuallyEnded

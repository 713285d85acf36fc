CONSTANTS
    Events = {e1}
    Workers = {w1, w2}
    NoWorker = NoWorker
    Callers = {c1}
    Payloads = {p1}
    NoPayload = NoPayload
    MaxAttempts = 2
    LeaseTicks = 1
    RetryBase = 1
    BatchSize = 1
    Outcomes = {"published", "retryable", "rejected", "unknown"}
    Trouble = 1
SPECIFICATION Spec
PROPERTIES
    UnknownNotResent

----------------------------- MODULE TaskQueue -----------------------------
(***************************************************************************)
(* The SQL task queue of infra/foundation: task_queue.py (enqueue),        *)
(* task_claim.py (claim, heartbeat, start, complete), task_failure.py      *)
(* (failure facts, retry, dead-letter requeue) and task_replay.py.         *)
(*                                                                         *)
(* Every public command is one database transaction, hence one action;     *)
(* only the manual retry reads outside the transaction that writes, and is *)
(* two actions.  The actions constrain nothing about who calls them: any   *)
(* worker may present any token ever issued, at any time.                  *)
(*                                                                         *)
(* A row of task_jobs is named by its idempotency key, which the table     *)
(* keeps unique per tenant and job type.  Timestamps are countdowns: wait  *)
(* is the time until available_at, left the time until lease_until, and 0  *)
(* means the instant has been reached.                                     *)
(***************************************************************************)
EXTENDS Naturals, FiniteSets, Sequences

CONSTANTS
    Keys,               \* idempotency keys, one task_jobs row each
    Aggregates,         \* (aggregate_id, aggregate_version) pairs jobs are about
    Workers,            \* worker ids
    NoWorker,           \* locked_by IS NULL, or no task_job_leases row
    NoKey,              \* replayed_from_job_id IS NULL
    Codes,              \* error codes of failure facts
    ManualRetryCode,    \* the error code retry() records
    MaxAttempts,        \* task_jobs.max_attempts
    LeaseTicks,         \* lease_seconds
    MaxWait,            \* cap of the retry policy, bound on deferred enqueues
    BatchSize,          \* largest claim limit
    ReportedClasses,    \* error classes API callers report without a lease
    ReportLimit,        \* highest attempt number such a caller reports
    RetryKeys           \* rows operators send manual retries for

ASSUME WorkerAssumption == NoWorker \notin Workers
ASSUME KeyAssumption == NoKey \notin Keys
ASSUME AggregateAssumption == Aggregates # {}
ASSUME CodeAssumption == ManualRetryCode \in Codes
ASSUME MaxAttemptsAssumption == MaxAttempts \in Nat /\ MaxAttempts > 0
ASSUME LeaseTicksAssumption == LeaseTicks \in Nat /\ LeaseTicks > 0
ASSUME MaxWaitAssumption == MaxWait \in Nat
ASSUME BatchSizeAssumption == BatchSize \in Nat
ASSUME ReportLimitAssumption == ReportLimit \in Nat

ErrorClasses == {"deterministic", "transient", "unknown"}

ASSUME ReportedClassesAssumption == ReportedClasses \subseteq ErrorClasses

VARIABLES
    job,        \* [Keys -> row of task_jobs]
    lease,      \* [Keys -> row of task_job_leases, or NoLease]
    issued,     \* [Keys -> number of lease tokens ever issued for the row]
    failures,   \* [Keys -> its task_failures facts, oldest first]
    review,     \* [Aggregates -> its unknown_result row of human_tasks]
    asked,      \* manual retries that have read the row and not yet written
    paused      \* the tenant's row of audit_recovery_queue_pauses

vars == <<job, lease, issued, failures, review, asked, paused>>

-----------------------------------------------------------------------------
(* Rows *)

Statuses == {"absent", "queued", "leased", "running", "succeeded", "failed",
             "retry_scheduled", "dead_letter"}
Held     == {"leased", "running"}
Ready    == {"queued", "retry_scheduled"}
Terminal == {"succeeded", "dead_letter"}

Jobs == [status  : Statuses,
         agg     : Aggregates,
         attempt : Nat,
         wait    : Nat,
         left    : Nat,
         by      : Workers \cup {NoWorker},
         from    : Keys \cup {NoKey}]

Leases == [by : Workers \cup {NoWorker}, token : Nat, left : Nat, version : Nat]
Facts  == [attempt : Nat, class : ErrorClasses, code : Codes]
Asks   == [key : Keys, attempt : Nat]

NewJob(agg, from, wait) ==
    [status |-> "queued", agg |-> agg, attempt |-> 0, wait |-> wait,
     left |-> 0, by |-> NoWorker, from |-> from]

AbsentJob == [NewJob(CHOOSE a \in Aggregates : TRUE, NoKey, 0) EXCEPT !.status = "absent"]

NoLease == [by |-> NoWorker, token |-> 0, left |-> 0, version |-> 0]

HasUnknown(k) == \E i \in 1..Len(failures[k]) : failures[k][i].class = "unknown"

Recorded(k, attempt, code) ==
    \E i \in 1..Len(failures[k]) :
        failures[k][i].attempt = attempt /\ failures[k][i].code = code

Init ==
    /\ job = [k \in Keys |-> AbsentJob]
    /\ lease = [k \in Keys |-> NoLease]
    /\ issued = [k \in Keys |-> 0]
    /\ failures = [k \in Keys |-> <<>>]
    /\ review = [a \in Aggregates |-> "none"]
    /\ asked = {}
    /\ paused = FALSE

-----------------------------------------------------------------------------
(* Enqueue and claim *)

\* The key is free, or enqueue returns the existing row and writes nothing.
Enqueue(k, a, wait) ==
    /\ job[k].status = "absent"
    /\ job' = [job EXCEPT ![k] = NewJob(a, NoKey, wait)]
    /\ UNCHANGED <<lease, issued, failures, review, asked, paused>>

Expired(k) == job[k].status \in Held /\ job[k].left = 0
\* Seeded fault: the last permitted attempt counts as one more to spare.
ExhaustedLate(k) == Expired(k) /\ job[k].attempt > MaxAttempts
Exhausted(k) == Expired(k) /\ job[k].attempt >= MaxAttempts
\* Seeded fault: rows whose holder is gone are not offered again.
ClaimableReady(k) == job[k].status \in Ready /\ job[k].wait = 0

Claimable(k) ==
    \/ job[k].status \in Ready /\ job[k].wait = 0
    \/ Expired(k) /\ ~Exhausted(k)

\* The rows a claim of at most n rows may return.  The query takes the first n
\* by available_at; SKIP LOCKED lets a concurrent claim shift which those are.
Batches(n) ==
    LET open == {k \in Keys : Claimable(k)}
        size == IF Cardinality(open) < n THEN Cardinality(open) ELSE n
    IN  {S \in SUBSET open : Cardinality(S) = size}

Retired(k) ==
    [job[k] EXCEPT !.status = "dead_letter", !.left = 0, !.by = NoWorker]

\* Seeded fault: a new lease does not count as an attempt.
LeasedUncounted(k, w) ==
    [job[k] EXCEPT !.status = "leased", !.left = LeaseTicks, !.by = w]

Leased(k, w) ==
    [job[k] EXCEPT !.status = "leased", !.attempt = @ + 1,
                   !.left = LeaseTicks, !.by = w]

\* One transaction: retire the exhausted expired leases, then lease a batch.
\* When the batch is empty the retirement is still committed.
Claim(w, n) ==
    /\ ~paused
    /\ \E S \in Batches(n) :
        /\ job' = [k \in Keys |-> IF Exhausted(k) THEN Retired(k)
                                  ELSE IF k \in S THEN Leased(k, w) ELSE job[k]]
        /\ issued' = [k \in Keys |-> IF k \in S THEN issued[k] + 1 ELSE issued[k]]
        /\ lease' = [k \in Keys |->
                        IF Exhausted(k) THEN NoLease
                        ELSE IF k \in S
                        THEN [by |-> w, token |-> issued[k] + 1, left |-> LeaseTicks,
                              version |-> lease[k].version + 1]
                        ELSE lease[k]]
    /\ UNCHANGED <<failures, review, asked, paused>>

-----------------------------------------------------------------------------
(* Commands of a lease holder *)

\* _validate_lease: the lease row's token and owner match and it has not run out.
ValidLease(k, w, t) ==
    /\ lease[k].by = w
    /\ lease[k].token = t
    /\ lease[k].left > 0
    /\ job[k].status \in Held

\* Seeded fault: the heartbeat extends the lease row and not the job row.
HeartbeatLeaseOnly(k, w, t) ==
    /\ ValidLease(k, w, t)
    /\ job[k].by = w
    /\ lease' = [lease EXCEPT ![k].left = LeaseTicks]
    /\ UNCHANGED <<job, issued, failures, review, asked, paused>>

Heartbeat(k, w, t) ==
    /\ ValidLease(k, w, t)
    /\ job[k].by = w
    /\ job' = [job EXCEPT ![k].left = LeaseTicks]
    /\ lease' = [lease EXCEPT ![k].left = LeaseTicks]
    /\ UNCHANGED <<issued, failures, review, asked, paused>>

Start(k, w, t) ==
    /\ ValidLease(k, w, t)
    /\ job[k].status = "leased"
    /\ job[k].by = w
    /\ job' = [job EXCEPT ![k].status = "running"]
    /\ UNCHANGED <<lease, issued, failures, review, asked, paused>>

Complete(k, w, t) ==
    /\ ValidLease(k, w, t)
    /\ job[k].by = w
    /\ job' = [job EXCEPT ![k] = [@ EXCEPT !.status = "succeeded", !.left = 0,
                                          !.by = NoWorker]]
    /\ lease' = [lease EXCEPT ![k] = NoLease]
    /\ UNCHANGED <<issued, failures, review, asked, paused>>

-----------------------------------------------------------------------------
(* Failures *)

\* The unknown_result human task is unique per aggregate and version, so one
\* that exists is reused whatever its status.
OpenReview(a) == [review EXCEPT ![a] = IF @ = "none" THEN "queued" ELSE @]

\* Seeded faults: a status the table's check admits and no code handles; one
\* retry too many; an unknown result retried like a transient failure.
StatusAfterCancelled(class, attempt) ==
    IF class # "transient" THEN "cancelled"
    ELSE IF attempt >= MaxAttempts THEN "dead_letter" ELSE "retry_scheduled"

StatusAfterOneMore(class, attempt) ==
    IF class # "transient" THEN "failed"
    ELSE IF attempt > MaxAttempts THEN "dead_letter" ELSE "retry_scheduled"

StatusAfterRetryUnknown(class, attempt) ==
    IF class = "deterministic" THEN "failed"
    ELSE IF attempt >= MaxAttempts THEN "dead_letter" ELSE "retry_scheduled"

StatusAfter(class, attempt) ==
    IF class # "transient" THEN "failed"
    ELSE IF attempt >= MaxAttempts THEN "dead_letter" ELSE "retry_scheduled"

\* Seeded fault: a failure is recorded for a row that has already ended.
RecordEnded(k, class, code, attempt, delay) ==
    /\ job[k].status # "absent"
    /\ attempt \in {job[k].attempt, job[k].attempt + 1}
    /\ ~Recorded(k, attempt, code)
    /\ failures' = [failures EXCEPT ![k] =
            Append(@, [attempt |-> attempt, class |-> class, code |-> code])]
    /\ job' = [job EXCEPT ![k] = [@ EXCEPT !.status = StatusAfter(class, attempt),
                                          !.attempt = attempt, !.left = 0, !.by = NoWorker]]
    /\ lease' = [lease EXCEPT ![k] = NoLease]
    /\ UNCHANGED review

\* record_failure past its lease check, for the row k at the given attempt;
\* delay is the retry policy's.  A fact already recorded changes no row.
Record(k, class, code, attempt, delay) ==
    /\ job[k].status \notin Terminal \cup {"absent"}
    /\ attempt \in {job[k].attempt, job[k].attempt + 1}
    /\ IF Recorded(k, attempt, code)
       THEN UNCHANGED <<job, lease, failures, review>>
       ELSE /\ failures' = [failures EXCEPT ![k] =
                    Append(@, [attempt |-> attempt, class |-> class, code |-> code])]
            /\ review' = IF class = "unknown" THEN OpenReview(job[k].agg) ELSE review
            /\ job' = [job EXCEPT ![k] =
                    [@ EXCEPT !.status = StatusAfter(class, attempt),
                              !.attempt = attempt,
                              !.wait = IF StatusAfter(class, attempt) = "retry_scheduled"
                                       THEN delay ELSE 0,
                              !.left = 0, !.by = NoWorker]]
            /\ lease' = [lease EXCEPT ![k] = NoLease]

Fail(k, w, t, class, code, delay) ==
    /\ ValidLease(k, w, t)
    /\ Record(k, class, code, job[k].attempt, delay)
    /\ UNCHANGED <<issued, asked, paused>>

\* record_failure without a token, as the retry endpoint forwards it.
Report(k, class, code, attempt, delay) ==
    /\ class \in ReportedClasses
    /\ attempt <= ReportLimit
    /\ job[k].status \notin Held
    /\ Record(k, class, code, attempt, delay)
    /\ UNCHANGED <<issued, asked, paused>>

Latest(k) == failures[k][Len(failures[k])]

\* retry() reads and checks the row before any transaction is open.
AskRetry(k) ==
    /\ k \in RetryKeys
    /\ job[k].status \notin Terminal \cup {"absent"}
    /\ job[k].attempt < MaxAttempts
    /\ failures[k] # <<>> => /\ Latest(k).class = "transient"
                             /\ job[k].status # "retry_scheduled"
    /\ asked' = asked \cup {[key |-> k, attempt |-> job[k].attempt]}
    /\ UNCHANGED <<job, lease, issued, failures, review, paused>>

\* ... and later records a transient failure for the attempt it read.
DoRetry(r, delay) ==
    /\ r \in asked
    /\ asked' = asked \ {r}
    /\ IF \/ job[r.key].status \in Held \cup Terminal
          \/ r.attempt \notin {job[r.key].attempt, job[r.key].attempt + 1}
       THEN UNCHANGED <<job, lease, failures, review>>
       ELSE Record(r.key, "transient", ManualRetryCode, r.attempt, delay)
    /\ UNCHANGED <<issued, paused>>

-----------------------------------------------------------------------------
(* New rows for old work *)

Copy(k, new) ==
    /\ job[new].status = "absent"
    /\ job' = [job EXCEPT ![new] = NewJob(job[k].agg, k, 0)]
    /\ UNCHANGED <<lease, issued, failures, review, asked, paused>>

RequeueDead(k, new) ==
    /\ job[k].status = "dead_letter"
    /\ Copy(k, new)

\* Seeded fault: any row may be replayed, whatever it is doing.
ReplayAny(k, new) ==
    /\ job[k].status # "absent"
    /\ HasUnknown(k) => review[job[k].agg] = "done"
    /\ Copy(k, new)

Replay(k, new) ==
    /\ job[k].status \in {"failed", "dead_letter"}
    /\ HasUnknown(k) => review[job[k].agg] = "done"
    /\ Copy(k, new)

-----------------------------------------------------------------------------
(* The environment *)

\* The human-task service completes the review of an unknown result.
CompleteReview(a) ==
    /\ review[a] = "queued"
    /\ review' = [review EXCEPT ![a] = "done"]
    /\ UNCHANGED <<job, lease, issued, failures, asked, paused>>

\* A recovery drill closes the tenant's queue and later releases it.
SetPaused ==
    /\ paused' = ~paused
    /\ UNCHANGED <<job, lease, issued, failures, review, asked>>

Dec(n) == IF n = 0 THEN 0 ELSE n - 1

Tick ==
    /\ job' = [k \in Keys |-> [job[k] EXCEPT !.wait = Dec(@), !.left = Dec(@)]]
    /\ lease' = [k \in Keys |-> [lease[k] EXCEPT !.left = Dec(@)]]
    /\ UNCHANGED <<issued, failures, review, asked, paused>>

-----------------------------------------------------------------------------
\* What the retry policy may answer: its delay doubles with each attempt, is
\* moved either way by the jitter, and is never negative nor over the cap.
Delays == 0..MaxWait

HolderStep(k, w, t) ==
    \/ Heartbeat(k, w, t)
    \/ Start(k, w, t)
    \/ Complete(k, w, t)
    \/ \E class \in ErrorClasses, code \in Codes, delay \in Delays :
           Fail(k, w, t, class, code, delay)

OperatorStep ==
    \/ \E k \in Keys, class \in ErrorClasses, code \in Codes, delay \in Delays :
           \E attempt \in {job[k].attempt, job[k].attempt + 1} :
               Report(k, class, code, attempt, delay)
    \/ \E k \in Keys : AskRetry(k)
    \/ \E r \in asked, delay \in Delays : DoRetry(r, delay)
    \/ \E k, new \in Keys : RequeueDead(k, new) \/ Replay(k, new)

Next ==
    \/ \E k \in Keys, a \in Aggregates, wait \in 0..MaxWait : Enqueue(k, a, wait)
    \/ \E w \in Workers, n \in 1..BatchSize : Claim(w, n)
    \/ \E k \in Keys, w \in Workers : \E t \in 1..issued[k] : HolderStep(k, w, t)
    \/ OperatorStep
    \/ \E a \in Aggregates : CompleteReview(a)
    \/ SetPaused
    \/ Tick

Spec == Init /\ [][Next]_vars

-----------------------------------------------------------------------------
(* Properties *)

\* Type invariant of the seven tables and counters.
TypeOK ==
    /\ job \in [Keys -> Jobs]
    /\ lease \in [Keys -> Leases]
    /\ issued \in [Keys -> Nat]
    /\ failures \in [Keys -> Seq(Facts)]
    /\ review \in [Aggregates -> {"none", "queued", "done"}]
    /\ asked \subseteq Asks
    /\ paused \in BOOLEAN

LeaseAgrees(k) ==
    IF job[k].status \in Held
    THEN /\ lease[k].by = job[k].by
         /\ lease[k].by \in Workers
         /\ lease[k].left = job[k].left
         /\ lease[k].token = issued[k]
    ELSE lease[k] = NoLease /\ job[k].by = NoWorker /\ job[k].left = 0

\* task_jobs and task_job_leases never disagree: a lease row exists exactly
\* while its job is leased or running, names the same owner and expiry as the
\* job row, and holds the last token issued, so no earlier token is accepted.
LeaseAgreement == \A k \in Keys : LeaseAgrees(k)

WithinBudget(k) ==
    /\ job[k].status \in Ready => job[k].attempt < MaxAttempts
    /\ job[k].status \in Held => job[k].attempt <= MaxAttempts
    /\ issued[k] <= job[k].attempt

\* A job that can still be claimed has an attempt left, and a held one is
\* within its budget: claim checks no limit on queued and retry_scheduled rows,
\* so every path into them must have.
AttemptBudget == \A k \in Keys : WithinBudget(k)

FactsBehind(k) ==
    \A i \in 1..Len(failures[k]) :
        /\ failures[k][i].attempt <= job[k].attempt
        /\ job[k].status \in Held => failures[k][i].attempt < job[k].attempt
        /\ \A j \in i..Len(failures[k]) :
               failures[k][i].attempt <= failures[k][j].attempt

\* No fact is recorded for the attempt a holder is executing, nor for a later
\* one, so its own failure is never mistaken for a duplicate, which would leave
\* the lease in place; and facts are appended in attempt order, so the newest
\* fact is the one retry and requeue look up.
FactsBehindAttempt == \A k \in Keys : FactsBehind(k)

\* A succeeded or dead-lettered row is never written again: replay and requeue
\* leave their source as it was, and no late holder, retry or expiry revives it.
TerminalFrozen ==
    [][\A k \in Keys : job[k].status \in Terminal => job'[k] = job[k]]_vars

\* A row whose result is unknown stays failed: nothing claims or schedules it
\* again, and new work for it is a new row that a human review has opened.
UnknownStaysFailed ==
    \A k \in Keys : HasUnknown(k) => job[k].status = "failed"

Rests(k) == failures[k] # <<>> /\ Latest(k).class # "transient"

Decided(k) ==
    /\ job[k].status = "failed" <=> Rests(k)
    /\ Rests(k) => Latest(k).attempt = job[k].attempt

\* The newest fact decides: a row whose newest failure is deterministic or
\* unknown is failed at that attempt and claimed by nobody, and no other row is
\* failed.  Only a transient fact filed later takes it up again: that of a manual
\* retry decided before the row failed, or a report that comes without a lease.
NewestFactDecides == \A k \in Keys : Decided(k)

\* A transient fact was filed right behind one that had failed the row.
RevivedOnRecord(k) ==
    \E i \in 1..(Len(failures[k]) - 1) :
        /\ failures[k][i].class # "transient"
        /\ failures[k][i + 1].class = "transient"
        /\ failures[k][i + 1].attempt \in {failures[k][i].attempt, failures[k][i].attempt + 1}

\* The source of a replay or requeue runs next to its copy only if it was
\* taken up again since, with the fact on record that did it; one that was
\* dead-lettered never does.
CopiedSourceOnRecord ==
    \A k \in Keys : job[k].from # NoKey =>
        \/ job[job[k].from].status \in {"failed", "dead_letter"}
        \/ RevivedOnRecord(job[k].from)

-----------------------------------------------------------------------------
(* The abstract view: a row's phase, and a hand-out for every token.       *)

PhaseOf(status) ==
    CASE status = "absent" -> "new"
      [] status \in Ready -> "waiting"
      [] status \in Held -> "held"
      [] status = "failed" -> "failed"
      [] status \in Terminal -> "done"

Contract == INSTANCE JobContract WITH
    phase <- [k \in Keys |-> PhaseOf(job[k].status)],
    runs <- issued,
    MaxRuns <- MaxAttempts

\* The queue implements JobContract: at most max_attempts leases per row, never
\* one for a row that has ended, whatever operators and late workers do.
ContractHolds == Contract!Spec

=============================================================================

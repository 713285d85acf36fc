----------------------------- MODULE RenderJobs -----------------------------
(***************************************************************************)
(* One render job of media production with its executions, retries, shot   *)
(* re-renders and manual decisions (modules/media/render_service.py and    *)
(* render_retry_service.py). The store is locked for each of its methods   *)
(* only: a command takes a copy of the job, works on it and writes it      *)
(* back, so that the commands of several workers overwrite each other.     *)
(*                                                                         *)
(* The job's inputs and output profile are fixed, as in a job; expected    *)
(* versions are those the command read; a schedule may fall due at any     *)
(* time; events, audit rows and remembered answers are left out.           *)
(***************************************************************************)
EXTENDS Integers, FiniteSets

CONSTANTS
    RenderWorkers,
    MaxTries,       \* max_attempts the job starts with
    OtherMaxima,    \* max_attempts that reports of a failure give instead
    MaxRenders,     \* bound on the executions that are counted
    RenderCodes,    \* error codes of renderers, storage and reports
    RenderCommands  \* manual commands on the job: a subset of Manual

Manual == {"rerender", "bury", "force", "failed", "dead_letter", "succeeded"}

ASSUME RenderAssumption ==
    /\ MaxTries \in Nat \ {0} /\ OtherMaxima \subseteq Nat \ {0} /\ MaxRenders \in Nat \ {0}
    /\ "none" \notin RenderCodes /\ RenderCommands \subseteq Manual

VARIABLES
    job,        \* the job's row
    objects,    \* private storage: objects by scope
    artifacts,  \* artifacts of the store by scope
    schedules,  \* retry schedules by attempt, each with the code of the failure it is for
    retried,    \* history: the failures whose retry was claimed
    failures,   \* failure facts: attempt and code
    tasks,      \* human tasks by class of failure
    worker      \* what each worker is doing, with its copy of the job

renderVars == <<job, objects, artifacts, schedules, retried, failures, tasks, worker>>

Scopes2 == {"full", "shot"}
JobStates == {"planned", "running", "succeeded", "failed", "unknown", "retry_scheduled", "dead_letter"}
JobType == [status : JobStates, attempt : 0 .. MaxRenders, max : Nat \ {0}, arts : SUBSET Scopes2, pending : BOOLEAN]
NewJob == [status |-> "planned", attempt |-> 0, max |-> MaxTries, arts |-> {}, pending |-> FALSE]

ErrorClasses == {"transient", "deterministic", "unknown"}
NotExecutable == "RENDER_JOB_NOT_EXECUTABLE"  \* the code of a refused execution
Codes == RenderCodes \cup {NotExecutable}
Attempts == 1 .. MaxRenders
Unscheduled == [status |-> "none", code |-> "none"]
ScheduleRows == {Unscheduled} \cup [status : {"scheduled", "claimed", "completed"}, code : Codes]

Resting == [at |-> "idle"]
NoRetry == <<0, "none">>
Unreported == [class |-> "none", code |-> "none", attempt |-> 0, max |-> 0]

RenderTypeOK ==
    /\ job \in JobType
    /\ objects \subseteq Scopes2 /\ artifacts \subseteq Scopes2
    /\ schedules \in [Attempts -> ScheduleRows]
    /\ retried \subseteq Attempts \X Codes /\ failures \subseteq Attempts \X Codes
    /\ tasks \in [ErrorClasses -> {"none", "queued", "completed"}]
    /\ \A w \in RenderWorkers : worker[w] # Resting => worker[w].copy \in JobType

RenderInit ==
    /\ job = NewJob
    /\ objects = {} /\ artifacts = {}
    /\ schedules = [n \in Attempts |-> Unscheduled]
    /\ retried = {} /\ failures = {}
    /\ tasks = [c \in ErrorClasses |-> "none"]
    /\ worker = [w \in RenderWorkers |-> Resting]

At(w, step) == worker[w] # Resting /\ worker[w].at = step
Doing(step, copy, retry, op, report) == [at |-> step, copy |-> copy, retry |-> retry, op |-> op, report |-> report]
Goes(w, step, copy, retry, op) == worker' = [worker EXCEPT ![w] = Doing(step, copy, retry, op, Unreported)]
Files(w, step, copy, report) == worker' = [worker EXCEPT ![w] = Doing(step, copy, NoRetry, "none", report)]
Rests(w) == worker' = [worker EXCEPT ![w] = Resting]

\* _classify_error()
ClassifyError(code) ==
    IF code = "RENDER_RESULT_UNKNOWN" THEN "unknown"
    ELSE IF code \in {"RENDER_TIMEOUT", "STORAGE_UNAVAILABLE"} THEN "transient" ELSE "deterministic"

\* claim_running(): the attempt is counted under the lock, whatever max_attempts says
\* (MaxRenders bounds the model, not the code)
ClaimRunning(w, retry) ==
    /\ job.status = "planned" \/ (retry # NoRetry /\ job.status = "retry_scheduled")
    /\ job.attempt < MaxRenders
    /\ job' = [job EXCEPT !.status = "running", !.attempt = @ + 1]
    /\ Goes(w, "claimed", job', retry, "none")
    /\ UNCHANGED <<objects, artifacts, schedules, retried, failures, tasks>>

\* execute_render_job() of a worker
StartRender(w) == worker[w] = Resting /\ ClaimRunning(w, NoRetry)

\* an execution ends with an error; one that a retry started goes on to record it
EndRender(w, code) ==
    /\ job' = [worker[w].copy EXCEPT !.status = IF code = "RENDER_RESULT_UNKNOWN" THEN "unknown" ELSE "failed"]
    /\ IF worker[w].retry = NoRetry THEN Rests(w) ELSE Goes(w, "failing", NewJob, worker[w].retry, code)

RenderFails(w) ==
    /\ At(w, "claimed") \/ At(w, "stored")
    /\ \E code \in RenderCodes : EndRender(w, code)
    /\ objects' \in {objects, objects \cup {"full"}}
    /\ UNCHANGED <<artifacts, schedules, retried, failures, tasks>>

\* the object is put and the job says where it is to be found
PutObject(w) ==
    /\ At(w, "claimed")
    /\ objects' = objects \cup {"full"}
    /\ job' = [worker[w].copy EXCEPT !.pending = TRUE]
    /\ Goes(w, "stored", job', worker[w].retry, "none")
    /\ UNCHANGED <<artifacts, schedules, retried, failures, tasks>>

\* retry_due() completes the row it claimed, which is the store's unless replaced since
CompletesRetry(retry) ==
    schedules' = IF retry # NoRetry /\ schedules[retry[1]].code = retry[2]
                 THEN [schedules EXCEPT ![retry[1]].status = "completed"] ELSE schedules

\* the object just put, or one an earlier attempt left pending
Confirm(w) ==
    /\ At(w, "stored") \/ (At(w, "claimed") /\ worker[w].copy.pending /\ "full" \in objects)
    /\ artifacts' = artifacts \cup {"full"}
    /\ job' = [worker[w].copy EXCEPT !.status = "succeeded", !.arts = @ \cup {"full"}, !.pending = FALSE]
    /\ CompletesRetry(worker[w].retry)
    /\ Rests(w)
    /\ UNCHANGED <<objects, retried, failures, tasks>>

\* retry_due(): the schedules that are due are read without the lock ...
FindDue(w, n) ==
    /\ worker[w] = Resting
    /\ schedules[n].status = "scheduled"
    /\ Goes(w, "due", NewJob, <<n, "none">>, "none")
    /\ UNCHANGED <<job, objects, artifacts, schedules, retried, failures, tasks>>

ClaimableDue(n) == schedules[n].status = "scheduled"

\* ... and claimed one by one under it, or left to who claimed it first
ClaimDue(w) ==
    LET n == worker[w].retry[1]
        retry == <<n, schedules[n].code>>
    IN /\ At(w, "due")
       /\ IF ClaimableDue(n)
          THEN /\ schedules' = [schedules EXCEPT ![n].status = "claimed"]
               /\ retried' = retried \cup {retry}
               /\ Goes(w, "retrying", NewJob, retry, "none")
          ELSE UNCHANGED <<schedules, retried>> /\ Rests(w)
       /\ UNCHANGED <<job, objects, artifacts, failures, tasks>>

\* the execution of a claimed schedule; a refusal is recorded as a failure too
RunRetry(w) ==
    /\ At(w, "retrying")
    /\ \/ ClaimRunning(w, worker[w].retry)
       \/ /\ job.status = "succeeded"
          /\ CompletesRetry(worker[w].retry)
          /\ Rests(w)
          /\ UNCHANGED <<job, objects, artifacts, retried, failures, tasks>>
       \/ /\ job.status \in {"running", "failed", "unknown", "dead_letter"}
          /\ Goes(w, "failing", NewJob, worker[w].retry, NotExecutable)
          /\ UNCHANGED <<job, objects, artifacts, schedules, retried, failures, tasks>>

Attempt(j) == IF j.attempt = 0 THEN 1 ELSE j.attempt
Failable(j) == j.status # "succeeded" /\ j.arts = {}
FailureReport(class, code, n, max) == [class |-> class, code |-> code, attempt |-> n, max |-> max]

\* record_failure() reads the job: called by the retry, or by a caller who may
\* give any class and code, an earlier attempt and another max_attempts
ReadFailed(w) ==
    /\ \/ /\ worker[w] = Resting /\ Failable(job)
          /\ \E class \in ErrorClasses, code \in RenderCodes, n \in 1 .. Attempt(job), max \in OtherMaxima \cup {job.max} :
                Files(w, "filing", job, FailureReport(class, code, n, max))
       \/ /\ At(w, "failing")
          /\ IF Failable(job)
             THEN Files(w, "filing", job, FailureReport(ClassifyError(worker[w].op), worker[w].op, Attempt(job), job.max))
             ELSE Rests(w)
    /\ UNCHANGED <<job, objects, artifacts, schedules, retried, failures, tasks>>

\* ... files the fact under the lock, unless this code was filed of this attempt ...
FileFailure(w) ==
    LET r == worker[w].report IN
    /\ At(w, "filing")
    /\ IF <<r.attempt, r.code>> \in failures
       THEN UNCHANGED failures /\ Rests(w)
       ELSE failures' = failures \cup {<<r.attempt, r.code>>} /\ Files(w, "filed", worker[w].copy, r)
    /\ UNCHANGED <<job, objects, artifacts, schedules, retried, tasks>>

AfterFailure(r) ==
    CASE r.class = "deterministic" -> "failed"
      [] r.class = "unknown" -> "unknown"
      [] r.class = "transient" /\ r.attempt >= r.max -> "dead_letter"
      [] OTHER -> "retry_scheduled"

\* ... puts the schedule, in place of an earlier one of the attempt, or a human task ...
AnswerFailure(w) ==
    LET r == worker[w].report
        status == AfterFailure(r)
    IN /\ At(w, "filed")
       /\ schedules' = IF status # "retry_scheduled" THEN schedules
                       ELSE [schedules EXCEPT ![r.attempt] = [status |-> "scheduled", code |-> r.code]]
       /\ tasks' = IF status \in {"unknown", "dead_letter"} /\ tasks[r.class] = "none"
                   THEN [tasks EXCEPT ![r.class] = "queued"] ELSE tasks
       /\ Files(w, "saving", worker[w].copy, r)
       /\ UNCHANGED <<job, objects, artifacts, retried, failures>>

\* ... and writes its copy back with the decision
SaveFailure(w) ==
    LET r == worker[w].report IN
    /\ At(w, "saving")
    /\ job' = [worker[w].copy EXCEPT !.status = AfterFailure(r), !.max = r.max]
    /\ Rests(w)
    /\ UNCHANGED <<objects, artifacts, schedules, retried, failures, tasks>>

\* the other commands on the job: each may be called on the job as it is ...
MayBegin(op) ==
    CASE op = "rerender" -> job.status \notin {"running", "unknown", "dead_letter"} /\ "shot" \notin artifacts
      [] op = "bury" -> Failable(job) /\ job.status # "unknown" /\ job.attempt >= job.max
      [] op = "force" -> Failable(job)
      [] op \in {"failed", "dead_letter"} -> job.status = "unknown"
      [] op = "succeeded" -> job.status = "unknown" /\ job.arts # {}

BeginCommand(w, op) ==
    /\ worker[w] = Resting
    /\ MayBegin(op)
    /\ Goes(w, "deciding", job, NoRetry, op)
    /\ UNCHANGED <<job, objects, artifacts, schedules, retried, failures, tasks>>

\* rerender_shot() renders the shot, or confirms the object there is
RerenderShot(w) ==
    /\ At(w, "deciding") /\ worker[w].op = "rerender"
    /\ Rests(w)
    /\ UNCHANGED <<schedules, retried, failures, tasks>>
    /\ \/ /\ objects' = objects \cup {"shot"}
          /\ artifacts' = artifacts \cup {"shot"}
          /\ job' = [worker[w].copy EXCEPT !.arts = @ \cup {"shot"}]
       \/ /\ objects' \in {objects, objects \cup {"shot"}}
          /\ UNCHANGED <<job, artifacts>>

\* dead_letter() and resolve_unknown() write their copy with the decision
Decide(w) ==
    LET op == worker[w].op IN
    /\ At(w, "deciding") /\ op # "rerender"
    /\ job' = [worker[w].copy EXCEPT !.status = IF op \in {"bury", "force"} THEN "dead_letter" ELSE op]
    /\ tasks' = IF op \in {"bury", "force"} \/ tasks["unknown"] = "none" THEN tasks
                ELSE [tasks EXCEPT !["unknown"] = "completed"]
    /\ Rests(w)
    /\ UNCHANGED <<objects, artifacts, schedules, retried, failures>>

RenderNext ==
    \E w \in RenderWorkers :
        \/ StartRender(w) \/ RenderFails(w) \/ PutObject(w) \/ Confirm(w)
        \/ \E n \in Attempts : FindDue(w, n)
        \/ ClaimDue(w) \/ RunRetry(w)
        \/ ReadFailed(w) \/ FileFailure(w) \/ AnswerFailure(w) \/ SaveFailure(w)
        \/ \E op \in RenderCommands : BeginCommand(w, op)
        \/ RerenderShot(w) \/ Decide(w)

-----------------------------------------------------------------------------
(* However the copies overwrite each other, a job says it succeeded only   *)
(* with an artifact, every artifact it names is in the store and every one *)
(* of the store was put into storage: a success can always be shown.       *)
SuccessBacked ==
    /\ job.status = "succeeded" => job.arts # {}
    /\ job.arts \subseteq artifacts /\ artifacts \subseteq objects

(* A failure of another code makes the attempt due again while its retry    *)
(* is still carried out. Yet no failure is retried twice: a retry that is  *)
(* due was never claimed before, and two workers never carry out the same. *)
Retries(w) == worker[w] # Resting /\ worker[w].at # "due" /\ worker[w].retry # NoRetry

RetriedOnce ==
    /\ \A n \in Attempts : schedules[n].status = "scheduled" => <<n, schedules[n].code>> \notin retried
    /\ \A v, w \in RenderWorkers : (v # w /\ Retries(v) /\ Retries(w)) => worker[v].retry # worker[w].retry
=============================================================================

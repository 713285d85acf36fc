--------------------------- MODULE WorkerRuntime ---------------------------
(***************************************************************************)
(* apps/worker/runtime.py: worker processes that claim a batch of leases,  *)
(* run one handler after the other and settle each lease through the task  *)
(* queue.  A queue command that raises escapes run_once and ends the       *)
(* process, with the rest of its batch still leased; a supervisor starts   *)
(* it again.  Handlers are the domain's: here one performs a single        *)
(* external effect, says "transient" or "deterministic" only before it,    *)
(* and may stop the clock-watching checkpoints for a while.                *)
(***************************************************************************)
EXTENDS TaskQueue

CONSTANTS
    WorkerCode,         \* the error code of every failure a worker reports
    Unhandled,          \* rows whose job type has no registered handler
    Timeout,            \* execution_timeout_seconds
    Beat,               \* heartbeat_interval_seconds
    Disturbances,       \* kinds of disturbances that may happen
    DisturbanceLimit    \* bound on how many of them do

ASSUME RowsAssumption == IsFiniteSet(Keys)
ASSUME WorkerCodeAssumption == WorkerCode \in Codes
ASSUME UnhandledAssumption == Unhandled \subseteq Keys
ASSUME TimingAssumption ==
    /\ Timeout \in Nat /\ Timeout > 0
    /\ Beat \in Nat /\ Beat > 0
ASSUME DisturbanceAssumption ==
    /\ Disturbances \subseteq {"crash", "stop", "pause", "late"}
    /\ DisturbanceLimit \in Nat

VARIABLES
    worker,         \* [Workers -> the process's position, batch and controls]
    effects,        \* [Keys -> external effects handlers performed for the row]
    disturbed       \* the kinds of disturbances that have happened

wvars == <<vars, worker, effects, disturbed>>

\* A lease a worker received from claim: the row and its token.
Grants == [key : Keys, token : Nat]

Fresh == [pc |-> "idle", batch |-> <<>>, deadline |-> 0, beat |-> 0,
          acted |-> FALSE, stop |-> FALSE]

WInit ==
    /\ Init
    /\ worker = [w \in Workers |-> Fresh]
    /\ effects = [k \in Keys |-> 0]
    /\ disturbed = {}

Mine(w) == Head(worker[w].batch)
At(w, pc) == worker[w].pc = pc
Running(w, k) == At(w, "handler") /\ Mine(w).key = k

-----------------------------------------------------------------------------
(* The loop *)

\* run_once: claim up to the capacity.  The queue picks the order of the batch.
Poll(w) ==
    /\ At(w, "idle")
    /\ ~worker[w].stop
    /\ \E n \in 1..BatchSize : Claim(w, n)
    /\ LET claimed == {k \in Keys : issued'[k] # issued[k]}
       IN  \E order \in [1..Cardinality(claimed) -> claimed] :
            /\ \A i, j \in DOMAIN order : order[i] = order[j] => i = j
            /\ worker' = [worker EXCEPT
                   ![w].pc = IF claimed = {} THEN "idle" ELSE "batch",
                   ![w].batch = [i \in DOMAIN order |->
                        [key |-> order[i], token |-> issued'[order[i]]]]]
    /\ UNCHANGED <<effects, disturbed>>

\* The process is done with the head of its batch.
Proceed(w) ==
    worker' = [worker EXCEPT
        ![w] = [@ EXCEPT !.batch = Tail(worker[w].batch), !.acted = FALSE,
                         !.deadline = 0, !.beat = 0,
                         !.pc = IF Len(worker[w].batch) = 1 THEN "idle" ELSE "batch"]]

\* An exception escapes run_once, or the process is killed: its leases stay.
Dies(w) ==
    /\ worker' = [worker EXCEPT ![w] = [Fresh EXCEPT !.pc = "down"]]
    /\ UNCHANGED vars

Valid(w) == ValidLease(Mine(w).key, w, Mine(w).token)

\* _fail: record the failure of the held lease, or raise.
Settle(w, class) ==
    /\ IF Valid(w)
       THEN /\ \E delay \in Delays :
                   Fail(Mine(w).key, w, Mine(w).token, class, WorkerCode, delay)
            /\ Proceed(w)
       ELSE Dies(w)
    /\ UNCHANGED <<effects, disturbed>>

\* Seeded faults: a job type without a handler counts as done; a stopping
\* worker keeps its batch.
BeginSkipsUnknownType(w) ==
    /\ At(w, "batch")
    /\ IF Mine(w).key \in Unhandled
       THEN Complete(Mine(w).key, w, Mine(w).token) /\ Proceed(w)
       ELSE /\ Start(Mine(w).key, w, Mine(w).token)
            /\ worker' = [worker EXCEPT ![w].pc = "handler", ![w].deadline = Timeout]
    /\ UNCHANGED <<effects, disturbed>>

BeginKeepsBatch(w) ==
    /\ At(w, "batch")
    /\ ~worker[w].stop
    /\ IF Valid(w)
       THEN /\ Start(Mine(w).key, w, Mine(w).token)
            /\ worker' = [worker EXCEPT ![w].pc = "handler", ![w].deadline = Timeout]
       ELSE Dies(w)
    /\ UNCHANGED <<effects, disturbed>>

\* _execute before the handler: a stopping worker hands the lease back, an
\* unknown job type fails for good, and a lost lease raises.
Begin(w) ==
    /\ At(w, "batch")
    /\ CASE worker[w].stop -> Settle(w, "transient")
         [] ~worker[w].stop /\ Mine(w).key \in Unhandled -> Settle(w, "deterministic")
         [] OTHER ->
            /\ IF Valid(w) /\ job[Mine(w).key].status = "leased"
               THEN /\ Start(Mine(w).key, w, Mine(w).token)
                    /\ worker' = [worker EXCEPT ![w].pc = "handler",
                                                ![w].deadline = Timeout]
               ELSE Dies(w)
            /\ UNCHANGED <<effects, disturbed>>

-----------------------------------------------------------------------------
(* The handler *)

\* The handler performs its external effect.
Act(w) ==
    /\ At(w, "handler")
    /\ ~worker[w].acted
    /\ worker' = [worker EXCEPT ![w].acted = TRUE]
    /\ effects' = [effects EXCEPT ![Mine(w).key] = @ + 1]
    /\ UNCHANGED <<vars, disturbed>>

\* Seeded fault: the heartbeat is noted and not sent.
CheckpointUnsent(w) ==
    /\ At(w, "handler")
    /\ IF worker[w].deadline = 0 THEN Settle(w, "unknown")
       ELSE /\ worker[w].beat >= Beat
            /\ worker' = [worker EXCEPT ![w].beat = 0]
            /\ UNCHANGED <<vars, effects, disturbed>>

\* checkpoint(): the timeout comes first, then shutdown, then the heartbeat; a
\* heartbeat on a lost lease raises, and so does recording that failure.
Checkpoint(w) ==
    /\ At(w, "handler")
    /\ CASE worker[w].deadline = 0 -> Settle(w, "unknown")
         [] worker[w].deadline > 0 /\ worker[w].stop -> Settle(w, "transient")
         [] OTHER ->
            /\ worker[w].beat >= Beat
            /\ IF Valid(w)
               THEN /\ Heartbeat(Mine(w).key, w, Mine(w).token)
                    /\ worker' = [worker EXCEPT ![w].beat = 0]
               ELSE Dies(w)
            /\ UNCHANGED <<effects, disturbed>>

\* Seeded fault: a failed handler is run again under the same lease.
RaiseRetriesInline(w) ==
    /\ At(w, "handler")
    /\ worker[w].acted
    /\ worker' = [worker EXCEPT ![w].acted = FALSE]
    /\ UNCHANGED <<vars, effects, disturbed>>

\* The handler raises.
Raise(w) ==
    /\ At(w, "handler")
    /\ \E class \in ErrorClasses :
        /\ worker[w].acted => class = "unknown"
        /\ Settle(w, class)

\* The handler returns: too late is an unknown result, else the job completes.
Return(w) ==
    /\ At(w, "handler")
    /\ worker[w].acted
    /\ IF worker[w].deadline = 0 THEN Settle(w, "unknown")
       ELSE /\ IF Valid(w)
               THEN Complete(Mine(w).key, w, Mine(w).token) /\ Proceed(w)
               ELSE Dies(w)
            /\ UNCHANGED <<effects, disturbed>>

-----------------------------------------------------------------------------
(* The environment *)

Disturb(kind) ==
    /\ kind \in Disturbances \ disturbed
    /\ Cardinality(disturbed) < DisturbanceLimit
    /\ disturbed' = disturbed \cup {kind}
    /\ UNCHANGED effects

\* The process is killed at any point.
Crash(w) ==
    /\ Disturb("crash")
    /\ ~At(w, "down")
    /\ Dies(w)

\* SIGTERM sets the shutdown token.
RequestStop(w) ==
    /\ Disturb("stop")
    /\ ~At(w, "down")
    /\ ~worker[w].stop
    /\ worker' = [worker EXCEPT ![w].stop = TRUE]
    /\ UNCHANGED vars

\* run_until_stopped sees the token between two ticks and returns.
Exit(w) ==
    /\ At(w, "idle")
    /\ worker[w].stop
    /\ Dies(w)
    /\ UNCHANGED <<effects, disturbed>>

\* The supervisor starts the process again.
Restart(w) ==
    /\ At(w, "down")
    /\ worker' = [worker EXCEPT ![w] = Fresh]
    /\ UNCHANGED <<vars, effects, disturbed>>

Pause ==
    /\ Disturb("pause")
    /\ ~paused
    /\ SetPaused
    /\ UNCHANGED worker

Release ==
    /\ paused
    /\ SetPaused
    /\ UNCHANGED <<worker, effects, disturbed>>

\* From now on processes and handlers may let time pass when they should act.
TurnLate ==
    /\ Disturb("late")
    /\ UNCHANGED <<vars, worker>>

\* The process has something to do now: a lease to begin with or one waiting
\* behind it, a heartbeat to send, or a handler that is out of time.
Pressing(w) ==
    \/ At(w, "batch")
    \/ Len(worker[w].batch) > 1
    \/ At(w, "handler") /\ (worker[w].beat >= Beat \/ worker[w].deadline = 0)

\* Time passes for the tables and for the running handlers.  A heartbeat
\* overdue by more is the same as one that is due.
WTick ==
    /\ "late" \in disturbed \/ \A w \in Workers : ~Pressing(w)
    /\ Tick
    /\ worker' = [w \in Workers |->
            IF At(w, "handler")
            THEN [worker[w] EXCEPT !.deadline = Dec(@),
                                   !.beat = IF @ < Beat THEN @ + 1 ELSE @]
            ELSE worker[w]]
    /\ UNCHANGED <<effects, disturbed>>

WEnqueue ==
    /\ \E k \in Keys, a \in Aggregates, wait \in 0..MaxWait : Enqueue(k, a, wait)
    /\ UNCHANGED <<worker, effects, disturbed>>

\* Operators requeue or replay what has ended, and reviews are completed.
Operate ==
    /\ \/ \E k, new \in Keys : RequeueDead(k, new) \/ Replay(k, new)
       \/ \E a \in Aggregates : CompleteReview(a)
    /\ UNCHANGED <<worker, effects, disturbed>>

Handle(w) == Checkpoint(w) \/ Raise(w) \/ Return(w)

WNext ==
    \/ WEnqueue
    \/ \E w \in Workers :
        \/ Poll(w) \/ Begin(w) \/ Act(w) \/ Checkpoint(w) \/ Raise(w) \/ Return(w)
        \/ Crash(w) \/ RequestStop(w) \/ Exit(w) \/ Restart(w)
    \/ Pause \/ Release \/ TurnLate
    \/ Operate
    \/ WTick

WSpec == WInit /\ [][WNext]_wvars

\* Processes keep looping and are restarted, handlers end by returning, raising
\* or noticing the deadline, a drill is released, and time passes.
Fairness ==
    /\ \A w \in Workers :
        /\ WF_wvars(Poll(w)) /\ WF_wvars(Begin(w)) /\ WF_wvars(Handle(w))
        /\ WF_wvars(Exit(w)) /\ WF_wvars(Restart(w))
    /\ WF_wvars(Release)
    /\ WF_wvars(WTick)

LiveSpec == WSpec /\ Fairness

-----------------------------------------------------------------------------
(* Properties *)

WTypeOK ==
    /\ TypeOK
    /\ worker \in [Workers ->
            [pc : {"idle", "batch", "handler", "down"}, batch : Seq(Grants),
             deadline : 0..Timeout, beat : 0..Beat, acted : BOOLEAN, stop : BOOLEAN]]
    /\ effects \in [Keys -> Nat]
    /\ disturbed \subseteq Disturbances

\* Unless some process or handler is late, a row's handler runs in one process
\* at a time, and while it runs the row is running, in that process's name and
\* under its token: heartbeats renew the lease in time, whatever crashes.
ExclusiveHandler ==
    "late" \notin disturbed => \A w \in Workers, k \in Keys : Running(w, k) =>
        /\ job[k].status = "running" /\ job[k].by = w
        /\ lease[k].token = Mine(w).token
        /\ \A v \in Workers \ {w} : ~Running(v, k)

\* Even where handlers outlive their leases, a row's effect is performed at
\* most once per lease token, so never more than max_attempts times. Unless a
\* process was killed, shut down or late, it is performed once: every end of a
\* handler that has acted is a success or an unknown result, and neither is run
\* again.
EffectsKept == \A k \in Keys :
    /\ effects[k] <= issued[k] /\ issued[k] <= MaxAttempts
    /\ disturbed \subseteq {"pause"} => effects[k] <= 1

\* A succeeded job has performed its effect, whichever process completed it,
\* and no job does so after its result was recorded as unknown.
SuccessActed ==
    \A k \in Keys : job[k].status = "succeeded" => effects[k] > 0 /\ ~HasUnknown(k)

\* A handler that is out of time ends in an unknown result and its review,
\* since its effect may have happened.
TimeoutIsUnknown ==
    [][\A w \in Workers, k \in Keys :
        (/\ Running(w, k) /\ worker[w].acted /\ worker[w].deadline = 0
         /\ worker'[w].pc # "handler")
        => HasUnknown(k)']_wvars

Settled(k) == job[k].status \in {"succeeded", "failed", "dead_letter"}

\* Every job that is enqueued is settled: crashes, lost leases and shutdowns
\* use up its attempts and no more.
EventuallySettled == \A k \in Keys : (job[k].status = "queued") ~> Settled(k)

\* A worker that was asked to stop ends.
StopDrains == \A w \in Workers : worker[w].stop ~> At(w, "down")

=============================================================================

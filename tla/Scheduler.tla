------------------------------ MODULE Scheduler ------------------------------
(***************************************************************************)
(* The in-memory scheduler (apps/scheduler/service.py). Only claim_due()   *)
(* takes the lock; pause, resume, retire and complete read and check the   *)
(* job and its state and then write, so each is a step that checks and a   *)
(* step that writes, and a claim is the step that takes its snapshot of    *)
(* the jobs and the step that leases one.                                  *)
(*                                                                         *)
(* Left out: tenants, the replay of a command under its idempotency key    *)
(* (it changes nothing), and claims of more than one job at a time. A cron *)
(* expression is one field that matches the multiples of its step.         *)
(***************************************************************************)
EXTENDS Integers, FiniteSets

CONSTANTS
    SchedJobs,      \* identifiers of jobs
    SchedWorkers,   \* threads that call the service
    Schedules,      \* the schedules jobs are created with
    LeaseTicks,     \* lease_seconds
    LastTick,       \* bound of the clock
    MaxSchedVersion \* bound on the version of a job

ASSUME SchedulerBounds ==
    /\ {LeaseTicks, LastTick, MaxSchedVersion} \subseteq Nat \ {0}
    /\ Schedules \subseteq [kind : {"once", "interval", "cron"}, every : Nat \ {0}]

VARIABLES
    tick,        \* the clock
    schedJob,    \* jobs: status and schedule
    schedState,  \* _state: next run, version, lease
    occLock,     \* _locks: holder and expiry by job and occurrence
    completed,   \* _completed
    schedCall,   \* what a thread has read of the call it is in
    handed       \* history: leases returned to workers and not yet given back

schedVars == <<tick, schedJob, schedState, occLock, completed, schedCall, handed>>

Ticks == 0 .. LastTick
NoLease == [worker |-> "none", occ |-> 0, until |-> 0]
SchedIdle == [at |-> "idle"]

NoJob == [status |-> "absent"]
Live(j) == schedJob[j].status # "absent"

(* next_run_at() and, for a cron field, _cron_match().                     *)
NextRun(s, now) ==
    CASE s.kind = "once"     -> now
      [] s.kind = "interval" -> now + s.every
      [] s.kind = "cron"     -> CHOOSE t \in (now + 1) .. (now + s.every) : t % s.every = 0

SchedTypeOK ==
    /\ tick \in Ticks
    /\ \A j \in SchedJobs : Live(j) =>
         /\ schedJob[j].status \in {"active", "paused", "retired"}
         /\ schedState[j].next \in Nat
         /\ schedState[j].version \in Nat
    /\ \A l \in occLock : l.job \in SchedJobs /\ l.worker \in SchedWorkers
    /\ \A k, l \in occLock : <<k.job, k.occ>> = <<l.job, l.occ>> => k = l

SchedInit ==
    /\ tick = 0
    /\ schedJob = [j \in SchedJobs |-> NoJob]
    /\ schedState = [j \in SchedJobs |-> [next |-> 0, version |-> 0, lease |-> NoLease]]
    /\ occLock = {}
    /\ completed = {}
    /\ schedCall = [w \in SchedWorkers |-> SchedIdle]
    /\ handed = {}

(* create_job(), with or without a first_run_at.                           *)
CreateJob(j, s, first) ==
    /\ ~Live(j)
    /\ schedJob' = [schedJob EXCEPT ![j] = [status |-> "active", schedule |-> s]]
    /\ schedState' = [schedState EXCEPT ![j].next = IF first THEN tick ELSE NextRun(s, tick)]
    /\ UNCHANGED <<tick, occLock, completed, schedCall, handed>>

(* pause(), resume() and retire() up to their first write.                 *)
MayChange(status, action) ==
    CASE action = "pause"  -> status = "active"
      [] action = "resume" -> status = "paused"
      [] action = "retire" -> status # "retired"

CheckChange(w, j, action) ==
    /\ schedCall[w] = SchedIdle
    /\ Live(j)
    /\ schedState[j].version < MaxSchedVersion
    /\ MayChange(schedJob[j].status, action)
    /\ schedCall' = [schedCall EXCEPT ![w] = [at |-> action, job |-> j, row |-> schedJob[j]]]
    /\ UNCHANGED <<tick, schedJob, schedState, occLock, completed, handed>>

StatusOf(action) ==
    CASE action = "pause" -> "paused" [] action = "resume" -> "active" [] action = "retire" -> "retired"

(* _set_status() and resume(): the lease is dropped from the state but the *)
(* lock of the occurrence stays.                                           *)
WriteChange(w) ==
    LET c == schedCall[w] IN
    /\ c.at \in {"pause", "resume", "retire"}
    /\ schedState' = [schedState EXCEPT ![c.job] =
         [next |-> IF c.at = "resume" THEN NextRun(c.row.schedule, tick) ELSE @.next,
          version |-> @.version + 1, lease |-> NoLease]]
    /\ schedJob' = [schedJob EXCEPT ![c.job] = [c.row EXCEPT !.status = StatusOf(c.at)]]
    /\ schedCall' = [schedCall EXCEPT ![w] = SchedIdle]
    /\ UNCHANGED <<tick, occLock, completed, handed>>

(* claim_due(): having read the clock it takes the lock and lists the      *)
(* jobs, ...                                                               *)
ClaimList(w, now) ==
    /\ schedCall[w] = SchedIdle
    /\ now <= tick
    /\ \A v \in SchedWorkers : schedCall[v].at # "claim"
    /\ schedCall' = [schedCall EXCEPT ![w] =
         [at |-> "claim", jobs |-> {j \in SchedJobs : schedJob[j].status = "active"}, now |-> now]]
    /\ UNCHANGED <<tick, schedJob, schedState, occLock, completed, handed>>

(* Mutant: a lock that has expired is left in place.                       *)
LocksOfLive(j, occ) == {l \in occLock : l.job = j /\ l.occ = occ /\ l.until > tick}

LocksOf(j, occ) == {l \in occLock : l.job = j /\ l.occ = occ}

(* Mutant: a lock is looked at only if the state still shows a lease.      *)
ClaimableByLease(j, occ, now) ==
    /\ occ <= now
    /\ [job |-> j, occ |-> occ] \notin completed
    /\ schedState[j].lease # NoLease => \A l \in LocksOf(j, occ) : l.until <= now

Claimable(j, occ, now) ==
    /\ occ <= now
    /\ [job |-> j, occ |-> occ] \notin completed
    /\ \A l \in LocksOf(j, occ) : l.until <= now

(* ... and leases one of those whose occurrence is due and free.           *)
ClaimTake(w, j) ==
    LET c == schedCall[w]
        occ == schedState[j].next
        until == c.now + LeaseTicks
    IN  /\ c.at = "claim"
        /\ j \in c.jobs
        /\ Claimable(j, occ, c.now)
        /\ occLock' = (occLock \ LocksOf(j, occ)) \cup
                      {[job |-> j, occ |-> occ, worker |-> w, until |-> until]}
        /\ schedState' = [schedState EXCEPT ![j].version = @ + 1,
                            ![j].lease = [worker |-> w, occ |-> occ, until |-> until]]
        /\ handed' = handed \cup {[job |-> j, occ |-> occ, worker |-> w, until |-> until]}
        /\ schedCall' = [schedCall EXCEPT ![w] = SchedIdle]
        /\ UNCHANGED <<tick, schedJob, completed>>

(* Nothing is due.                                                         *)
ClaimNone(w) ==
    LET c == schedCall[w] IN
    /\ c.at = "claim"
    /\ \A j \in c.jobs : ~Claimable(j, schedState[j].next, c.now)
    /\ schedCall' = [schedCall EXCEPT ![w] = SchedIdle]
    /\ UNCHANGED <<tick, schedJob, schedState, occLock, completed, handed>>

(* complete() up to its first write: the lease the worker presents must be *)
(* the one the state shows, and must not have expired.                     *)
CheckComplete(w, l) ==
    LET held == schedState[l.job].lease IN
    /\ schedCall[w] = SchedIdle
    /\ l \in handed /\ l.worker = w
    /\ held.worker = w /\ held.occ = l.occ
    /\ held.until > tick
    /\ schedCall' = [schedCall EXCEPT ![w] =
         [at |-> "complete", job |-> l.job, row |-> schedJob[l.job], lease |-> l, now |-> tick]]
    /\ UNCHANGED <<tick, schedJob, schedState, occLock, completed, handed>>

(* complete(): the job it read at its start is written back, retired if it *)
(* was to run once.                                                        *)
WriteComplete(w) ==
    LET c == schedCall[w]
        once == c.row.schedule.kind = "once"
    IN  /\ c.at = "complete"
        /\ completed' = completed \cup {[job |-> c.job, occ |-> c.lease.occ]}
        /\ occLock' = occLock \ LocksOf(c.job, c.lease.occ)
        /\ schedState' = [schedState EXCEPT ![c.job] =
             [next |-> IF once THEN @.next ELSE NextRun(c.row.schedule, c.now),
              version |-> @.version + 1, lease |-> NoLease]]
        /\ schedJob' = [schedJob EXCEPT ![c.job] = IF once THEN [c.row EXCEPT !.status = "retired"] ELSE c.row]
        /\ handed' = handed \ {c.lease}
        /\ schedCall' = [schedCall EXCEPT ![w] = SchedIdle]
        /\ UNCHANGED tick

SchedTick ==
    /\ tick < LastTick
    /\ tick' = tick + 1
    /\ UNCHANGED <<schedJob, schedState, occLock, completed, schedCall, handed>>

SchedNext ==
    \/ SchedTick
    \/ \E j \in SchedJobs, s \in Schedules, first \in BOOLEAN : CreateJob(j, s, first)
    \/ \E w \in SchedWorkers :
         \/ WriteChange(w) \/ ClaimNone(w) \/ WriteComplete(w)
         \/ \E now \in Ticks : ClaimList(w, now)
         \/ \E j \in SchedJobs : ClaimTake(w, j)
         \/ \E j \in SchedJobs, a \in {"pause", "resume", "retire"} : CheckChange(w, j, a)
         \/ \E l \in handed : CheckComplete(w, l)

-----------------------------------------------------------------------------

(* One occurrence of a job is never in the hands of two workers whose      *)
(* leases have not expired, although a pause or a resume clears the lease  *)
(* of the job while its worker runs on and nothing but claims is locked.   *)
OneHolder ==
    \A k, l \in handed :
        (k.job = l.job /\ k.occ = l.occ /\ k.until > tick /\ l.until > tick) => k.worker = l.worker
=============================================================================

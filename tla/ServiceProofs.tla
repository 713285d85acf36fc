--------------------------- MODULE ServiceProofs ---------------------------
(***************************************************************************)
(* Work has one taker, and what is on record is so, for every set of jobs, *)
(* workers, runs, events, launches, stages, snapshots, pilots and tests.   *)
(*                                                                         *)
(* What ServicesMC checks as WorkHeld on one instance is proved here of    *)
(* WorkSpec, in which the scheduler, the workflow runs, their outbox and   *)
(* the browser window are each moved by their own commands at any time,    *)
(* and the operator may put other rules at any moment.  What it checks as  *)
(* RecordsKept is proved of RecordsSpec, in which deletions, their plans,  *)
(* recovery drills, pilot runs and evaluations are.  The services share    *)
(* nothing, so that each has an invariant of its own: SchedInv, FlowInv,   *)
(* OutInv and WindowInv; ErasureInv, PlanInv, DrillInv, PilotInv, EvalInv. *)
(***************************************************************************)
EXTENDS ServicesMC, FiniteSetTheorems, SequenceTheorems, WellFoundedInduction, TLAPS

workVars == <<schedVars, workflowVars, dispatchVars, sessionVars>>

WorkInit == SchedInit /\ WorkflowInit /\ DispatchInit /\ SessionInit

WorkNext ==
    \/ SchedNext /\ UNCHANGED <<workflowVars, dispatchVars, sessionVars>>
    \/ WorkflowNext /\ UNCHANGED <<schedVars, dispatchVars, sessionVars>>
    \/ DispatchNext /\ UNCHANGED <<schedVars, workflowVars, sessionVars>>
    \/ SessionNext /\ UNCHANGED <<schedVars, workflowVars, dispatchVars>>

WorkSpec == WorkInit /\ [][WorkNext]_workVars

-----------------------------------------------------------------------------
(* The scheduler. A lease in a worker's hands is one whose occurrence is   *)
(* completed, or that has expired, or whose lock still stands, whatever    *)
(* became of the job meanwhile; and a claim looks at the locks with a      *)
(* clock that is not ahead.                                                *)
ClaimsBehind ==
    /\ DOMAIN schedCall = SchedWorkers
    /\ \A w \in SchedWorkers : schedCall[w].at = "claim" => schedCall[w].now \in Nat /\ schedCall[w].now <= tick

LocksTimed == \A l \in occLock \cup handed : l.until \in Nat

Finished(h) == [job |-> h.job, occ |-> h.occ] \in completed

HandedLocked == \A h \in handed : Finished(h) \/ h.until <= tick \/ h \in occLock

SchedInv ==
    /\ tick \in Nat
    /\ ClaimsBehind
    /\ LocksTimed
    /\ HandedLocked
    /\ OneHolder

LEMMA SchedStarts == SchedInit => SchedInv
  BY DEF SchedInit, SchedInv, ClaimsBehind, LocksTimed, HandedLocked, OneHolder, SchedIdle

(* A claim that takes an occurrence finds every earlier lease of it        *)
(* expired.                                                                *)
LEMMA ClaimAlone ==
    ASSUME SchedInv, NEW w \in SchedWorkers, NEW j \in SchedJobs, ClaimTake(w, j)
    PROVE  \A h \in handed : h.job = j /\ h.occ = schedState[j].next => h.until <= tick
<1> SUFFICES ASSUME NEW h \in handed, h.job = j, h.occ = schedState[j].next, ~(h.until <= tick)
             PROVE  FALSE
  OBVIOUS
<1>1. /\ schedCall[w].at = "claim"
      /\ Claimable(j, schedState[j].next, schedCall[w].now)
  BY DEF ClaimTake
<1>2. schedCall[w].now \in Nat /\ schedCall[w].now <= tick /\ tick \in Nat /\ h.until \in Nat
  BY <1>1 DEF SchedInv, ClaimsBehind, LocksTimed
<1>3. ~Finished(h)
  BY <1>1 DEF Claimable, Finished
<1>4. h \in LocksOf(j, schedState[j].next)
  BY <1>3 DEF SchedInv, HandedLocked, LocksOf
<1>5. h.until <= schedCall[w].now
  BY <1>1, <1>4 DEF Claimable
<1> QED
  BY <1>2, <1>5

LEMMA ClaimTakes ==
    ASSUME SchedInv, NEW w \in SchedWorkers, NEW j \in SchedJobs, ClaimTake(w, j)
    PROVE  SchedInv'
<1> DEFINE occ == schedState[j].next
           new == [job |-> j, occ |-> occ, worker |-> w, until |-> schedCall[w].now + LeaseTicks]
<1>1. /\ schedCall[w].at = "claim"
      /\ occLock' = (occLock \ LocksOf(j, occ)) \cup {new}
      /\ handed' = handed \cup {new}
      /\ schedCall' = [schedCall EXCEPT ![w] = SchedIdle]
      /\ tick' = tick /\ completed' = completed
  BY DEF ClaimTake
<1>2. tick \in Nat /\ schedCall[w].now \in Nat /\ LeaseTicks \in Nat
  BY <1>1, SchedulerBounds DEF SchedInv, ClaimsBehind
<1>3. \A h \in handed : h.job = j /\ h.occ = occ => h.until <= tick
  BY ClaimAlone
<1>4. ClaimsBehind'
  BY <1>1 DEF SchedInv, ClaimsBehind, SchedIdle
<1>5. LocksTimed'
  BY <1>1, <1>2 DEF SchedInv, LocksTimed, LocksOf
<1>6. HandedLocked'
  BY <1>1, <1>3 DEF SchedInv, HandedLocked, Finished, LocksOf
<1>7. OneHolder'
  <2> SUFFICES ASSUME NEW k \in handed', NEW l \in handed', k.job = l.job, k.occ = l.occ,
                      k.until > tick, l.until > tick
               PROVE  k.worker = l.worker
    BY <1>1 DEF OneHolder
  <2>1. (k \in handed \/ k = new) /\ (l \in handed \/ l = new)
    BY <1>1
  <2>2. CASE k \in handed /\ l \in handed
    BY <2>2 DEF SchedInv, OneHolder
  <2>3. CASE k = new /\ l = new
    BY <2>3
  <2>4. CASE k \in handed /\ l = new
    <3>1. k.until <= tick
      BY <2>4, <1>3
    <3> QED
      BY <3>1, <2>4, <1>2 DEF SchedInv, LocksTimed
  <2>5. CASE k = new /\ l \in handed
    <3>1. l.until <= tick
      BY <2>5, <1>3
    <3> QED
      BY <3>1, <2>5, <1>2 DEF SchedInv, LocksTimed
  <2> QED
    BY <2>1, <2>2, <2>3, <2>4, <2>5
<1> QED
  BY <1>1, <1>2, <1>4, <1>5, <1>6, <1>7 DEF SchedInv

LEMMA SchedSteps == ASSUME SchedInv, SchedNext PROVE SchedInv'
<1>1. ASSUME SchedTick PROVE SchedInv'
  BY <1>1 DEF SchedTick, SchedInv, ClaimsBehind, LocksTimed, HandedLocked, Finished, OneHolder
<1>2. ASSUME NEW j \in SchedJobs, NEW s \in Schedules, NEW first \in BOOLEAN, CreateJob(j, s, first)
      PROVE  SchedInv'
  BY <1>2 DEF CreateJob, SchedInv, ClaimsBehind, LocksTimed, HandedLocked, Finished, OneHolder
<1>3. ASSUME NEW w \in SchedWorkers, WriteChange(w) \/ ClaimNone(w)
      PROVE  SchedInv'
  BY <1>3 DEF WriteChange, ClaimNone, SchedInv, ClaimsBehind, LocksTimed, HandedLocked, Finished, OneHolder,
              SchedIdle
<1>4. ASSUME NEW w \in SchedWorkers, WriteComplete(w)
      PROVE  SchedInv'
  <2> DEFINE c == schedCall[w]
  <2>1. /\ completed' = completed \cup {[job |-> c.job, occ |-> c.lease.occ]}
        /\ occLock' = occLock \ LocksOf(c.job, c.lease.occ)
        /\ handed' \subseteq handed
        /\ schedCall' = [schedCall EXCEPT ![w] = SchedIdle]
        /\ tick' = tick
    BY <1>4 DEF WriteComplete
  <2>2. HandedLocked'
    BY <2>1 DEF SchedInv, HandedLocked, Finished, LocksOf
  <2>3. ClaimsBehind' /\ LocksTimed' /\ OneHolder'
    BY <2>1 DEF SchedInv, ClaimsBehind, LocksTimed, OneHolder, SchedIdle
  <2> QED
    BY <2>1, <2>2, <2>3 DEF SchedInv
<1>5. ASSUME NEW w \in SchedWorkers, NEW now \in Ticks, ClaimList(w, now)
      PROVE  SchedInv'
  BY <1>5, SchedulerBounds
     DEF ClaimList, Ticks, SchedInv, ClaimsBehind, LocksTimed, HandedLocked, Finished, OneHolder
<1>6. ASSUME NEW w \in SchedWorkers, NEW j \in SchedJobs, NEW a \in {"pause", "resume", "retire"},
             CheckChange(w, j, a)
      PROVE  SchedInv'
  BY <1>6 DEF CheckChange, SchedInv, ClaimsBehind, LocksTimed, HandedLocked, Finished, OneHolder
<1>7. ASSUME NEW w \in SchedWorkers, NEW l \in handed, CheckComplete(w, l)
      PROVE  SchedInv'
  BY <1>7 DEF CheckComplete, SchedInv, ClaimsBehind, LocksTimed, HandedLocked, Finished, OneHolder
<1> QED
  BY <1>1, <1>2, <1>3, <1>4, <1>5, <1>6, <1>7, ClaimTakes DEF SchedNext

LEMMA SchedKeeps == SchedInv /\ UNCHANGED schedVars => SchedInv'
  BY DEF SchedInv, schedVars, ClaimsBehind, LocksTimed, HandedLocked, Finished, OneHolder

-----------------------------------------------------------------------------
(* Workflow runs. A run that was started has a version, and what the       *)
(* outbox holds of it is numbered by its versions and ends with it; what   *)
(* was told is never taken back, so a pause that an expired task brought   *)
(* about stays told.                                                       *)
RunStates == {"none", "running", "paused", "waiting_human", "succeeded", "failed", "cancelled"}
TaskStates == {"queued", "claimed", "in_progress", "submitted"} \cup Over

RunRow == [status : RunStates, version : Nat]
TaskRow == [status : TaskStates, run : Runs, who : Assignees \cup {NoOne}, due : Nat]

RunsFollowed ==
    /\ run \in [Runs -> RunRow]
    /\ runTold \in [Runs -> Seq(RunRow)]
    /\ \A r \in Runs :
          /\ Len(runTold[r]) = run[r].version
          /\ \A n \in DOMAIN runTold[r] : runTold[r][n].version = n
          /\ runTold[r] # <<>> => runTold[r][Len(runTold[r])] = run[r]
          /\ run[r].status # "none" => run[r].version # 0

TasksFollowed ==
    /\ humanTask \in [HumanTasks -> TaskRow \cup {NoTask}]
    /\ taskTold \in [HumanTasks -> Seq(TaskStates)]
    /\ \A t \in HumanTasks : humanTask[t] # NoTask =>
          taskTold[t] # <<>> /\ taskTold[t][Len(taskTold[t])] = humanTask[t].status

PauseTold(r) == \E n \in DOMAIN runTold[r] : runTold[r][n].status = "paused"

ExpiryTold ==
    \A t \in HumanTasks : humanTask[t] # NoTask /\ humanTask[t].status = "expired" => PauseTold(humanTask[t].run)

FlowInv == RunsFollowed /\ TasksFollowed /\ ExpiryTold

LEMMA FlowStarts == WorkflowInit => FlowInv
<1> SUFFICES ASSUME WorkflowInit PROVE FlowInv
  OBVIOUS
<1>1. RunsFollowed
  BY DEF WorkflowInit, RunsFollowed, RunRow, RunStates
<1>2. TasksFollowed /\ ExpiryTold
  BY DEF WorkflowInit, TasksFollowed, ExpiryTold
<1> QED
  BY <1>1, <1>2 DEF FlowInv

LEMMA FlowTold == FlowInv => RunsTold
  BY DEF FlowInv, RunsFollowed, TasksFollowed, ExpiryTold, PauseTold, RunsTold

(* Whatever a set of runs becomes, it is told in order and nothing of what *)
(* was told is lost.                                                       *)
LEMMA Becoming ==
    ASSUME RunsFollowed, NEW rs, NEW status \in RunStates \ {"none"}, Becomes(rs, status)
    PROVE  /\ RunsFollowed'
           /\ \A r \in Runs : PauseTold(r) => PauseTold(r)'
           /\ \A r \in Runs \cap rs : status = "paused" => PauseTold(r)'
<1> DEFINE row(r) == [status |-> status, version |-> run[r].version + 1]
<1>1. /\ run' = [r \in Runs |-> IF r \in rs THEN row(r) ELSE run[r]]
      /\ runTold' = [r \in Runs |-> IF r \in rs THEN Append(runTold[r], row(r)) ELSE runTold[r]]
  BY DEF Becomes
<1>2. ASSUME NEW r \in Runs
      PROVE  /\ run[r] \in RunRow /\ runTold[r] \in Seq(RunRow) /\ row(r) \in RunRow
             /\ Len(runTold[r]) = run[r].version /\ run[r].version \in Nat
             /\ \A n \in DOMAIN runTold[r] : runTold[r][n].version = n
             /\ runTold[r] # <<>> => runTold[r][Len(runTold[r])] = run[r]
             /\ run[r].status # "none" => run[r].version # 0
  <2>1. run[r] \in RunRow /\ runTold[r] \in Seq(RunRow)
    BY DEF RunsFollowed
  <2>2. run[r].version \in Nat /\ row(r) \in RunRow
    BY <2>1 DEF RunRow
  <2> QED
    BY <2>1, <2>2 DEF RunsFollowed
<1>3. ASSUME NEW r \in Runs
      PROVE  /\ Append(runTold[r], row(r)) \in Seq(RunRow)
             /\ Len(Append(runTold[r], row(r))) = run[r].version + 1
             /\ Append(runTold[r], row(r))[run[r].version + 1] = row(r)
             /\ DOMAIN Append(runTold[r], row(r)) = 1 .. (run[r].version + 1)
             /\ DOMAIN runTold[r] = 1 .. run[r].version
             /\ \A n \in DOMAIN runTold[r] : Append(runTold[r], row(r))[n] = runTold[r][n]
  <2> HIDE DEF row, RunRow
  <2> QED
    BY <1>2, AppendProperties, LenProperties
<1>4. run' \in [Runs -> RunRow] /\ runTold' \in [Runs -> Seq(RunRow)]
  <2> HIDE DEF row, RunRow
  <2> QED
    BY <1>1, <1>2, <1>3
<1>5. ASSUME NEW r \in Runs
      PROVE  /\ Len(runTold'[r]) = run'[r].version
             /\ \A n \in DOMAIN runTold'[r] : runTold'[r][n].version = n
             /\ runTold'[r] # <<>> => runTold'[r][Len(runTold'[r])] = run'[r]
             /\ run'[r].status # "none" => run'[r].version # 0
  <2>1. CASE r \notin rs
    BY <2>1, <1>1, <1>2
  <2>2. CASE r \in rs
    <3>1. run'[r] = row(r) /\ runTold'[r] = Append(runTold[r], row(r))
      BY <2>2, <1>1
    <3>2. run'[r].version = run[r].version + 1 /\ run'[r].version # 0 /\ Len(runTold'[r]) = run'[r].version
      BY <3>1, <1>2, <1>3
    <3>3. ASSUME NEW n \in DOMAIN runTold'[r]
          PROVE  runTold'[r][n].version = n
      <4> DEFINE v == run[r].version
      <4>1. n \in 1 .. (v + 1) /\ v \in Nat /\ DOMAIN runTold[r] = 1 .. v
        BY <3>1, <1>2, <1>3
      <4>2. n = v + 1 \/ n \in 1 .. v
        <5> HIDE DEF v
        <5> QED
          BY <4>1
      <4> QED
        BY <4>1, <4>2, <3>1, <1>2, <1>3
    <3> QED
      BY <3>1, <3>2, <3>3, <1>3
  <2> QED
    BY <2>1, <2>2
<1>6. RunsFollowed'
  BY <1>4, <1>5 DEF RunsFollowed
<1>7. ASSUME NEW r \in Runs, PauseTold(r)
      PROVE  PauseTold(r)'
  <2>1. PICK n \in DOMAIN runTold[r] : runTold[r][n].status = "paused"
    BY <1>7 DEF PauseTold
  <2>2. n \in DOMAIN runTold'[r] /\ runTold'[r][n] = runTold[r][n]
    BY <1>1, <1>2, <1>3
  <2> QED
    BY <2>1, <2>2 DEF PauseTold
<1>8. ASSUME NEW r \in Runs \cap rs, status = "paused"
      PROVE  PauseTold(r)'
  <2>1. /\ run[r].version + 1 \in DOMAIN runTold'[r]
        /\ runTold'[r][run[r].version + 1].status = "paused"
    BY <1>1, <1>2, <1>3, <1>8
  <2> QED
    BY <2>1 DEF PauseTold
<1> QED
  BY <1>6, <1>7, <1>8

(* A run in a status was told to be, so one that is paused was told so.    *)
LEMMA PausedTold ==
    ASSUME RunsFollowed, NEW r \in Runs, run[r].status = "paused"
    PROVE  PauseTold(r)
<1>1. runTold[r] \in Seq(RunRow) /\ Len(runTold[r]) # 0 /\ runTold[r] # <<>>
  BY DEF RunsFollowed
<1>2. Len(runTold[r]) \in DOMAIN runTold[r]
  BY <1>1, LenProperties
<1>3. runTold[r][Len(runTold[r])].status = "paused"
  BY <1>1 DEF RunsFollowed
<1> QED
  BY <1>2, <1>3 DEF PauseTold

(* A task that comes to a status is told to; unless it expires, nothing is *)
(* owed to its run.                                                        *)
LEMMA TaskToBe ==
    ASSUME TasksFollowed, NEW t \in HumanTasks, NEW new \in TaskRow, TaskBecomes(t, new)
    PROVE  /\ TasksFollowed'
           /\ humanTask'[t] = new
           /\ \A u \in HumanTasks \ {t} : humanTask'[u] = humanTask[u]
<1>1. /\ humanTask' = [humanTask EXCEPT ![t] = new]
      /\ taskTold' = [taskTold EXCEPT ![t] = Append(taskTold[t], new.status)]
  BY DEF TaskBecomes
<1>2. /\ humanTask \in [HumanTasks -> TaskRow \cup {NoTask}]
      /\ taskTold \in [HumanTasks -> Seq(TaskStates)]
      /\ new.status \in TaskStates
  BY DEF TasksFollowed, TaskRow
<1>3. /\ Append(taskTold[t], new.status) \in Seq(TaskStates)
      /\ Append(taskTold[t], new.status) # <<>>
      /\ Append(taskTold[t], new.status)[Len(Append(taskTold[t], new.status))] = new.status
  <2> HIDE DEF TaskStates
  <2> QED
    BY <1>2, AppendProperties, LenProperties
<1>4. humanTask' \in [HumanTasks -> TaskRow \cup {NoTask}] /\ taskTold' \in [HumanTasks -> Seq(TaskStates)]
  <2> HIDE DEF TaskStates, TaskRow
  <2> QED
    BY <1>1, <1>2, <1>3
<1>5. TasksFollowed'
  BY <1>1, <1>2, <1>3, <1>4 DEF TasksFollowed
<1> QED
  BY <1>1, <1>2, <1>5

LEMMA TaskMoves ==
    ASSUME FlowInv, NEW t \in HumanTasks, NEW new \in TaskRow, TaskBecomes(t, new),
           new.status # "expired", UNCHANGED <<run, runTold>>
    PROVE  FlowInv'
<1>1. RunsFollowed'
  BY DEF FlowInv, RunsFollowed
<1>2. /\ TasksFollowed'
      /\ humanTask'[t] = new
      /\ \A u \in HumanTasks \ {t} : humanTask'[u] = humanTask[u]
  BY TaskToBe DEF FlowInv
<1>3. ExpiryTold'
  BY <1>2 DEF FlowInv, ExpiryTold, PauseTold
<1> QED
  BY <1>1, <1>2, <1>3 DEF FlowInv

LEMMA RunMoves ==
    ASSUME FlowInv, NEW rs, NEW status \in RunStates \ {"none"}, Becomes(rs, status),
           UNCHANGED <<humanTask, taskTold>>
    PROVE  FlowInv'
<1>1. RunsFollowed' /\ \A r \in Runs : PauseTold(r) => PauseTold(r)'
  BY Becoming DEF FlowInv
<1>2. TasksFollowed'
  BY DEF FlowInv, TasksFollowed
<1>3. ASSUME NEW t \in HumanTasks, humanTask'[t] # NoTask, humanTask'[t].status = "expired"
      PROVE  PauseTold(humanTask[t].run)'
  <2>1. humanTask[t] \in TaskRow /\ humanTask'[t] = humanTask[t]
    BY <1>3 DEF FlowInv, TasksFollowed
  <2>2. humanTask[t].run \in Runs /\ PauseTold(humanTask[t].run)
    BY <2>1, <1>3 DEF FlowInv, ExpiryTold, TaskRow
  <2>3. PauseTold(humanTask[t].run)'
    BY <2>2, <1>1
  <2> QED
    BY <2>3
<1>4. ExpiryTold'
  BY <1>3 DEF ExpiryTold
<1> QED
  BY <1>1, <1>2, <1>4 DEF FlowInv

(* The tasks that are due expire and are told to, and their runs pause.    *)
LEMMA TasksExpire ==
    ASSUME FlowInv, NEW now \in DueDays, ExpireDue(now)
    PROVE  FlowInv'
<1> DEFINE due == DueTasks(now)
           rs == {r \in {humanTask[t].run : t \in due} : run[r].status # "paused"}
<1>1. /\ humanTask' = [t \in HumanTasks |-> IF t \in due THEN [humanTask[t] EXCEPT !.status = "expired"]
                                            ELSE humanTask[t]]
      /\ taskTold' = [t \in HumanTasks |-> IF t \in due THEN Append(taskTold[t], "expired") ELSE taskTold[t]]
      /\ Becomes(rs, "paused")
  BY DEF ExpireDue, PauseRuns
<1>2. /\ RunsFollowed'
      /\ \A r \in Runs : PauseTold(r) => PauseTold(r)'
      /\ \A r \in Runs \cap rs : PauseTold(r)'
  <2>1. "paused" \in RunStates \ {"none"} /\ RunsFollowed
    BY DEF RunStates, FlowInv
  <2> HIDE DEF rs
  <2> QED
    BY <2>1, <1>1, Becoming
<1>3. ASSUME NEW t \in due
      PROVE  /\ t \in HumanTasks /\ humanTask[t] \in TaskRow
             /\ humanTask[t].run \in Runs
             /\ [humanTask[t] EXCEPT !.status = "expired"] \in TaskRow
             /\ [humanTask[t] EXCEPT !.status = "expired"].status = "expired"
             /\ [humanTask[t] EXCEPT !.status = "expired"].run = humanTask[t].run
  <2>1. t \in HumanTasks /\ humanTask[t] \in TaskRow
    BY DEF DueTasks, FlowInv, TasksFollowed
  <2>2. "expired" \in TaskStates
    BY DEF TaskStates, Over
  <2> QED
    BY <2>1, <2>2 DEF TaskRow
<1>4. ASSUME NEW t \in due
      PROVE  /\ Append(taskTold[t], "expired") \in Seq(TaskStates)
             /\ Append(taskTold[t], "expired") # <<>>
             /\ Append(taskTold[t], "expired")[Len(Append(taskTold[t], "expired"))] = "expired"
  <2>1. taskTold[t] \in Seq(TaskStates) /\ "expired" \in TaskStates
    BY <1>3 DEF FlowInv, TasksFollowed, TaskStates, Over
  <2> HIDE DEF TaskStates
  <2> QED
    BY <2>1, AppendProperties, LenProperties
<1>5. TasksFollowed'
  <2>1. /\ humanTask \in [HumanTasks -> TaskRow \cup {NoTask}]
        /\ taskTold \in [HumanTasks -> Seq(TaskStates)]
    BY DEF FlowInv, TasksFollowed
  <2>2. humanTask' \in [HumanTasks -> TaskRow \cup {NoTask}] /\ taskTold' \in [HumanTasks -> Seq(TaskStates)]
    <3> HIDE DEF due, TaskRow, TaskStates
    <3> QED
      BY <2>1, <1>1, <1>3, <1>4
  <2>3. ASSUME NEW t \in HumanTasks, humanTask'[t] # NoTask
        PROVE  taskTold'[t] # <<>> /\ taskTold'[t][Len(taskTold'[t])] = humanTask'[t].status
    <3>1. CASE t \in due
      <4> HIDE DEF due
      <4> QED
        BY <3>1, <1>1, <1>3, <1>4
    <3>2. CASE t \notin due
      <4> HIDE DEF due
      <4> QED
        BY <3>2, <2>3, <1>1 DEF FlowInv, TasksFollowed
    <3> QED
      BY <3>1, <3>2
  <2> QED
    BY <2>2, <2>3 DEF TasksFollowed
<1>6. ASSUME NEW t \in HumanTasks, humanTask'[t] # NoTask, humanTask'[t].status = "expired"
      PROVE  PauseTold(humanTask[t].run)' 
  <2>1. CASE t \in due
    <3>1. humanTask'[t].run = humanTask[t].run /\ humanTask[t].run \in Runs
      BY <2>1, <1>1, <1>3
    <3>2. CASE humanTask[t].run \in rs
      BY <3>1, <3>2, <1>2 DEF PauseTold
    <3>3. CASE run[humanTask[t].run].status = "paused"
      <4>1. PauseTold(humanTask[t].run)
        BY <3>1, <3>3, PausedTold DEF FlowInv
      <4> QED
        BY <4>1, <3>1, <1>2 DEF PauseTold
    <3> QED
      BY <2>1, <3>2, <3>3
  <2>2. CASE t \notin due
    <3>1. humanTask'[t] = humanTask[t] /\ humanTask[t] \in TaskRow
      BY <2>2, <1>1, <1>6 DEF FlowInv, TasksFollowed
    <3>2. humanTask[t].run \in Runs /\ PauseTold(humanTask[t].run)
      BY <3>1, <1>6 DEF FlowInv, ExpiryTold, TaskRow
    <3> QED
      BY <3>1, <3>2, <1>2 DEF PauseTold
  <2> QED
    BY <2>1, <2>2
<1>7. ExpiryTold'
  BY <1>6 DEF ExpiryTold
<1> QED
  BY <1>2, <1>5, <1>7 DEF FlowInv

(* The statuses a command may name.                                        *)
LEMMA Named ==
    /\ \A pair \in Transitions : pair[2] \in RunStates \ {"none"}
    /\ \A step \in TaskSteps : step[2] \in TaskStates \ {"expired"}
    /\ "running" \in RunStates \ {"none"}
    /\ {"queued", "claimed"} \subseteq TaskStates \ {"expired"}
  BY DEF Transitions, TaskSteps, RunStates, TaskStates, Over

LEMMA FlowSteps == ASSUME FlowInv, WorkflowNext PROVE FlowInv'
<1>1. ASSUME NEW r \in Runs, StartRun(r)
      PROVE  FlowInv'
  BY <1>1, Named, RunMoves DEF StartRun
<1>2. ASSUME NEW r \in Runs, NEW to \in {pair[2] : pair \in Transitions}, MoveRun(r, to)
      PROVE  FlowInv'
  BY <1>2, Named, RunMoves DEF MoveRun
<1>3. ASSUME NEW r \in Runs, NEW from \in Runs, ReplayRun(from, r)
      PROVE  FlowInv'
  BY <1>3, Named, RunMoves DEF ReplayRun
<1>4. ASSUME NEW t \in HumanTasks, NEW r \in Runs, NEW due \in DueDays, CreateTask(t, r, due)
      PROVE  FlowInv'
  <2> DEFINE new == [status |-> "queued", run |-> r, who |-> NoOne, due |-> due]
  <2>1. new \in TaskRow /\ new.status # "expired"
    BY Named, WorkflowBounds DEF TaskRow
  <2>2. TaskBecomes(t, new) /\ UNCHANGED <<run, runTold>>
    BY <1>4 DEF CreateTask
  <2> QED
    BY <2>1, <2>2, TaskMoves
<1>5. ASSUME NEW t \in HumanTasks, NEW a \in Assignees, ClaimTask(t, a)
      PROVE  FlowInv'
  <2> DEFINE new == [humanTask[t] EXCEPT !.status = "claimed", !.who = a]
  <2>1. humanTask[t].status = "queued" /\ TaskBecomes(t, new) /\ UNCHANGED <<run, runTold>>
    BY <1>5 DEF ClaimTask
  <2>2. humanTask[t] \in TaskRow
    BY <2>1 DEF FlowInv, TasksFollowed, NoTask
  <2>3. new \in TaskRow /\ new.status # "expired"
    BY <2>2, Named DEF TaskRow
  <2> QED
    BY <2>1, <2>3, TaskMoves
<1>6. ASSUME NEW t \in HumanTasks, NEW a \in Assignees, NEW reviewer \in BOOLEAN,
             NEW to \in {step[2] : step \in TaskSteps}, UpdateTask(t, a, reviewer, to)
      PROVE  FlowInv'
  <2> DEFINE new == [humanTask[t] EXCEPT !.status = to]
  <2>1. humanTask[t] # NoTask /\ TaskBecomes(t, new) /\ UNCHANGED <<run, runTold>>
    BY <1>6 DEF UpdateTask
  <2>2. humanTask[t] \in TaskRow
    BY <2>1 DEF FlowInv, TasksFollowed
  <2>3. to \in TaskStates /\ to # "expired"
    BY Named
  <2>4. new \in TaskRow /\ new.status # "expired"
    BY <2>2, <2>3 DEF TaskRow
  <2> QED
    BY <2>1, <2>4, TaskMoves
<1> QED
  BY <1>1, <1>2, <1>3, <1>4, <1>5, <1>6, TasksExpire DEF WorkflowNext

LEMMA FlowKeeps == FlowInv /\ UNCHANGED workflowVars => FlowInv'
  BY DEF FlowInv, workflowVars, RunsFollowed, TasksFollowed, ExpiryTold, PauseTold

-----------------------------------------------------------------------------
(* The outbox of the workflows. What the publisher has not answered is     *)
(* still to be published, and what it took and was not published asked for *)
(* a job that another one stands in the way of, which is never removed.    *)
PostFields == {"status", "tries", "until", "key", "payload", "source"}

PostsKept ==
    /\ post = [j \in Posts |-> post[j]]
    /\ \A j \in Filled : PostFields \subseteq DOMAIN post[j] /\ post[j].status # "none"

OutKept ==
    /\ DOMAIN out = OutEvents
    /\ \A e \in OutEvents : "status" \in DOMAIN out[e]
    /\ received \in [OutEvents -> {0, 1}]
    /\ \A e \in OutEvents : out[e].status \in {"none", "pending", "publishing"} => received[e] = 0

JobStands(e) == \E j \in Filled : post[j].key = JobOf[e].key /\ post[j].payload = JobOf[e].payload

EventTold(e) ==
    /\ out[e].status = "published" => received[e] = 1 /\ (JobOf[e] # NoSpec => JobStands(e))
    /\ received[e] = 1 /\ out[e].status # "published" => out[e].status \in {"failed", "dead_letter"} /\ Refused(e)

AsksFor(e, payload) == received[e] = 1 /\ JobOf[e] \notin {NoSpec, BadSpec} /\ JobOf[e].payload = payload

PostsAsked == \A j \in Filled : \E e \in OutEvents : AsksFor(e, post[j].payload)

OutInv ==
    /\ PostsKept
    /\ OutKept
    /\ \A e \in OutEvents : EventTold(e)
    /\ PostsAsked

LEMMA OutStarts == DispatchInit => OutInv
  BY DEF DispatchInit, OutInv, PostsKept, OutKept, EventTold, PostsAsked, Filled, NoPost

LEMMA OutTaken == OutInv => TakenOnce
  BY DEF OutInv, OutKept, EventTold, JobStands, PostsAsked, AsksFor, TakenOnce

(* Jobs that are there keep their key, their payload and their place.      *)
JobsStay == \A j \in Filled : j \in Filled' /\ post'[j].key = post[j].key /\ post'[j].payload = post[j].payload

LEMMA Standing ==
    ASSUME JobsStay, NEW e
    PROVE  (JobStands(e) => JobStands(e)') /\ (Refused(e) => Refused(e)')
  BY DEF JobsStay, JobStands, Refused

(* A change of jobs alone.                                                 *)
LEMMA JobsMove ==
    ASSUME OutInv, UNCHANGED <<out, received>>, JobsStay, PostsKept',
           \A j \in Filled' : \E i \in Filled : post'[j].payload = post[i].payload
    PROVE  OutInv'
<1>1. OutKept'
  BY DEF OutInv, OutKept
<1>2. ASSUME NEW e \in OutEvents
      PROVE  EventTold(e)'
  BY Standing DEF OutInv, EventTold
<1>3. PostsAsked'
  BY DEF OutInv, PostsAsked, AsksFor
<1> QED
  BY <1>1, <1>2, <1>3 DEF OutInv

LEMMA OneJobMoves ==
    ASSUME OutInv, NEW j \in Filled, NEW status, NEW tries, NEW until, status # "none",
           post' = [post EXCEPT ![j] = [@ EXCEPT !.status = status, !.tries = tries, !.until = until]],
           UNCHANGED <<out, received>>
    PROVE  OutInv'
<1>1. /\ j \in Posts /\ DOMAIN post = Posts /\ PostFields \subseteq DOMAIN post[j]
  BY DEF OutInv, PostsKept, Filled
<1>2. /\ DOMAIN post' = Posts
      /\ DOMAIN post'[j] = DOMAIN post[j]
      /\ post'[j].status = status
      /\ post'[j].key = post[j].key /\ post'[j].payload = post[j].payload
      /\ \A i \in Posts \ {j} : post'[i] = post[i]
  BY <1>1 DEF PostFields
<1>3. post'[j] # NoPost
  <2>1. NoPost.status = "none"
    BY DEF NoPost
  <2> QED
    BY <1>2, <2>1
<1>4. Filled' = Filled
  BY <1>1, <1>2, <1>3 DEF Filled
<1>5. PostsKept'
  BY <1>1, <1>2, <1>4 DEF OutInv, PostsKept, Filled
<1>6. JobsStay /\ \A i \in Filled' : \E k \in Filled : post'[i].payload = post[k].payload
  BY <1>1, <1>2, <1>4 DEF JobsStay, Filled
<1> QED
  BY <1>5, <1>6, JobsMove

(* A set of positions that is not empty has a first one.                   *)
LEMMA FirstOf ==
    ASSUME NEW S, S \subseteq Nat, S # {}
    PROVE  \E x \in S : \A y \in S : x <= y
<1>1. PICK x \in S : \A y \in S : <<y, x>> \notin OpToRel(<, Nat)
  BY WFMin, NatLessThanWellFounded
<1>2. \A y \in S : ~(y < x)
  BY <1>1 DEF OpToRel
<1> QED
  BY <1>2

(* A dispatch: every event it claims had not been taken, the answers of    *)
(* the publisher say which are taken now, and at most one job is made.     *)
LEMMA Dispatches ==
    ASSUME OutInv, NEW limit, NEW answer, DispatchOnce(limit, answer)
    PROVE  OutInv'
<1> DEFINE batch == Batch(limit)
           raised == {e \in batch : answer[e] = "raises"}
           reached == {e \in batch : \A f \in raised : e < f}
           took(e) == e \in reached /\ answer[e] = "published"
           said(e) == IF e \in reached THEN answer[e] ELSE "raises"
           made == {e \in reached : /\ answer[e] = "published" /\ ~Refused(e) /\ JobOf[e] # NoSpec
                                    /\ \A j \in Filled : post[j].key # JobOf[e].key}
<1>1. /\ Cardinality(made) <= 1
      /\ Cardinality(made) <= Cardinality(Posts \ Filled)
      /\ out' = [e \in OutEvents |-> IF e \in batch THEN Dispatched(e, said(e)) ELSE out[e]]
      /\ received' = [e \in OutEvents |-> IF took(e) THEN received[e] + 1 ELSE received[e]]
      /\ post' = [j \in Posts |-> IF made # {} /\ j \in Posts \ Filled /\ \A i \in Posts \ Filled : j <= i
                                  THEN NewJob(CHOOSE e \in made : TRUE) ELSE post[j]]
  BY DEF DispatchOnce
<1>2. ASSUME NEW e \in batch
      PROVE  e \in OutEvents /\ received[e] = 0
  <2>1. e \in OutEvents /\ out[e].status \in {"pending", "publishing"}
    BY DEF Batch, ClaimableEvent
  <2> QED
    BY <2>1 DEF OutInv, OutKept
<1>3. ASSUME NEW e \in batch
      PROVE  /\ "status" \in DOMAIN out'[e]
             /\ took(e) /\ ~Refused(e) => out'[e].status = "published"
             /\ took(e) /\ Refused(e) => out'[e].status \in {"failed", "dead_letter"}
             /\ ~took(e) => out'[e].status \in {"publishing", "failed", "dead_letter"}
  <2>1. out'[e] = Dispatched(e, said(e)) /\ (took(e) <=> said(e) = "published")
    BY <1>1, <1>2
  <2> HIDE DEF said, took
  <2> QED
    BY <2>1 DEF Dispatched
<1>4. ASSUME NEW e \in OutEvents \ batch
      PROVE  out'[e] = out[e] /\ received'[e] = received[e]
  BY <1>1
<1>5. ASSUME NEW e \in batch
      PROVE  received'[e] = IF took(e) THEN 1 ELSE 0
  <2> HIDE DEF took
  <2> QED
    BY <1>1, <1>2
<1>6. made \subseteq batch /\ \A e \in made : took(e) /\ ~Refused(e) /\ JobOf[e] \notin {NoSpec, BadSpec}
  BY DEF Refused
<1>7. made = {} => post' = post
  <2>1. post = [j \in Posts |-> post[j]]
    BY DEF OutInv, PostsKept
  <2> HIDE DEF made
  <2> QED
    BY <1>1, <2>1
<1>8. ASSUME NEW e \in made
      PROVE  \E new \in Posts \ Filled : post' = [post EXCEPT ![new] = NewJob(e)]
  <2>1. IsFiniteSet(made)
    <3>1. made \subseteq OutEvents
      BY <1>2, <1>6
    <3> QED
      BY <3>1, FS_Subset, DispatchBounds
  <2> HIDE DEF made
  <2>2. Cardinality(made) \in Nat /\ Cardinality(made) # 0
    BY <2>1, <1>8, FS_CardinalityType, FS_EmptySet
  <2>3. Cardinality(made) = 1
    BY <2>2, <1>1
  <2>4. made = {e}
    BY <2>1, <2>3, <1>8, FS_Singleton
  <2>5. Posts \ Filled # {}
    <3>1. Cardinality({}) = 0
      BY FS_EmptySet
    <3> QED
      BY <1>1, <2>3, <3>1
  <2>6. PICK new \in Posts \ Filled : \A i \in Posts \ Filled : new <= i
    BY <2>5, FirstOf, DispatchBounds
  <2>7. \A j \in Posts \ Filled : (\A i \in Posts \ Filled : j <= i) => j = new
    BY <2>6, DispatchBounds
  <2>8. (CHOOSE f \in made : TRUE) = e
    BY <2>4
  <2>9. post = [j \in Posts |-> post[j]]
    BY DEF OutInv, PostsKept
  <2>10. made # {}
    BY <1>8
  <2>11. post' = [j \in Posts |-> IF j = new THEN NewJob(e) ELSE post[j]]
    BY <1>1, <2>6, <2>7, <2>8, <2>10
  <2>12. post' = [post EXCEPT ![new] = NewJob(e)]
    BY <2>9, <2>11
  <2> QED
    BY <2>12
<1>9. \A e \in made : /\ PostFields \subseteq DOMAIN NewJob(e) /\ NewJob(e).status # "none" /\ NewJob(e) # NoPost
                      /\ NewJob(e).key = JobOf[e].key /\ NewJob(e).payload = JobOf[e].payload
  <2> HIDE DEF made
  <2>1. \A e \in made : NewJob(e).status = "queued" /\ NoPost.status = "none"
    BY DEF NewJob, NoPost
  <2> QED
    BY <2>1 DEF NewJob, PostFields
<1>10. /\ JobsStay /\ PostsKept'
       /\ \A j \in Filled' : \/ \E i \in Filled : post'[j].payload = post[i].payload
                             \/ \E e \in made : post'[j].payload = JobOf[e].payload
       /\ \A e \in made : JobStands(e)'
  <2> HIDE DEF made
  <2>1. CASE made = {}
    BY <2>1, <1>7 DEF OutInv, PostsKept, JobsStay, Filled
  <2>2. ASSUME NEW e \in made
        PROVE  /\ JobsStay /\ PostsKept'
               /\ \A j \in Filled' : \/ \E i \in Filled : post'[j].payload = post[i].payload
                                     \/ post'[j].payload = JobOf[e].payload
               /\ JobStands(e)'
    <3>1. PICK new \in Posts \ Filled : post' = [post EXCEPT ![new] = NewJob(e)]
      BY <1>8
    <3>2. /\ post' = [j \in Posts |-> post'[j]]
          /\ post'[new] = NewJob(e)
          /\ \A j \in Posts \ {new} : post'[j] = post[j]
      BY <3>1 DEF OutInv, PostsKept
    <3>3. Filled' = Filled \cup {new}
      BY <3>2, <1>9 DEF Filled
    <3>4. \A j \in Filled : j \in Posts \ {new}
      BY DEF Filled
    <3>5. PostsKept'
      BY <3>2, <3>3, <3>4, <1>9 DEF OutInv, PostsKept
    <3>6. JobsStay
      BY <3>2, <3>3, <3>4 DEF JobsStay
    <3>7. JobStands(e)'
      BY <3>2, <3>3, <1>9 DEF JobStands
    <3> QED
      BY <3>2, <3>3, <3>4, <3>5, <3>6, <3>7, <1>9
  <2> QED
    BY <2>1, <2>2
<1>11. OutKept'
  <2> HIDE DEF batch, took
  <2>1. DOMAIN out' = OutEvents /\ DOMAIN received' = OutEvents
    BY <1>1
  <2>2. ASSUME NEW e \in OutEvents
        PROVE  /\ "status" \in DOMAIN out'[e] /\ received'[e] \in {0, 1}
               /\ out'[e].status \in {"none", "pending", "publishing"} => received'[e] = 0
    <3>1. CASE e \in batch
      BY <3>1, <1>3, <1>5
    <3>2. CASE e \notin batch
      BY <3>2, <1>4 DEF OutInv, OutKept
    <3> QED
      BY <3>1, <3>2
  <2>3. received' = [e \in OutEvents |-> received'[e]]
    BY <1>1
  <2> QED
    BY <2>1, <2>2, <2>3 DEF OutKept
<1>12. ASSUME NEW e \in OutEvents
       PROVE  EventTold(e)'
  <2>1. CASE e \notin batch
    <3>1. out'[e] = out[e] /\ received'[e] = received[e] /\ EventTold(e)
      BY <2>1, <1>4 DEF OutInv
    <3> QED
      BY <3>1, <1>10, Standing DEF EventTold
  <2>2. CASE e \in batch /\ took(e) /\ Refused(e)
    <3>1. Refused(e)'
      BY <2>2, <1>10, Standing
    <3>2. out'[e].status \in {"failed", "dead_letter"}
      BY <2>2, <1>3
    <3> QED
      BY <3>1, <3>2 DEF EventTold
  <2>3. CASE e \in batch /\ took(e) /\ ~Refused(e)
    <3>1. out'[e].status = "published" /\ received'[e] = 1
      BY <2>3, <1>3, <1>5
    <3>2. ASSUME JobOf[e] # NoSpec
          PROVE  JobStands(e)'
      <4>1. CASE e \in made
        BY <4>1, <1>10
      <4>2. CASE e \notin made
        <5>1. PICK j \in Filled : post[j].key = JobOf[e].key
          BY <2>3, <3>2, <4>2
        <5>2. post[j].payload = JobOf[e].payload
          BY <5>1, <2>3, <3>2 DEF Refused
        <5>3. JobStands(e)
          BY <5>1, <5>2 DEF JobStands
        <5> QED
          BY <5>3, <1>10, Standing
      <4> QED
        BY <4>1, <4>2
    <3> QED
      BY <3>1, <3>2 DEF EventTold
  <2>4. CASE e \in batch /\ ~took(e)
    <3>1. received'[e] = 0 /\ out'[e].status # "published"
      BY <2>4, <1>3, <1>5
    <3> QED
      BY <3>1 DEF EventTold
  <2> QED
    BY <2>1, <2>2, <2>3, <2>4
<1>13. PostsAsked'
  <2> SUFFICES ASSUME NEW j \in Filled' PROVE \E e \in OutEvents : AsksFor(e, post[j].payload)'
    BY DEF PostsAsked
  <2>1. ASSUME NEW i \in Filled, post'[j].payload = post[i].payload
        PROVE  \E e \in OutEvents : AsksFor(e, post[j].payload)'
    <3>1. PICK e \in OutEvents : AsksFor(e, post[i].payload)
      BY DEF OutInv, PostsAsked
    <3>2. received'[e] = received[e]
      BY <3>1, <1>2, <1>4 DEF AsksFor
    <3> QED
      BY <3>1, <3>2, <2>1 DEF AsksFor
  <2>2. ASSUME NEW e \in made, post'[j].payload = JobOf[e].payload
        PROVE  AsksFor(e, post[j].payload)'
    <3>1. received'[e] = 1
      BY <1>5, <1>6
    <3> QED
      BY <3>1, <2>2, <1>6 DEF AsksFor
  <2> QED
    BY <2>1, <2>2, <1>2, <1>6, <1>10
<1> QED
  BY <1>10, <1>11, <1>12, <1>13 DEF OutInv

LEMMA JobReplays ==
    ASSUME OutInv, NEW j \in Filled, ReplayJob(j)
    PROVE  OutInv'
<1>1. PICK new \in Posts \ Filled :
         post' = [post EXCEPT ![new] = [post[j] EXCEPT !.status = "queued", !.tries = 0, !.until = 0,
                                                       !.key = <<"replay", new>>, !.source = j]]
  BY DEF ReplayJob
<1>2. post = [i \in Posts |-> post[i]] /\ PostFields \subseteq DOMAIN post[j] /\ UNCHANGED <<out, received>>
  BY DEF OutInv, PostsKept, ReplayJob
<1>3. /\ post' = [i \in Posts |-> post'[i]]
      /\ DOMAIN post'[new] = DOMAIN post[j]
      /\ post'[new].status = "queued" /\ post'[new].payload = post[j].payload
      /\ \A i \in Posts \ {new} : post'[i] = post[i]
  BY <1>1, <1>2 DEF PostFields
<1>4. post'[new] # NoPost
  <2>1. NoPost.status = "none"
    BY DEF NoPost
  <2> QED
    BY <1>3, <2>1
<1>5. Filled' = Filled \cup {new}
  BY <1>3, <1>4 DEF Filled
<1>6. \A i \in Filled : i \in Posts \ {new}
  BY DEF Filled
<1>7. PostsKept'
  BY <1>2, <1>3, <1>5, <1>6 DEF OutInv, PostsKept
<1>8. JobsStay /\ \A i \in Filled' : \E k \in Filled : post'[i].payload = post[k].payload
  BY <1>3, <1>5, <1>6 DEF JobsStay
<1> QED
  BY <1>2, <1>7, <1>8, JobsMove

LEMMA OutSteps == ASSUME OutInv, DispatchNext PROVE OutInv'
<1>1. ASSUME NextSecond PROVE OutInv'
  BY <1>1 DEF NextSecond, OutInv, PostsKept, OutKept, EventTold, Refused, JobStands, PostsAsked, AsksFor, Filled
<1>2. ASSUME NEW e \in OutEvents, AppendEvent(e)
      PROVE  OutInv'
  <2>1. /\ out[e].status = "none" /\ out' = [out EXCEPT ![e].status = "pending"]
        /\ UNCHANGED <<post, received>>
    BY <1>2 DEF AppendEvent
  <2>2. received[e] = 0
    BY <2>1 DEF OutInv, OutKept
  <2>3. OutKept'
    BY <2>1, <2>2 DEF OutInv, OutKept
  <2>4. ASSUME NEW f \in OutEvents
        PROVE  EventTold(f)'
    <3>1. CASE f = e
      BY <3>1, <2>1, <2>2 DEF OutInv, OutKept, EventTold
    <3>2. CASE f # e
      <4>1. out'[f] = out[f] /\ EventTold(f)
        BY <3>2, <2>1 DEF OutInv
      <4> QED
        BY <4>1, <2>1 DEF EventTold, Refused, JobStands, Filled
    <3> QED
      BY <3>1, <3>2
  <2>5. PostsKept' /\ PostsAsked'
    BY <2>1 DEF OutInv, PostsKept, PostsAsked, AsksFor, Filled
  <2> QED
    BY <2>3, <2>4, <2>5 DEF OutInv
<1>3. ASSUME NEW limit \in 1 .. 2, NEW answer \in [Batch(limit) -> {"published", "unknown", "retryable", "raises"}],
             DispatchOnce(limit, answer)
      PROVE  OutInv'
  BY <1>3, Dispatches
<1>4. ASSUME NEW j \in Filled, ClaimJob(j)
      PROVE  OutInv'
  BY <1>4, OneJobMoves DEF ClaimJob
<1>5. ASSUME NEW j \in Filled, ReplayJob(j)
      PROVE  OutInv'
  BY <1>5, JobReplays
<1>6. ASSUME NEW j \in Filled, NEW class \in {"transient", "unknown", "deterministic"}, RetryJob(j, class)
      PROVE  OutInv'
  <2> DEFINE status == CASE class = "transient" /\ post[j].tries < MaxTries -> "retry_scheduled"
                         [] class = "unknown" -> "failed"
                         [] OTHER -> "dead_letter"
  <2>1. /\ post' = [post EXCEPT ![j] = [@ EXCEPT !.until = 0, !.status = status]]
        /\ UNCHANGED <<out, received>>
    BY <1>6 DEF RetryJob
  <2>2. status # "none"
    OBVIOUS
  <2> HIDE DEF status
  <2>3. PostFields \subseteq DOMAIN post[j]
    BY DEF OutInv, PostsKept
  <2>4. [post[j] EXCEPT !.until = 0, !.status = status]
        = [post[j] EXCEPT !.status = status, !.tries = post[j].tries, !.until = 0]
    BY <2>3 DEF PostFields
  <2>5. PICK to, tries :
           to # "none" /\ post' = [post EXCEPT ![j] = [@ EXCEPT !.status = to, !.tries = tries, !.until = 0]]
    BY <2>1, <2>2, <2>4
  <2>6. UNCHANGED <<out, received>>
    BY <2>1
  <2> QED
    BY <2>5, <2>6, OneJobMoves
<1> QED
  BY <1>1, <1>2, <1>3, <1>4, <1>5, <1>6 DEF DispatchNext

LEMMA OutKeeps == OutInv /\ UNCHANGED dispatchVars => OutInv'
  BY DEF OutInv, dispatchVars, PostsKept, OutKept, EventTold, Refused, JobStands, PostsAsked, AsksFor, Filled

-----------------------------------------------------------------------------
(* The browser window. A runner that is not at the window has nothing in   *)
(* hand, one that is about to empty the file has nothing taken, and one    *)
(* that waits has no command it is doing.                                  *)
Phases == {"-", "emptying", "opened", "clicking", "clicked", "replying", "replied"}
RunnerRow == [at : {"none", "starting", "live"}, first : Launches \cup {NoLaunch}, seen : Seq(Launches),
              taken : Seq(Launches), doing : Launches \cup {NoLaunch}, phase : Phases]

WindowTyped ==
    /\ DOMAIN launch = Launches /\ \A j \in Launches : "status" \in DOMAIN launch[j]
    /\ DOMAIN request = Launches
    /\ queue4 \in Seq(Launches)
    /\ runner \in [Runners -> RunnerRow]

RunnerSound(r) ==
    /\ runner[r].at # "live" => runner[r].taken = <<>> /\ runner[r].phase = "-"
    /\ runner[r].phase = "emptying" => runner[r].taken = <<>>
    /\ runner[r].phase \in {"-", "emptying"} => runner[r].doing = NoLaunch

InHand(r) == Range(runner[r].taken) \cup {runner[r].doing}

HeldSomewhere(j) ==
    request[j] = "queue" \/ j \in Range(queue4) \/ j \in dropped \/ \E r \in Runners : j \in InHand(r)

SaidQueued(j) == launch[j].status = "command_queued"

WindowInv ==
    /\ WindowTyped
    /\ \A r \in Runners : RunnerSound(r)
    /\ \A j \in Launches : SaidQueued(j) => HeldSomewhere(j)
    /\ DraftKept

LEMMA WindowStarts == SessionInit => WindowInv
<1> SUFFICES ASSUME SessionInit PROVE WindowInv
  OBVIOUS
<1>1. Idle4 \in RunnerRow
  BY DEF Idle4, RunnerRow, Phases
<1>2. WindowTyped
  BY <1>1 DEF SessionInit, WindowTyped
<1>3. \A r \in Runners : RunnerSound(r)
  BY DEF SessionInit, RunnerSound, Idle4
<1>4. \A j \in Launches : ~SaidQueued(j)
  BY DEF SessionInit, SaidQueued
<1>5. DraftKept
  BY DEF SessionInit, DraftKept
<1> QED
  BY <1>2, <1>3, <1>4, <1>5 DEF WindowInv

LEMMA WindowHeld == WindowInv => QueuedHeld /\ DraftKept
  BY DEF WindowInv, SaidQueued, HeldSomewhere, InHand, QueuedHeld

(* What a list of commands holds when one is added or taken off.           *)
LEMMA RangeOf ==
    ASSUME NEW S, NEW s \in Seq(S)
    PROVE  /\ Range(s) \subseteq S
           /\ \A e \in S : Range(Append(s, e)) = Range(s) \cup {e}
           /\ s # <<>> => Range(s) = {Head(s)} \cup Range(Tail(s)) /\ Head(s) \in S /\ Tail(s) \in Seq(S)
           /\ Range(<<>>) = {}
<1>1. Range(s) \subseteq S
  BY ElementOfSeq DEF Range
<1>2. ASSUME NEW e \in S
      PROVE  Range(Append(s, e)) = Range(s) \cup {e}
  <2>1. /\ DOMAIN s = 1 .. Len(s) /\ DOMAIN Append(s, e) = 1 .. Len(s) + 1 /\ Len(s) \in Nat
        /\ \A i \in 1 .. Len(s) : Append(s, e)[i] = s[i]
        /\ Append(s, e)[Len(s) + 1] = e
    BY AppendProperties, LenProperties
  <2> QED
    BY <2>1 DEF Range
<1>3. ASSUME s # <<>>
      PROVE  Range(s) = {Head(s)} \cup Range(Tail(s)) /\ Head(s) \in S /\ Tail(s) \in Seq(S)
  <2>1. /\ Head(s) = s[1] /\ Head(s) \in S /\ Tail(s) \in Seq(S)
        /\ Len(s) \in Nat \ {0} /\ DOMAIN s = 1 .. Len(s) /\ DOMAIN Tail(s) = 1 .. Len(s) - 1
        /\ \A i \in 1 .. Len(s) - 1 : Tail(s)[i] = s[i + 1]
    BY <1>3, HeadTailProperties, LenProperties, EmptySeq
  <2>2. \A i \in 2 .. Len(s) : i - 1 \in 1 .. Len(s) - 1 /\ s[i] = Tail(s)[i - 1]
    BY <2>1
  <2>3. ASSUME NEW i \in 1 .. Len(s)
        PROVE  s[i] \in {Head(s)} \cup Range(Tail(s))
    <3>1. i = 1 \/ i \in 2 .. Len(s)
      BY <2>1
    <3> QED
      BY <2>1, <2>2, <3>1 DEF Range
  <2>4. Range(Tail(s)) \subseteq Range(s) /\ Head(s) \in Range(s)
    BY <2>1 DEF Range
  <2>5. Range(s) \subseteq {Head(s)} \cup Range(Tail(s))
    BY <2>1, <2>3 DEF Range
  <2> QED
    BY <2>1, <2>4, <2>5
<1>4. Range(<<>>) = {}
  BY DEF Range
<1> QED
  BY <1>1, <1>2, <1>3, <1>4

(* A step of one runner, or of the operator at its window: what it had in  *)
(* hand and what was in the file is still somewhere, or no longer said to  *)
(* be queued.                                                              *)
LEMMA RunnerTurn ==
    ASSUME WindowInv, NEW r \in Runners, WindowTyped', RunnerSound(r)', DraftKept',
           \A q \in Runners \ {r} : runner'[q] = runner[q],
           request' = request, dropped \subseteq dropped',
           \A j \in Launches : SaidQueued(j)' =>
              /\ SaidQueued(j)
              /\ j \in InHand(r) => j \in InHand(r)' \cup dropped'
              /\ j \in Range(queue4) => j \in Range(queue4)' \cup dropped' \cup InHand(r)'
    PROVE  WindowInv'
<1>1. \A q \in Runners \ {r} : RunnerSound(q)' /\ InHand(q)' = InHand(q)
  BY DEF WindowInv, RunnerSound, InHand
<1>2. ASSUME NEW j \in Launches, SaidQueued(j)'
      PROVE  HeldSomewhere(j)'
  <2>1. SaidQueued(j) /\ HeldSomewhere(j)
    BY <1>2 DEF WindowInv
  <2>2. CASE request[j] = "queue" \/ j \in Range(queue4) \/ j \in dropped \/ j \in InHand(r)
    BY <2>2, <1>2 DEF HeldSomewhere
  <2>3. CASE \E q \in Runners \ {r} : j \in InHand(q)
    BY <2>3, <1>1 DEF HeldSomewhere
  <2> QED
    BY <2>1, <2>2, <2>3 DEF HeldSomewhere
<1> QED
  BY <1>1, <1>2 DEF WindowInv

(* A runner goes on with what it does, or is done with it, and tells the   *)
(* launch how far it has come.                                             *)
LEMMA RunnerGoes ==
    ASSUME WindowInv, NEW r \in Runners, runner[r].at = "live", runner[r].phase \notin {"-", "emptying"},
           NEW p \in Phases \ {"-", "emptying"}, DoneWith(r) \/ At(r, p),
           UNCHANGED <<request, queue4, dropped, spoiled>>,
           DOMAIN launch' = Launches, \A j \in Launches : "status" \in DOMAIN launch'[j],
           \A j \in Launches : SaidQueued(j)' => SaidQueued(j) /\ (DoneWith(r) => j # runner[r].doing)
    PROVE  WindowInv'
<1>1. runner \in [Runners -> RunnerRow] /\ runner[r] \in RunnerRow
  BY DEF WindowInv, WindowTyped
<1>2. DraftKept'
  BY DEF WindowInv, DraftKept
<1>3. CASE DoneWith(r)
  <2> DEFINE new == [runner[r] EXCEPT !.doing = NoLaunch, !.phase = "-"]
  <2>1. new \in RunnerRow
    BY <1>1 DEF RunnerRow, Phases
  <2>2. /\ new.at = "live" /\ new.taken = runner[r].taken /\ new.doing = NoLaunch /\ new.phase = "-"
    BY <1>1 DEF RunnerRow
  <2>3. runner' = [runner EXCEPT ![r] = new]
    BY <1>3 DEF DoneWith
  <2> HIDE DEF new
  <2>4. WindowTyped'
    BY <2>1, <2>3, <1>1 DEF WindowInv, WindowTyped
  <2>5. runner'[r] = new /\ \A q \in Runners \ {r} : runner'[q] = runner[q]
    BY <2>3, <1>1
  <2>6. RunnerSound(r)'
    BY <2>2, <2>5 DEF RunnerSound
  <2>7. \A j \in Launches : j # runner[r].doing /\ j \in InHand(r) => j \in InHand(r)'
    BY <2>2, <2>5 DEF InHand
  <2> QED
    BY <1>2, <1>3, <2>4, <2>5, <2>6, <2>7, RunnerTurn
<1>4. CASE At(r, p)
  <2> DEFINE new == [runner[r] EXCEPT !.phase = p]
  <2>1. new \in RunnerRow
    BY <1>1 DEF RunnerRow
  <2>2. /\ new.at = "live" /\ new.taken = runner[r].taken /\ new.doing = runner[r].doing /\ new.phase = p
    BY <1>1 DEF RunnerRow
  <2>3. runner' = [runner EXCEPT ![r] = new]
    BY <1>4 DEF At
  <2> HIDE DEF new
  <2>4. WindowTyped'
    BY <2>1, <2>3, <1>1 DEF WindowInv, WindowTyped
  <2>5. runner'[r] = new /\ \A q \in Runners \ {r} : runner'[q] = runner[q]
    BY <2>3, <1>1
  <2>6. RunnerSound(r)'
    BY <2>2, <2>5 DEF RunnerSound
  <2>7. InHand(r)' = InHand(r)
    BY <2>2, <2>5 DEF InHand
  <2> QED
    BY <1>2, <2>4, <2>5, <2>6, <2>7, RunnerTurn
<1> QED
  BY <1>3, <1>4

(* A launch that is told another status is not said to be queued.          *)
LEMMA Telling ==
    ASSUME WindowTyped, NEW j, NEW status, status # "command_queued", Tell(j, status)
    PROVE  /\ DOMAIN launch' = Launches /\ \A i \in Launches : "status" \in DOMAIN launch'[i]
           /\ \A i \in Launches : SaidQueued(i)' => SaidQueued(i) /\ i # j
  BY DEF WindowTyped, Tell, SaidQueued

LEMMA PagesGo ==
    ASSUME WindowInv, NEW r \in Runners, NEW well \in BOOLEAN,
           \/ FillDraft(r, well) \/ ClickPublish(r, well) \/ ScanInbox(r, well) \/ SendReply(r, well)
           \/ ReportPublish(r) \/ ReportReply(r)
    PROVE  WindowInv'
<1> DEFINE j == runner[r].doing
           Told == /\ DOMAIN launch' = Launches /\ \A i \in Launches : "status" \in DOMAIN launch'[i]
                   /\ \A i \in Launches : SaidQueued(i)' => SaidQueued(i) /\ i # j
<1>1. WindowTyped
  BY DEF WindowInv
<1>2. /\ runner[r].at = "live" /\ runner[r].phase \notin {"-", "emptying"}
      /\ UNCHANGED <<request, queue4, dropped, spoiled>>
  BY DEF FillDraft, ClickPublish, ScanInbox, SendReply, ReportPublish, ReportReply, Doing, outsideVars
<1>3. ASSUME launch' = launch
      PROVE  /\ DOMAIN launch' = Launches /\ \A i \in Launches : "status" \in DOMAIN launch'[i]
             /\ \A i \in Launches : SaidQueued(i)' => SaidQueued(i)
  BY <1>1, <1>3 DEF WindowTyped, SaidQueued
<1>4. CASE FillDraft(r, well)
  <2>1. CASE atLogin \/ ~well
    <3>1. Told /\ DoneWith(r)
      BY <2>1, <1>1, <1>4, Telling DEF FillDraft
    <3> QED
      BY <3>1, <1>2, RunnerGoes DEF Phases
  <2>2. CASE ~(atLogin \/ ~well)
    <3>1. DoneWith(r) \/ At(r, "clicking")
      BY <2>2, <1>4 DEF FillDraft
    <3>2. Told
      BY <2>2, <1>1, <1>4 DEF FillDraft, WindowTyped, SaidQueued
    <3> QED
      BY <3>1, <3>2, <1>2, RunnerGoes DEF Phases
  <2> QED
    BY <2>1, <2>2
<1>5. CASE ClickPublish(r, well)
  <2>1. CASE well
    <3>1. launch' = launch /\ At(r, "clicked")
      BY <2>1, <1>5 DEF ClickPublish
    <3>2. ~DoneWith(r)
      BY <3>1, <1>1 DEF At, DoneWith, WindowTyped, RunnerRow
    <3> QED
      BY <3>1, <3>2, <1>2, <1>3, RunnerGoes DEF Phases
  <2>2. CASE ~well
    <3>1. Told /\ DoneWith(r)
      BY <2>2, <1>1, <1>5, Telling DEF ClickPublish
    <3> QED
      BY <3>1, <1>2, RunnerGoes DEF Phases
  <2> QED
    BY <2>1, <2>2
<1>6. CASE SendReply(r, well)
  <2>1. CASE well
    <3>1. launch' = launch /\ At(r, "replied")
      BY <2>1, <1>6 DEF SendReply
    <3>2. ~DoneWith(r)
      BY <3>1, <1>1 DEF At, DoneWith, WindowTyped, RunnerRow
    <3> QED
      BY <3>1, <3>2, <1>2, <1>3, RunnerGoes DEF Phases
  <2>2. CASE ~well
    <3>1. Told /\ DoneWith(r)
      BY <2>2, <1>1, <1>6, Telling DEF SendReply
    <3> QED
      BY <3>1, <1>2, RunnerGoes DEF Phases
  <2> QED
    BY <2>1, <2>2
<1>7. CASE ScanInbox(r, well)
  <2>1. PICK status : status # "command_queued" /\ Tell(j, status)
    BY <1>7 DEF ScanInbox
  <2>2. Told
    BY <2>1, <1>1, Telling
  <2>3. DoneWith(r) \/ At(r, "replying")
    BY <1>7 DEF ScanInbox
  <2> QED
    BY <2>2, <2>3, <1>2, RunnerGoes DEF Phases
<1>8. CASE ReportPublish(r)
  <2>1. Told /\ DoneWith(r)
    BY <1>1, <1>8 DEF ReportPublish, WindowTyped, SaidQueued
  <2> QED
    BY <2>1, <1>2, RunnerGoes DEF Phases
<1>9. CASE ReportReply(r)
  <2>1. Told /\ DoneWith(r)
    BY <1>1, <1>9, Telling DEF ReportReply
  <2> QED
    BY <2>1, <1>2, RunnerGoes DEF Phases
<1> QED
  BY <1>4, <1>5, <1>6, <1>7, <1>8, <1>9

(* The file of commands: a launch is put in, the file is read and emptied, *)
(* and what came in between is lost, which dropped remembers.              *)
LEMMA RequestsGo ==
    ASSUME WindowInv, NEW j \in Launches,
           LetThrough(j) \/ Enqueue(j) \/ (\E found \in BOOLEAN : RecordLaunch(j, found))
    PROVE  WindowInv'
<1>1. WindowTyped
  BY DEF WindowInv
<1>2. /\ runner' = runner /\ dropped' = dropped /\ spoiled' = spoiled
      /\ \A i \in Launches \ {j} : request'[i] = request[i]
      /\ DOMAIN request' = Launches
  BY <1>1 DEF LetThrough, Enqueue, RecordLaunch, windowVars, WindowTyped
<1>3. (\A r \in Runners : RunnerSound(r)' /\ InHand(r)' = InHand(r)) /\ DraftKept'
  BY <1>2 DEF WindowInv, RunnerSound, InHand, DraftKept
<1>4. CASE LetThrough(j)
  <2>1. request[j] = "new" /\ launch' = launch /\ queue4' = queue4
    BY <1>4 DEF LetThrough, windowVars
  <2>2. WindowTyped'
    BY <2>1, <1>1, <1>2 DEF WindowTyped
  <2>3. ASSUME NEW i \in Launches, SaidQueued(i)'
        PROVE  HeldSomewhere(i)'
    <3>1. HeldSomewhere(i)
      BY <2>1, <2>3 DEF WindowInv, SaidQueued
    <3> QED
      BY <3>1, <2>1, <1>2, <1>3 DEF HeldSomewhere
  <2> QED
    BY <2>2, <2>3, <1>3 DEF WindowInv
<1>5. CASE Enqueue(j)
  <2>1. launch' = launch /\ queue4' = Append(queue4, j)
    BY <1>5 DEF Enqueue
  <2>2. queue4' \in Seq(Launches) /\ Range(queue4') = Range(queue4) \cup {j}
    BY <2>1, <1>1, RangeOf, AppendProperties DEF WindowTyped
  <2>3. WindowTyped'
    BY <2>1, <2>2, <1>1, <1>2 DEF WindowTyped
  <2>4. ASSUME NEW i \in Launches, SaidQueued(i)'
        PROVE  HeldSomewhere(i)'
    <3>1. HeldSomewhere(i)
      BY <2>1, <2>4 DEF WindowInv, SaidQueued
    <3> QED
      BY <3>1, <2>2, <1>2, <1>3 DEF HeldSomewhere
  <2> QED
    BY <2>3, <2>4, <1>3 DEF WindowInv
<1>6. ASSUME NEW found \in BOOLEAN, RecordLaunch(j, found)
      PROVE  WindowInv'
  <2>1. /\ queue4' = queue4 /\ request[j] = "let"
        /\ request' = [request EXCEPT ![j] = IF found THEN "queue" ELSE "spawn"]
        /\ launch' = [launch EXCEPT ![j].status = IF found THEN "command_queued" ELSE "browser_starting"]
    BY <1>6 DEF RecordLaunch, windowVars
  <2>2. WindowTyped'
    BY <2>1, <1>1, <1>2 DEF WindowTyped
  <2>3. SaidQueued(j)' => request'[j] = "queue"
    BY <2>1, <1>1 DEF WindowTyped, SaidQueued
  <2>4. ASSUME NEW i \in Launches \ {j}, SaidQueued(i)'
        PROVE  HeldSomewhere(i)'
    <3>1. HeldSomewhere(i)
      BY <2>1, <2>4, <1>1 DEF WindowInv, SaidQueued, WindowTyped
    <3> QED
      BY <3>1, <2>1, <1>2, <1>3 DEF HeldSomewhere
  <2> QED
    BY <2>2, <2>3, <2>4, <1>3 DEF WindowInv, HeldSomewhere
<1> QED
  BY <1>4, <1>5, <1>6

LEMMA Spawns ==
    ASSUME WindowInv, NEW j \in Launches, NEW r \in Runners, Spawn(j, r)
    PROVE  WindowInv'
<1> DEFINE new == [Idle4 EXCEPT !.at = "starting", !.first = j]
<1>1. WindowTyped
  BY DEF WindowInv
<1>2. /\ runner[r] = Idle4 /\ request[j] = "spawn"
      /\ runner' = [runner EXCEPT ![r] = new] /\ request' = [request EXCEPT ![j] = "done"]
      /\ UNCHANGED <<launch, queue4, dropped, spoiled>>
  BY DEF Spawn
<1>3. /\ new \in RunnerRow /\ new.at = "starting" /\ new.taken = <<>> /\ new.doing = NoLaunch /\ new.phase = "-"
  <2>1. /\ Idle4 \in RunnerRow /\ Idle4.taken = <<>> /\ Idle4.doing = NoLaunch /\ Idle4.phase = "-"
    BY DEF RunnerRow, Phases, Idle4
  <2> QED
    BY <2>1 DEF RunnerRow
<1> HIDE DEF new
<1>4. WindowTyped'
  BY <1>1, <1>2, <1>3 DEF WindowTyped
<1>5. runner'[r] = new /\ \A q \in Runners \ {r} : runner'[q] = runner[q]
  BY <1>1, <1>2 DEF WindowTyped
<1>6. \A q \in Runners : RunnerSound(q)'
  BY <1>3, <1>5 DEF WindowInv, RunnerSound
<1>7. \A q \in Runners : InHand(q)' = InHand(q)
  <2>1. Idle4.taken = <<>> /\ Idle4.doing = NoLaunch
    BY DEF Idle4
  <2> QED
    BY <2>1, <1>2, <1>3, <1>5 DEF InHand
<1>8. ASSUME NEW i \in Launches, SaidQueued(i)'
      PROVE  HeldSomewhere(i)'
  <2>1. HeldSomewhere(i)
    BY <1>2, <1>8 DEF WindowInv, SaidQueued
  <2>2. request[i] = "queue" => request'[i] = "queue"
    BY <1>1, <1>2 DEF WindowTyped
  <2> QED
    BY <2>1, <2>2, <1>2, <1>7 DEF HeldSomewhere
<1>9. DraftKept'
  BY <1>2 DEF WindowInv, DraftKept
<1> QED
  BY <1>4, <1>6, <1>8, <1>9 DEF WindowInv

(* A runner opens the window, reads the file of commands and empties it.   *)
LEMMA WindowOpens ==
    ASSUME WindowInv, NEW r \in Runners, OpenWindow(r)
    PROVE  WindowInv'
<1> DEFINE j == runner[r].first
           new == IF OrderOf[j].target = "home" THEN [runner[r] EXCEPT !.at = "live", !.doing = NoLaunch, !.phase = "-"]
                  ELSE [runner[r] EXCEPT !.at = "live", !.doing = j, !.phase = "opened"]
<1>1. WindowTyped /\ runner[r] \in RunnerRow /\ RunnerSound(r)
  BY DEF WindowInv, WindowTyped
<1>2. /\ runner[r].at = "starting"
      /\ UNCHANGED <<request, queue4, dropped, spoiled>>
  BY DEF OpenWindow, outsideVars
<1>3. runner[r].taken = <<>> /\ runner[r].doing = NoLaunch
  BY <1>1, <1>2 DEF RunnerSound
<1>4. PICK status : status # "command_queued" /\ Tell(j, status)
  BY DEF OpenWindow
<1>5. /\ DOMAIN launch' = Launches /\ \A i \in Launches : "status" \in DOMAIN launch'[i]
      /\ \A i \in Launches : SaidQueued(i)' => SaidQueued(i) /\ i # j
  BY <1>1, <1>4, Telling
<1>6. runner' = [runner EXCEPT ![r] = Idle4] \/ runner' = [runner EXCEPT ![r] = new]
  BY DEF OpenWindow
<1>7. /\ new \in RunnerRow /\ new.at = "live" /\ new.taken = <<>>
      /\ new.phase \in {"-", "opened"} /\ (new.phase = "-" => new.doing = NoLaunch)
  BY <1>1, <1>3 DEF RunnerRow, Phases
<1>8. /\ Idle4 \in RunnerRow /\ Idle4.taken = <<>> /\ Idle4.doing = NoLaunch /\ Idle4.phase = "-"
  BY DEF RunnerRow, Phases, Idle4
<1> HIDE DEF new
<1>9. /\ runner' \in [Runners -> RunnerRow]
      /\ runner'[r] = Idle4 \/ runner'[r] = new
      /\ \A q \in Runners \ {r} : runner'[q] = runner[q]
  BY <1>1, <1>6, <1>7, <1>8 DEF WindowTyped
<1>10. WindowTyped'
  BY <1>1, <1>2, <1>5, <1>9 DEF WindowTyped
<1>11. RunnerSound(r)'
  BY <1>7, <1>8, <1>9 DEF RunnerSound
<1>12. \A i \in InHand(r) : i = NoLaunch
  BY <1>3, RangeOf DEF InHand, Range
<1>13. DraftKept'
  BY <1>2 DEF WindowInv, DraftKept
<1> QED
  BY <1>2, <1>5, <1>9, <1>10, <1>11, <1>12, <1>13, LaunchesNamed, RunnerTurn

LEMMA QueueReads ==
    ASSUME WindowInv, NEW r \in Runners, ReadQueue(r)
    PROVE  WindowInv'
<1> DEFINE new == [runner[r] EXCEPT !.seen = queue4, !.phase = "emptying"]
<1>1. WindowTyped /\ runner[r] \in RunnerRow /\ RunnerSound(r)
  BY DEF WindowInv, WindowTyped
<1>2. /\ runner[r].at = "live" /\ runner[r].phase = "-" /\ runner[r].taken = <<>>
      /\ runner' = [runner EXCEPT ![r] = new]
      /\ UNCHANGED <<launch, request, queue4, dropped, spoiled>>
  BY DEF ReadQueue, Doing, launchVars
<1>3. /\ new \in RunnerRow /\ new.at = "live" /\ new.taken = <<>> /\ new.doing = runner[r].doing
      /\ new.phase = "emptying"
  BY <1>1, <1>2 DEF RunnerRow, Phases, WindowTyped
<1> HIDE DEF new
<1>4. WindowTyped' /\ runner'[r] = new /\ \A q \in Runners \ {r} : runner'[q] = runner[q]
  BY <1>1, <1>2, <1>3 DEF WindowTyped
<1>5. RunnerSound(r)' /\ InHand(r)' = InHand(r)
  BY <1>1, <1>2, <1>3, <1>4 DEF RunnerSound, InHand
<1>6. DraftKept' /\ \A i \in Launches : SaidQueued(i)' => SaidQueued(i)
  BY <1>2 DEF WindowInv, DraftKept, SaidQueued
<1> QED
  BY <1>2, <1>4, <1>5, <1>6, RunnerTurn

LEMMA QueueEmpties ==
    ASSUME WindowInv, NEW r \in Runners, EmptyQueue(r)
    PROVE  WindowInv'
<1> DEFINE new == [runner[r] EXCEPT !.taken = runner[r].seen, !.seen = <<>>, !.phase = "-"]
<1>1. WindowTyped /\ runner[r] \in RunnerRow /\ RunnerSound(r)
  BY DEF WindowInv, WindowTyped
<1>2. /\ runner[r].at = "live" /\ runner[r].phase = "emptying"
      /\ runner' = [runner EXCEPT ![r] = new]
      /\ queue4' = <<>> /\ dropped' = dropped \cup (Range(queue4) \ Range(runner[r].seen))
      /\ UNCHANGED <<launch, request, spoiled>>
  BY DEF EmptyQueue, Doing, launchVars
<1>3. /\ new \in RunnerRow /\ new.at = "live" /\ new.taken = runner[r].seen
      /\ new.doing = runner[r].doing /\ new.phase = "-"
  <2> DEFINE row == runner[r]
  <2>1. <<>> \in Seq(Launches) /\ "-" \in Phases
    BY DEF Phases
  <2>2. row \in RunnerRow /\ row.seen \in Seq(Launches)
    BY <1>1 DEF RunnerRow
  <2>3. [row EXCEPT !.taken = row.seen, !.seen = <<>>, !.phase = "-"] \in RunnerRow
    <3> HIDE DEF row
    <3> QED
      BY <2>1, <2>2 DEF RunnerRow
  <2>4. new \in RunnerRow
    BY <2>3
  <2>5. /\ new.at = "live" /\ new.taken = runner[r].seen
        /\ new.doing = runner[r].doing /\ new.phase = "-"
    BY <1>1, <1>2 DEF RunnerRow
  <2> QED
    BY <2>4, <2>5
<1>4. runner[r].taken = <<>> /\ runner[r].doing = NoLaunch /\ Range(runner[r].taken) = {}
  <2>1. runner[r].taken = <<>> /\ runner[r].doing = NoLaunch
    BY <1>1, <1>2 DEF RunnerSound
  <2>2. Range(<<>>) = {}
    BY DEF Range
  <2> QED
    BY <2>1, <2>2
<1> HIDE DEF new
<1>5. WindowTyped' /\ runner'[r] = new /\ \A q \in Runners \ {r} : runner'[q] = runner[q]
  BY <1>1, <1>2, <1>3 DEF WindowTyped
<1>6. RunnerSound(r)'
  BY <1>3, <1>4, <1>5 DEF RunnerSound
<1>7. InHand(r) = {NoLaunch} /\ InHand(r)' = Range(runner[r].seen) \cup {NoLaunch}
  BY <1>3, <1>4, <1>5 DEF InHand
<1>8. DraftKept' /\ \A i \in Launches : SaidQueued(i)' => SaidQueued(i)
  BY <1>2 DEF WindowInv, DraftKept, SaidQueued
<1> QED
  BY <1>2, <1>5, <1>6, <1>7, <1>8, RunnerTurn

(* A runner begins a command. Only a draft is refused for one that waits   *)
(* in the editor, and only it must not have one given up for it.           *)
LEMMA Begins ==
    ASSUME WindowInv, NEW r \in Runners, BeginCommand(r)
    PROVE  WindowInv'
<1> DEFINE j == Head(runner[r].taken)
           begun == [runner[r] EXCEPT !.taken = Tail(runner[r].taken), !.doing = j, !.phase = "opened"]
           over == [runner[r] EXCEPT !.taken = Tail(runner[r].taken)]
<1>1. WindowTyped /\ runner[r] \in RunnerRow /\ RunnerSound(r) /\ runner[r].taken \in Seq(Launches)
  BY DEF WindowInv, WindowTyped, RunnerRow
<1>2. /\ runner[r].at = "live" /\ runner[r].phase = "-" /\ runner[r].taken # <<>>
      /\ UNCHANGED <<request, queue4, dropped>>
  BY DEF BeginCommand, Doing, outsideVars
<1>3. /\ j \in Launches /\ Tail(runner[r].taken) \in Seq(Launches)
      /\ Range(runner[r].taken) = {j} \cup Range(Tail(runner[r].taken))
  BY <1>1, <1>2, RangeOf
<1>4. runner[r].doing = NoLaunch
  BY <1>1, <1>2 DEF RunnerSound
<1>5. /\ begun \in RunnerRow /\ begun.at = "live" /\ begun.phase = "opened"
      /\ begun.taken = Tail(runner[r].taken) /\ begun.doing = j
  BY <1>1, <1>2, <1>3 DEF RunnerRow, Phases
<1>6. /\ over \in RunnerRow /\ over.at = "live" /\ over.phase = "-"
      /\ over.taken = Tail(runner[r].taken) /\ over.doing = NoLaunch
  BY <1>1, <1>2, <1>3, <1>4 DEF RunnerRow
<1>7. \/ runner' = [runner EXCEPT ![r] = begun]
      \/ runner' = [runner EXCEPT ![r] = over]
  BY DEF BeginCommand
<1>8. \/ runner' = [runner EXCEPT ![r] = begun] /\ launch' = launch
      \/ \E status : status # "command_queued" /\ Tell(j, status)
  BY DEF BeginCommand
<1>9. \A s \in spoiled' \ spoiled : OrderOf[s[2]].target # "publish"
  BY DEF BeginCommand, Leave, Unsaved
<1> HIDE DEF begun, over, j
<1>10. /\ runner' \in [Runners -> RunnerRow]
       /\ runner'[r] = begun \/ runner'[r] = over
       /\ \A q \in Runners \ {r} : runner'[q] = runner[q]
  BY <1>1, <1>5, <1>6, <1>7 DEF WindowTyped
<1>11. /\ DOMAIN launch' = Launches /\ \A i \in Launches : "status" \in DOMAIN launch'[i]
       /\ \A i \in Launches : SaidQueued(i)' => SaidQueued(i) /\ (runner'[r] = begun \/ i # j)
  <2>1. CASE runner' = [runner EXCEPT ![r] = begun] /\ launch' = launch
    BY <2>1, <1>1 DEF WindowTyped, SaidQueued
  <2>2. CASE \E status : status # "command_queued" /\ Tell(j, status)
    BY <2>2, <1>1, Telling
  <2> QED
    BY <1>8, <2>1, <2>2
<1>12. WindowTyped'
  BY <1>1, <1>2, <1>10, <1>11 DEF WindowTyped
<1>13. RunnerSound(r)'
  BY <1>5, <1>6, <1>10 DEF RunnerSound
<1>14. \A i \in Launches : SaidQueued(i)' /\ i \in InHand(r) => i \in InHand(r)'
  <2>1. \A i \in InHand(r) : i = j \/ i \in Range(Tail(runner[r].taken)) \/ i = NoLaunch
    BY <1>3, <1>4 DEF InHand
  <2>2. Range(Tail(runner[r].taken)) \subseteq InHand(r)' /\ (runner'[r] = begun => j \in InHand(r)')
    BY <1>5, <1>6, <1>10 DEF InHand
  <2> QED
    BY <2>1, <2>2, <1>11, LaunchesNamed
<1>15. DraftKept'
  BY <1>9 DEF WindowInv, DraftKept
<1> QED
  BY <1>2, <1>10, <1>11, <1>12, <1>13, <1>14, <1>15, RunnerTurn

(* A runner ends, by a closed window or killed, with all it had in hand;   *)
(* and the operator works in the window.                                   *)
LEMMA RunnerEnds ==
    ASSUME WindowInv, NEW r \in Runners, CloseWindow(r) \/ KillRunner(r)
    PROVE  WindowInv'
<1>1. WindowTyped
  BY DEF WindowInv
<1>2. /\ runner' = [runner EXCEPT ![r] = Idle4]
      /\ UNCHANGED <<request, queue4, spoiled>> /\ dropped \subseteq dropped'
  BY DEF CloseWindow, KillRunner, launchVars, outsideVars
<1>3. /\ Idle4 \in RunnerRow /\ Idle4.taken = <<>> /\ Idle4.doing = NoLaunch /\ Idle4.phase = "-"
  BY DEF RunnerRow, Phases, Idle4
<1>4. /\ runner' \in [Runners -> RunnerRow] /\ runner'[r] = Idle4
      /\ \A q \in Runners \ {r} : runner'[q] = runner[q]
  BY <1>1, <1>2, <1>3 DEF WindowTyped
<1>5. /\ DOMAIN launch' = Launches /\ \A i \in Launches : "status" \in DOMAIN launch'[i]
      /\ \A i \in Launches : SaidQueued(i)' => SaidQueued(i) /\ (i \in InHand(r) => i \in dropped')
  <2>1. CASE CloseWindow(r)
    <3> DEFINE closed(i) == IF runner[r].doing = runner[r].first /\ runner[r].doing # NoLaunch THEN "failed"
                            ELSE "browser_closed"
    <3>1. launch' = [i \in Launches |->
             IF i = runner[r].first THEN [launch[i] EXCEPT !.status = closed(i)]
             ELSE IF i \in InHand(r) THEN [launch[i] EXCEPT !.status = "failed"] ELSE launch[i]]
      BY <2>1 DEF CloseWindow, InHand
    <3>2. \A i \in Launches : closed(i) # "command_queued"
      OBVIOUS
    <3> HIDE DEF closed
    <3> QED
      BY <3>1, <3>2, <1>1 DEF WindowTyped, SaidQueued
  <2>2. CASE KillRunner(r)
    <3>1. launch' = launch /\ dropped' = dropped \cup Range(runner[r].taken) \cup ({runner[r].doing} \ {NoLaunch})
      BY <2>2 DEF KillRunner, launchVars
    <3>2. \A i \in Launches : i \in InHand(r) => i \in dropped'
      BY <3>1, LaunchesNamed DEF InHand
    <3> QED
      BY <3>1, <3>2, <1>1 DEF WindowTyped, SaidQueued
  <2> QED
    BY <2>1, <2>2
<1>6. WindowTyped'
  BY <1>1, <1>2, <1>4, <1>5 DEF WindowTyped
<1>7. RunnerSound(r)' /\ DraftKept'
  BY <1>2, <1>3, <1>4 DEF RunnerSound, WindowInv, DraftKept
<1> QED
  BY <1>2, <1>4, <1>5, <1>6, <1>7, RunnerTurn

LEMMA Operates == ASSUME WindowInv, Operate PROVE WindowInv'
  BY DEF Operate, launchVars, WindowInv, WindowTyped, RunnerSound, SaidQueued, HeldSomewhere, InHand, DraftKept

LEMMA WindowSteps == ASSUME WindowInv, SessionNext PROVE WindowInv'
<1>1. ASSUME NEW r \in Runners, RunnerStep(r)
      PROVE  WindowInv'
  BY <1>1, WindowOpens, QueueReads, QueueEmpties, Begins, PagesGo DEF RunnerStep
<1> QED
  BY <1>1, RequestsGo, Spawns, RunnerEnds, Operates DEF SessionNext

LEMMA WindowKeeps == WindowInv /\ UNCHANGED sessionVars => WindowInv'
  BY DEF sessionVars, launchVars, windowVars, WindowInv, WindowTyped, RunnerSound, SaidQueued, HeldSomewhere,
         InHand, DraftKept

-----------------------------------------------------------------------------
WorkInv == SchedInv /\ FlowInv /\ OutInv /\ WindowInv

LEMMA WorkSteps == ASSUME WorkInv, [WorkNext]_workVars PROVE WorkInv'
<1>1. CASE SchedNext /\ UNCHANGED <<workflowVars, dispatchVars, sessionVars>>
  BY <1>1, SchedSteps, FlowKeeps, OutKeeps, WindowKeeps DEF WorkInv
<1>2. CASE WorkflowNext /\ UNCHANGED <<schedVars, dispatchVars, sessionVars>>
  BY <1>2, SchedKeeps, FlowSteps, OutKeeps, WindowKeeps DEF WorkInv
<1>3. CASE DispatchNext /\ UNCHANGED <<schedVars, workflowVars, sessionVars>>
  BY <1>3, SchedKeeps, FlowKeeps, OutSteps, WindowKeeps DEF WorkInv
<1>4. CASE SessionNext /\ UNCHANGED <<schedVars, workflowVars, dispatchVars>>
  BY <1>4, SchedKeeps, FlowKeeps, OutKeeps, WindowSteps DEF WorkInv
<1>5. CASE UNCHANGED workVars
  BY <1>5, SchedKeeps, FlowKeeps, OutKeeps, WindowKeeps DEF WorkInv, workVars
<1> QED
  BY <1>1, <1>2, <1>3, <1>4, <1>5 DEF WorkNext

THEOREM WorkInvariant == WorkSpec => []WorkInv
<1>1. WorkInit => WorkInv
  BY SchedStarts, FlowStarts, OutStarts, WindowStarts DEF WorkInit, WorkInv
<1>2. WorkInv /\ [WorkNext]_workVars => WorkInv'
  BY WorkSteps
<1> QED
  BY <1>1, <1>2, PTL DEF WorkSpec

THEOREM WorkHeldAlways == WorkSpec => []WorkHeld
<1>1. WorkInv => WorkHeld
  BY FlowTold, OutTaken, WindowHeld DEF WorkInv, SchedInv, WorkHeld
<1> QED
  BY <1>1, WorkInvariant, PTL

(* The behaviours of ServicesMC, whose runs choose one service at a time,  *)
(* are among those of WorkSpec.                                            *)
LEMMA Served == ASSUME Next PROVE [WorkNext]_workVars
<1> USE DEF schedVars, workflowVars, dispatchVars, sessionVars, workVars
<1>1. CASE ServedNext
  <2>1. CASE /\ chosen = "scheduler" /\ WorkersNext
             /\ UNCHANGED <<budgetVars, fakeVars, authVars, deletionVars, distributionVars, flowVars, accessVars, governVars>>
    BY <2>1 DEF WorkersNext, WorkNext, flowVars, governVars, consoleVars
  <2>2. CASE chosen = "workflow" /\ WorkflowNext /\ UNCHANGED <<memoryVars, distributionVars, dispatchVars, accessVars, governVars>>
    BY <2>2 DEF WorkNext, memoryVars, governVars, consoleVars
  <2>3. CASE chosen = "dispatch" /\ EventsNext /\ UNCHANGED <<memoryVars, distributionVars, workflowVars, accessVars, governVars>>
    BY <2>3 DEF EventsNext, WorkNext, memoryVars, governVars, consoleVars
  <2>4. CASE chosen \in {"session", "rules", "pilots"} /\ (BrowserNext \/ RulesNext \/ PlansNext)
             /\ UNCHANGED <<memoryVars, distributionVars, flowVars, accessVars, metricVars, feedbackVars>>
    <3>1. (\E j \in Launches : LetThrough(j)) => SessionNext
      BY DEF SessionNext
    <3>2. SessionNext \/ UNCHANGED sessionVars
      <4> HIDE DEF sessionVars
      <4> QED
        BY <2>4, <3>1 DEF BrowserNext, RulesNext, PlansNext
    <3>3. UNCHANGED <<schedVars, workflowVars, dispatchVars>>
      BY <2>4 DEF memoryVars, flowVars
    <3> HIDE DEF schedVars, workflowVars, dispatchVars, sessionVars
    <3> QED
      BY <3>2, <3>3 DEF WorkNext
  <2>5. CASE UNCHANGED <<schedVars, flowVars, consoleVars>>
    BY <2>5 DEF flowVars, consoleVars
  <2> QED
    BY <1>1, <2>1, <2>2, <2>3, <2>4, <2>5 DEF ServedNext, memoryVars, governVars
<1>2. CASE DecideNext \/ RecoverNext
  BY <1>2 DEF DecideNext, RecoverNext, servedVars, memoryVars, flowVars, governVars, consoleVars
<1> QED
  BY <1>1, <1>2 DEF Next

THEOREM WorkHeldInServices == Spec => []WorkHeld
<1>1. Init => WorkInit
  BY DEF Init, WorkInit
<1>2. [Next]_allVars => [WorkNext]_workVars
  <2>1. UNCHANGED allVars => UNCHANGED workVars
    BY DEF allVars, servedVars, memoryVars, flowVars, governVars, consoleVars, workVars
  <2> QED
    BY <2>1, Served
<1>3. WorkSpec => []WorkHeld
  BY WorkHeldAlways
<1> QED
  BY <1>1, <1>2, <1>3, PTL DEF Spec, WorkSpec

-----------------------------------------------------------------------------
(* Records: what is on record of deletions and their plans, of recovery    *)
(* drills, of pilot runs and of evaluations is so. Five services that      *)
(* share nothing, each moved by its own commands at any time.              *)

recordVars == <<deletionVars, planVars, recoveryVars, pilotVars, evalVars>>

EvalNext == RegisterNext \/ RunNext

(* The versions there are at the start may be any.                         *)
EvalRegistered == DOMAIN registered = VersionKinds /\ \A kind \in VersionKinds : registered[kind] \in Seq(BodiesOf[kind])

RecordsInit ==
    /\ DeletionInit /\ PlanInit /\ RecoveryInit /\ OperationInit
    /\ EvalRegistered /\ EvalInit(registered)

RecordsNext ==
    \/ DeletionNext /\ UNCHANGED <<planVars, recoveryVars, pilotVars, evalVars>>
    \/ PlanNext /\ UNCHANGED <<deletionVars, recoveryVars, pilotVars, evalVars>>
    \/ RecoveryNext /\ UNCHANGED <<deletionVars, planVars, pilotVars, evalVars>>
    \/ PilotNext /\ UNCHANGED <<deletionVars, planVars, recoveryVars, evalVars>>
    \/ EvalNext /\ UNCHANGED <<deletionVars, planVars, recoveryVars, pilotVars>>

RecordsSpec == RecordsInit /\ [][RecordsNext]_recordVars

-----------------------------------------------------------------------------
(* Deletion. The status is the one the stages have by now, whatever copies *)
(* were written over whatever versions; and what a call found gone is.     *)
CallFinds(c) ==
    /\ "at" \in DOMAIN c
    /\ c.at \in {"process", "write"} =>
          /\ {"by", "stage", "success", "evidence"} \subseteq DOMAIN c
          /\ c.by \in {"caller", "propagate", "manual"}
          /\ c.success /\ c.evidence = "checked" => c.stage \in gone

ErasureInv ==
    /\ "status" \in DOMAIN deletion /\ DOMAIN stage = Stages /\ DOMAIN delCall = DeletionThreads
    /\ \/ deletion.status \in {"none", "requested"} /\ \A s \in Stages : stage[s].status = "pending"
       \/ deletion.status = DeletionStatus(stage)
    /\ \A s \in Stages : stage[s].evidence = "checked" => s \in gone
    /\ \A t \in DeletionThreads : CallFinds(delCall[t])

-----------------------------------------------------------------------------
(* Plans. A plan that is queued has the request of its key, wherever it is *)
(* - in the hands of a call, under its key, or stored - and a call stores  *)
(* what its key remembers.                                                 *)
PlanHolds(p) ==
    /\ p.ask \in DeletionAsks /\ p.status # "none"
    /\ p.status = "queued" => p.request \in PlanKeys /\ handedOver[p.request] # NoAsk /\ Deletable(p.ask)

PlanOfKey(p, k) == PlanHolds(p) /\ (p.status = "queued" => p.request = k)

PlanCallHolds(c) ==
    /\ c = [at |-> c.at, key |-> c.key, plan |-> c.plan]
    /\ c.at \in {"hand", "save", "store"} /\ c.key \in PlanKeys /\ PlanOfKey(c.plan, c.key)
    /\ c.at = "hand" => Deletable(c.plan.ask)
    /\ c.at = "store" => planCommand[c.key] # NoPlan /\ planCommand[c.key].ask = c.plan.ask

PlanInv ==
    /\ handedOver \in [PlanKeys -> DeletionAsks \cup {NoAsk}]
    /\ DOMAIN planCommand = PlanKeys /\ DOMAIN plans = DeletionAsks /\ DOMAIN planCall = DeletionThreads
    /\ \A k \in PlanKeys : handedOver[k] # NoAsk => Deletable(handedOver[k])
    /\ \A k \in PlanKeys : planCommand[k] # NoPlan => PlanOfKey(planCommand[k], k)
    /\ \A a \in DeletionAsks : plans[a] # NoPlan =>
          /\ PlanHolds(plans[a]) /\ plans[a].ask = a
          /\ \E k \in PlanKeys : planCommand[k] # NoPlan /\ planCommand[k].ask = a
    /\ sentOn \subseteq {k \in PlanKeys : handedOver[k] # NoAsk}
    /\ \A t \in DeletionThreads : planCall[t] # NotPlanning => PlanCallHolds(planCall[t])

-----------------------------------------------------------------------------
(* Drills. Rows of the source have their objects, and so has every image   *)
(* taken of it; a driller who goes on to the rows has the objects of the   *)
(* snapshot, in a store that only grows; and a key names what it made.     *)
BodyRow == [image : SUBSET Things, objects : SUBSET Things]
BackupRow == [body : BodyRow, files : {"none", "torn", "whole"}]
RestoreRow ==
    [of : Nat, into : Drillers, met : BOOLEAN, queues : SUBSET DrillQueues, released : BOOLEAN, version : Nat,
     pauses : SUBSET DrillQueues, registered : BOOLEAN]
RestoreAsk == [of : Nat, queues : SUBSET DrillQueues, met : BOOLEAN]

Whole(body) == body.image \subseteq body.objects
ObjectsOf(n) == backups[n].body.objects
HasThings(t, n) == n \in DOMAIN backups /\ ObjectsOf(n) \subseteq filled[t]

RestoreHolds(x) ==
    /\ x.of \in DOMAIN backups
    /\ x.released => x.met
    /\ x.registered /\ ~x.released => x.pauses = x.queues
    /\ x.registered => ObjectsOf(x.of) \subseteq filled[x.into]

KeyHolds(c) ==
    /\ c.kind = "backup" => c.of \in DOMAIN backups
    /\ c.kind = "restore" => c.of \in DOMAIN restores /\ restores[c.of].of = c.hash.of
    /\ c.kind = "release" => c.hash.of \in DOMAIN restores /\ restores[c.hash.of].released

DrillHolds(t, c) ==
    /\ c.at \in {"objects", "create", "put", "restore", "release"} => c.key \in DrillKeys
    /\ c.at = "objects" => c.image \in SUBSET Things /\ c.image \subseteq source.objects
    /\ c.at = "create" => c.body \in BodyRow /\ Whole(c.body)
    /\ c.at = "files" => c.of \in DOMAIN backups
    /\ c.at \in {"put", "restore"} =>
          /\ c = [at |-> c.at, key |-> c.key, request |-> c.request]
          /\ c.request \in RestoreAsk /\ c.request.of \in DOMAIN backups
    /\ c.at = "put" => filled[t] = {}
    /\ c.at = "restore" => HasThings(t, c.request.of)
    /\ c.at = "rows" => c.of \in DOMAIN restores /\ HasThings(t, restores[c.of].of)
    /\ c.at = "release" => c.of \in DOMAIN restores /\ c.version \in Nat
    /\ c.at = "unpause" => c.of \in DOMAIN restores /\ restores[c.of].released

DrillTyped ==
    /\ source \in [objects : SUBSET Things, rows : SUBSET Things]
    /\ backups \in Seq(BackupRow) /\ restores \in Seq(RestoreRow)
    /\ pausedBy \in [DrillQueues -> [restore : Nat, paused : BOOLEAN]]
    /\ filled \in [Drillers -> SUBSET Things]
    /\ DOMAIN drilled = DrillKeys /\ DOMAIN drill = Drillers

PausesHold ==
    \A q \in DrillQueues : pausedBy[q].restore # 0 =>
        /\ pausedBy[q].restore \in DOMAIN restores
        /\ pausedBy[q].paused <=> ~restores[pausedBy[q].restore].released

DrillInv ==
    /\ DrillTyped
    /\ source.rows \subseteq source.objects
    /\ \A n \in DOMAIN backups : Whole(backups[n].body)
    /\ \A r \in DOMAIN restores : RestoreHolds(restores[r])
    /\ PausesHold
    /\ \A k \in DrillKeys : KeyHolds(drilled[k])
    /\ \A t \in Drillers : DrillHolds(t, drill[t])

-----------------------------------------------------------------------------
(* Pilots. A run that was answered as ended is so in memory and on disk.   *)
PilotRow ==
    [status : {"none", "planned", "running", "completed", "stopped"}, accounts : SUBSET PilotAccounts,
     items : Seq(UNION {Range(items) : items \in ItemLists})]

EndedPilot(x) == x.status \in {"completed", "stopped"}

PilotInv ==
    /\ pilot \in [Pilots -> PilotRow] /\ pilotFile \in [Pilots -> PilotRow] /\ pilotTold \in [Pilots -> PilotRow]
    /\ \A p \in Pilots :
          /\ EndedPilot(pilotTold[p]) => pilot[p] = pilotTold[p] /\ pilotFile[p] = pilotTold[p]
          /\ pilotTold[p].status # "none" => pilot[p].status # "none" /\ pilotFile[p].status # "none"
          /\ pilotTold[p].status = "none" => pilotTold[p] = NoPilot
    /\ PilotAssigned

-----------------------------------------------------------------------------
(* Evaluations. A run, stored or in progress, has its request from what is *)
(* registered, has spent no more than it may, and says of no case that it  *)
(* passed but by an answer the gateway keeps for it.                       *)
ResultRow == [status : {"passed", "failed", "error"}, cost : Nat]
EvalAsk == [prompt : Nat, golden : Nat, threshold : Nat, baseline : Nat, cents : Nat]
EvalRow == [key : EvalKeys, request : EvalAsk, results : Seq(ResultRow), total : Nat, gate : {"passed", "failed"}]

AskedFor(req) ==
    /\ req \in EvalAsk /\ req.prompt \in DOMAIN registered["prompt"] /\ req.golden \in DOMAIN registered["golden_set"]
    /\ req.threshold \in DOMAIN registered["threshold"]
    /\ req.cents <= LimitsOf(req).each
    /\ req.baseline # 0 =>
          req.baseline \in DOMAIN evalRuns /\ CasesOf(evalRuns[req.baseline].request) = CasesOf(req)

AnswerTo(key, req, i) ==
    /\ <<key, i>> \in DOMAIN gatewayCall /\ gatewayCall[<<key, i>>].answer.says = "right"
    /\ gatewayCall[<<key, i>>].payload.prompt = req.prompt /\ gatewayCall[<<key, i>>].payload.has = CasesOf(req)[i]

ResultsHold(key, req, results) ==
    /\ results \in Seq(ResultRow) /\ Len(results) <= Len(CasesOf(req))
    /\ \A i \in DOMAIN results :
          results[i].cost <= LimitsOf(req).each /\ (results[i].status = "passed" => AnswerTo(key, req, i))

EvalRunHolds(r) ==
    /\ r.key \in EvalKeys /\ AskedFor(r.request) /\ ResultsHold(r.key, r.request, r.results)
    /\ r.total \in Nat /\ r.total <= LimitsOf(r.request).total

GatePassed(r) ==
    /\ 100 * Counted(r.results, "passed") >= LimitsOf(r.request).exact * Len(r.results)
    /\ r.request.baseline # 0 =>
          100 * (Counted(evalRuns[r.request.baseline].results, "passed") - Counted(r.results, "passed"))
             <= LimitsOf(r.request).drop * Len(r.results)

CallsHold ==
    /\ asked \in Seq(EvalKeys \X Nat) /\ IsInjective(asked) /\ Range(asked) = DOMAIN gatewayCall
    /\ \A c \in DOMAIN gatewayCall :
          gatewayCall[c].answer.cost \in Nat /\ gatewayCall[c].answer.cost <= gatewayCall[c].payload.cents

StoredAs(r) ==
    /\ EvalRunHolds(r) /\ Len(r.results) = Len(CasesOf(r.request))
    /\ r.gate = "passed" => GatePassed(r)

StoredHold == evalRuns \in Seq(EvalRow) /\ \A n \in DOMAIN evalRuns : StoredAs(evalRuns[n])

KeyMade(k) ==
    LET c == evalKey[k] IN
    /\ c.command \in VersionKinds =>
          c.made \in DOMAIN registered[c.command] /\ c.request[1] = c.made /\ registered[c.command][c.made] = c.request[2]
    /\ c.command = "run" =>
          c.made \in DOMAIN evalRuns /\ evalRuns[c.made].key = k /\ evalRuns[c.made].request = c.request
    /\ c.command \in VersionKinds \cup {"run", "none"}

KeysApart ==
    \A k, l \in EvalKeys : k # l /\ evalKey[k].command # "none" /\ evalKey[l].command = evalKey[k].command =>
        evalKey[l].made # evalKey[k].made

InProgress ==
    \A e \in {evaluating} \ {NotEvaluating} :
        /\ e = [key |-> e.key, request |-> e.request, results |-> e.results, total |-> e.total]
        /\ EvalRunHolds(e) /\ evalKey[e.key] = NotUsed

EvalInv ==
    /\ EvalRegistered /\ CallsHold /\ StoredHold /\ InProgress
    /\ DOMAIN evalKey = EvalKeys /\ (\A k \in EvalKeys : KeyMade(k)) /\ KeysApart

-----------------------------------------------------------------------------
LEMMA ErasureStarts == DeletionInit => ErasureInv
  BY DEF DeletionInit, ErasureInv, NotCalling, CallFinds

LEMMA StatusTold == ErasureInv => DeletionTold
<1> SUFFICES ASSUME ErasureInv PROVE DeletionTold
  OBVIOUS
<1>1. PICK s \in Stages : TRUE
  <2>1. 1 \in DOMAIN StageOrder
    BY DeletionBounds
  <2> QED
    BY <2>1 DEF Stages
<1>2. CASE deletion.status \in {"none", "requested"} /\ \A u \in Stages : stage[u].status = "pending"
  BY <1>1, <1>2 DEF ErasureInv, DeletionTold
<1>3. CASE deletion.status = DeletionStatus(stage)
  <2> DEFINE are == {stage[u].status : u \in Stages}
  <2>1. are = {"completed"} <=> \A u \in Stages : stage[u].status = "completed"
    BY <1>1
  <2>2. "failed" \notin are <=> \A u \in Stages : stage[u].status # "failed"
    OBVIOUS
  <2>3. deletion.status = IF are = {"completed"} THEN "completed"
                          ELSE IF "failed" \notin are THEN "running"
                          ELSE IF "completed" \in are THEN "partially_completed" ELSE "failed"
    BY <1>3 DEF DeletionStatus
  <2> HIDE DEF are
  <2>4. deletion.status = "completed" <=> are = {"completed"}
    BY <2>3
  <2>5. deletion.status \in {"requested", "running"} => "failed" \notin are
    BY <2>3
  <2>6. \A u \in Stages : stage[u].evidence = "checked" => u \in gone
    BY DEF ErasureInv
  <2> QED
    BY <2>1, <2>2, <2>4, <2>5, <2>6 DEF DeletionTold
<1> QED
  BY <1>2, <1>3 DEF ErasureInv

(* A step of one call that leaves the stages alone.                        *)
LEMMA CallMoves ==
    ASSUME ErasureInv, NEW t \in DeletionThreads, NEW c, CallFinds(c)',
           delCall' = [delCall EXCEPT ![t] = c], gone \subseteq gone', UNCHANGED <<deletion, stage>>
    PROVE  ErasureInv'
<1>1. \A u \in DeletionThreads \ {t} : delCall'[u] = delCall[u] /\ CallFinds(delCall[u])
  BY DEF ErasureInv
<1>2. \A u \in DeletionThreads \ {t} : CallFinds(delCall[u])'
  BY <1>1 DEF CallFinds
<1>3. CallFinds(delCall[t])' /\ DOMAIN delCall' = DeletionThreads
  BY DEF ErasureInv
<1>4. DeletionStatus(stage)' = DeletionStatus(stage)
  BY DEF DeletionStatus
<1> QED
  BY <1>2, <1>3, <1>4 DEF ErasureInv

(* A step that writes stages, each as it was or with what is so of it.     *)
LEMMA StagesMove ==
    ASSUME ErasureInv, NEW stages, DOMAIN stages = Stages, stage' = stages, UNCHANGED gone,
           "status" \in DOMAIN deletion', deletion'.status = DeletionStatus(stages),
           \A s \in Stages : stages[s].evidence = "checked" => s \in gone,
           DOMAIN delCall' = DeletionThreads, \A t \in DeletionThreads : CallFinds(delCall'[t])
    PROVE  ErasureInv'
<1>1. deletion'.status = DeletionStatus(stage)'
  BY DEF DeletionStatus
<1>2. \A t \in DeletionThreads : CallFinds(delCall[t])'
  BY DEF CallFinds
<1> QED
  BY <1>1, <1>2 DEF ErasureInv

LEMMA StageWritten ==
    ASSUME ErasureInv, NEW t \in DeletionThreads, StageWrites(t) PROVE ErasureInv'
<1> DEFINE c == delCall[t]
           stages == [stage EXCEPT ![c.stage] = Outcome(c.success, c.evidence)]
<1>1. /\ c.at = "write" /\ stage' = stages /\ UNCHANGED gone
      /\ deletion' = [status |-> DeletionStatus(stages), version |-> c.expected + 1]
  BY DEF StageWrites
<1>2. CallFinds(c) /\ DOMAIN delCall = DeletionThreads
  BY DEF ErasureInv
<1>3. \A s \in Stages : stages[s].evidence = "checked" => s \in gone
  <2> SUFFICES ASSUME NEW s \in Stages, stages[s].evidence = "checked" PROVE s \in gone
    OBVIOUS
  <2>1. CASE s = c.stage
    <3>1. stages[s] = Outcome(c.success, c.evidence)
      BY <2>1 DEF ErasureInv
    <3>2. c.success /\ c.evidence = "checked"
      BY <3>1 DEF Outcome
    <3> QED
      BY <1>1, <1>2, <2>1, <3>2 DEF CallFinds
  <2>2. CASE s # c.stage
    BY <2>2 DEF ErasureInv
  <2> QED
    BY <2>1, <2>2
<1>4. DOMAIN stages = Stages
  BY DEF ErasureInv
<1>5. PICK d : delCall' = [delCall EXCEPT ![t] = d] /\ CallFinds(d)
  <2> DEFINE next == [at |-> "propagate", next |-> c.next + 1, expected |-> c.expected + 1]
             task == [at |-> "task", task |-> c.task, success |-> c.success]
  <2>f. CallFinds(NotCalling) /\ CallFinds(next) /\ CallFinds(task)
    BY DEF CallFinds, NotCalling
  <2>w. delCall' = [delCall EXCEPT ![t] = CASE c.by = "caller"    -> NotCalling
                                            [] c.by = "propagate" -> next
                                            [] c.by = "manual"    -> task]
    BY DEF StageWrites
  <2> HIDE DEF next, task
  <2>1. CASE c.by = "caller"
    <3>1. delCall' = [delCall EXCEPT ![t] = NotCalling]
      BY <2>1, <2>w
    <3> QED
      BY <3>1, <2>f
  <2>2. CASE c.by = "propagate"
    <3>1. delCall' = [delCall EXCEPT ![t] = next]
      BY <2>2, <2>w
    <3> QED
      BY <3>1, <2>f
  <2>3. CASE c.by = "manual"
    <3>1. delCall' = [delCall EXCEPT ![t] = task]
      BY <2>3, <2>w
    <3> QED
      BY <3>1, <2>f
  <2> QED
    BY <1>1, <1>2, <2>1, <2>2, <2>3 DEF CallFinds
<1>6. DOMAIN delCall' = DeletionThreads /\ \A u \in DeletionThreads : CallFinds(delCall'[u])
  BY <1>2, <1>5 DEF ErasureInv
<1> HIDE DEF stages
<1> QED
  BY <1>1, <1>3, <1>4, <1>6, StagesMove

LEMMA ErasureSteps == ASSUME ErasureInv, DeletionNext PROVE ErasureInv'
<1>1. CASE RequestDeletion
  <2>1. deletion.status = "none" /\ deletion' = [deletion EXCEPT !.status = "requested"]
        /\ UNCHANGED <<stage, gone, delCall>>
    BY <1>1 DEF RequestDeletion
  <2>2. \A u \in Stages : stage[u].status = "pending"
    <3>1. DeletionStatus(stage) # "none"
      BY DEF DeletionStatus
    <3> QED
      BY <2>1, <3>1 DEF ErasureInv
  <2>3. deletion'.status = "requested" /\ "status" \in DOMAIN deletion'
    BY <2>1 DEF ErasureInv
  <2>4. \A u \in DeletionThreads : CallFinds(delCall[u])'
    BY <2>1 DEF ErasureInv, CallFinds
  <2> QED
    BY <2>1, <2>2, <2>3, <2>4 DEF ErasureInv
<1>2. CASE RestartDeletion
  <2>1. delCall' = [u \in DeletionThreads |-> NotCalling] /\ UNCHANGED <<deletion, stage, gone>>
    BY <1>2 DEF RestartDeletion
  <2>2. \A u \in DeletionThreads : CallFinds(delCall[u])'
    BY <2>1 DEF CallFinds, NotCalling
  <2>3. DeletionStatus(stage)' = DeletionStatus(stage)
    BY <2>1 DEF DeletionStatus
  <2> QED
    BY <2>1, <2>2, <2>3 DEF ErasureInv
<1>3. CASE \E fate \in [Stages -> BOOLEAN] : ProcessAll(fate)
  <2>1. PICK fate \in [Stages -> BOOLEAN] : ProcessAll(fate)
    BY <1>3
  <2>2. PICK touched, stages :
            /\ stages = [s \in Stages |-> IF s \in touched THEN Outcome(fate[s], "given") ELSE stage[s]]
            /\ stage' = stages /\ UNCHANGED <<gone, delCall>>
            /\ deletion'.status = DeletionStatus(stages) /\ "status" \in DOMAIN deletion'
    BY <2>1 DEF ProcessAll
  <2>3. \A s \in Stages : stages[s].evidence = "checked" => s \in gone
    BY <2>2 DEF ErasureInv, Outcome
  <2>4. DOMAIN delCall' = DeletionThreads /\ \A u \in DeletionThreads : CallFinds(delCall'[u])
    BY <2>2 DEF ErasureInv
  <2> QED
    BY <2>2, <2>3, <2>4, StagesMove
<1>4. CASE \E t \in DeletionThreads : Propagate(t)
  <2>1. PICK t \in DeletionThreads : Propagate(t)
    BY <1>4
  <2>2. CallFinds([at |-> "propagate", next |-> 1, expected |-> deletion.version])'
    BY <2>1 DEF CallFinds, Propagate
  <2> QED
    BY <2>1, <2>2, CallMoves DEF Propagate
<1>5. CASE \E t \in DeletionThreads : SkipStage(t)
  <2>1. PICK t \in DeletionThreads : SkipStage(t)
    BY <1>5
  <2>2. PICK c : delCall' = [delCall EXCEPT ![t] = c] /\ "at" \in DOMAIN c /\ c.at \in {"idle", "propagate"}
    <3>1. "at" \in DOMAIN delCall[t] /\ delCall[t].at = "propagate"
      BY <2>1 DEF SkipStage, ErasureInv, CallFinds
    <3> DEFINE c == [delCall[t] EXCEPT !.next = @ + 1]
    <3>2. "at" \in DOMAIN c /\ c.at = "propagate"
      BY <3>1
    <3>3. "at" \in DOMAIN NotCalling /\ NotCalling.at = "idle"
      BY DEF NotCalling
    <3>4. delCall' = [delCall EXCEPT ![t] = c] \/ delCall' = [delCall EXCEPT ![t] = NotCalling]
      BY <2>1 DEF SkipStage
    <3> HIDE DEF c
    <3> QED
      BY <3>2, <3>3, <3>4
  <2>3. CallFinds(c)'
    BY <2>2 DEF CallFinds
  <2> QED
    BY <2>1, <2>2, <2>3, CallMoves DEF SkipStage
<1>6. CASE \E t \in DeletionThreads : StageReads(t)
  <2>1. PICK t \in DeletionThreads : StageReads(t)
    BY <1>6
  <2>2. CallFinds(delCall[t]) /\ delCall[t].at = "process" /\ UNCHANGED <<deletion, stage, gone>>
    BY <2>1 DEF StageReads, ErasureInv
  <2>3. CallFinds([delCall[t] EXCEPT !.at = "write"]) /\ CallFinds(NotCalling)
    BY <2>2 DEF CallFinds, NotCalling
  <2>4. PICK c : delCall' = [delCall EXCEPT ![t] = c] /\ CallFinds(c)
    BY <2>1, <2>3 DEF StageReads
  <2>5. CallFinds(c)'
    BY <2>2, <2>4 DEF CallFinds
  <2> QED
    BY <2>2, <2>4, <2>5, CallMoves
<1>7. CASE \E t \in DeletionThreads : StageWrites(t)
  BY <1>7, StageWritten
<1>8. CASE \E t \in DeletionThreads : TaskWrites(t)
  <2>1. CallFinds(NotCalling)'
    BY DEF CallFinds, NotCalling
  <2> QED
    BY <1>8, <2>1, CallMoves DEF TaskWrites
<1>9. CASE \E t \in DeletionThreads : \E deletes, raises \in BOOLEAN : AskStore(t, deletes, raises)
  <2>1. PICK t \in DeletionThreads, deletes \in BOOLEAN, raises \in BOOLEAN : AskStore(t, deletes, raises)
    BY <1>9
  <2> DEFINE s == StageOrder[delCall[t].next]
             c(ok) == [at |-> "process", by |-> "propagate", stage |-> s, next |-> delCall[t].next,
                       success |-> ok, evidence |-> "checked", expected |-> delCall[t].expected]
  <2>2. PICK ok : /\ delCall' = [delCall EXCEPT ![t] = c(ok)] /\ (ok => s \in gone')
                  /\ gone \subseteq gone' /\ UNCHANGED <<deletion, stage>>
    BY <2>1 DEF AskStore
  <2>3. CallFinds(c(ok))'
    BY <2>2 DEF CallFinds
  <2> QED
    BY <2>2, <2>3, CallMoves
<1>10. CASE \E t \in DeletionThreads : \E s \in Stages, success \in BOOLEAN : CallStage(t, s, success)
  <2>1. PICK t \in DeletionThreads, s \in Stages, success \in BOOLEAN : CallStage(t, s, success)
    BY <1>10
  <2>2. CallFinds([at |-> "write", by |-> "caller", stage |-> s, success |-> success, evidence |-> "given",
                   expected |-> deletion.version])'
    BY <2>1 DEF CallFinds, CallStage
  <2> QED
    BY <2>1, <2>2, CallMoves DEF CallStage
<1>11. CASE \E t \in DeletionThreads : \E n \in DOMAIN manual, success \in BOOLEAN : ResolveTask(t, n, success)
  <2>1. PICK t \in DeletionThreads, n \in DOMAIN manual, success \in BOOLEAN : ResolveTask(t, n, success)
    BY <1>11
  <2>2. CallFinds([at |-> "process", by |-> "manual", stage |-> manual[n].stage, task |-> n, success |-> success,
                   evidence |-> "manual", expected |-> deletion.version])'
    BY <2>1 DEF CallFinds, ResolveTask
  <2> QED
    BY <2>1, <2>2, CallMoves DEF ResolveTask
<1> QED
  BY <1>1, <1>2, <1>3, <1>4, <1>5, <1>6, <1>7, <1>8, <1>9, <1>10, <1>11 DEF DeletionNext

LEMMA ErasureKeeps == ErasureInv /\ UNCHANGED deletionVars => ErasureInv'
  BY DEF ErasureInv, deletionVars, CallFinds, DeletionStatus

-----------------------------------------------------------------------------
LEMMA PlanStarts == PlanInit => PlanInv
  BY DEF PlanInit, PlanInv

LEMMA PlansTold == PlanInv => PlansBacked
<1> SUFFICES ASSUME PlanInv PROVE PlansBacked
  OBVIOUS
<1>1. NoPlan.status = "none"
  BY DEF NoPlan
<1>2. ASSUME NEW k \in PlanKeys, planCommand[k].status = "queued"
      PROVE  handedOver[k] # NoAsk /\ Deletable(planCommand[k].ask)
  BY <1>1, <1>2 DEF PlanInv, PlanOfKey, PlanHolds
<1>3. ASSUME NEW a \in DeletionAsks, plans[a] # NoPlan
      PROVE  /\ \E k \in PlanKeys : planCommand[k] # NoPlan /\ planCommand[k].ask = a
             /\ plans[a].status = "queued" => handedOver[plans[a].request] # NoAsk /\ Deletable(a)
  BY <1>3 DEF PlanInv, PlanHolds
<1> QED
  BY <1>2, <1>3 DEF PlansBacked, PlanInv

(* What has been handed over stays so, and so does what is remembered.     *)
HandedOn == \A k \in PlanKeys : handedOver[k] # NoAsk => handedOver'[k] = handedOver[k]
CommandsOn == \A k \in PlanKeys : planCommand[k] # NoPlan => planCommand'[k] = planCommand[k]

(* A step of the call of one thread.                                       *)
LEMMA PlansMove ==
    ASSUME PlanInv, NEW t \in DeletionThreads, NEW c, c = NotPlanning \/ PlanCallHolds(c)',
           planCall' = [planCall EXCEPT ![t] = c], HandedOn, CommandsOn,
           handedOver' \in [PlanKeys -> DeletionAsks \cup {NoAsk}], sentOn' = sentOn,
           \A k \in PlanKeys : handedOver'[k] # NoAsk => Deletable(handedOver'[k]),
           DOMAIN planCommand' = PlanKeys,
           \A k \in PlanKeys : planCommand'[k] = planCommand[k] \/ PlanOfKey(planCommand[k], k)',
           DOMAIN plans' = DeletionAsks,
           \A a \in DeletionAsks : plans'[a] # plans[a] =>
               /\ PlanHolds(plans[a])' /\ plans'[a].ask = a
               /\ \E k \in PlanKeys : planCommand[k] # NoPlan /\ planCommand[k].ask = a
    PROVE  PlanInv'
<1>1. \A k \in PlanKeys : planCommand'[k] # NoPlan => PlanOfKey(planCommand[k], k)'
  <2> SUFFICES ASSUME NEW k \in PlanKeys, planCommand'[k] # NoPlan, planCommand'[k] = planCommand[k]
               PROVE  PlanOfKey(planCommand[k], k)'
    OBVIOUS
  <2>1. PlanOfKey(planCommand[k], k)
    BY DEF PlanInv
  <2> QED
    BY <2>1 DEF HandedOn, PlanOfKey, PlanHolds, Deletable
<1>2. ASSUME NEW a \in DeletionAsks, plans'[a] # NoPlan
      PROVE  /\ PlanHolds(plans[a])' /\ plans'[a].ask = a
             /\ \E k \in PlanKeys : planCommand'[k] # NoPlan /\ planCommand'[k].ask = a
  <2>1. \E k \in PlanKeys : planCommand[k] # NoPlan /\ planCommand[k].ask = a
    BY <1>2 DEF PlanInv
  <2>2. \E k \in PlanKeys : planCommand'[k] # NoPlan /\ planCommand'[k].ask = a
    BY <2>1 DEF CommandsOn
  <2>3. PlanHolds(plans[a])' /\ plans'[a].ask = a
    <3>1. CASE plans'[a] = plans[a]
      <4>1. PlanHolds(plans[a]) /\ plans[a].ask = a
        BY <1>2, <3>1 DEF PlanInv
      <4> QED
        BY <3>1, <4>1 DEF HandedOn, PlanHolds, Deletable
    <3> QED
      BY <3>1
  <2> QED
    BY <2>2, <2>3
<1>3. sentOn' \subseteq {k \in PlanKeys : handedOver'[k] # NoAsk}
  BY DEF PlanInv, HandedOn
<1>4. \A u \in DeletionThreads : planCall'[u] # NotPlanning => PlanCallHolds(planCall[u])'
  <2> SUFFICES ASSUME NEW u \in DeletionThreads, planCall'[u] # NotPlanning PROVE PlanCallHolds(planCall[u])'
    OBVIOUS
  <2> DEFINE d == planCall[u]
  <2>1. CASE u = t
    <3>1. planCall'[u] = c
      BY <2>1 DEF PlanInv
    <3>2. PlanCallHolds(c)'
      BY <3>1
    <3> QED
      BY <3>1, <3>2 DEF PlanCallHolds, PlanOfKey, PlanHolds
  <2>2. CASE u # t
    <3>1. planCall'[u] = d /\ PlanCallHolds(d)
      BY <2>2 DEF PlanInv
    <3>2. PlanOfKey(d.plan, d.key) /\ d.key \in PlanKeys
      BY <3>1 DEF PlanCallHolds
    <3>3. PlanOfKey(planCall[u].plan, planCall[u].key)'
      BY <3>1, <3>2 DEF HandedOn, PlanOfKey, PlanHolds, Deletable
    <3>4. d.at = "store" => planCommand'[d.key] # NoPlan /\ planCommand'[d.key].ask = d.plan.ask
      BY <3>1, <3>2 DEF PlanCallHolds, CommandsOn
    <3> QED
      BY <3>1, <3>3, <3>4 DEF PlanCallHolds, Deletable
  <2> QED
    BY <2>1, <2>2
<1>5. DOMAIN planCall' = DeletionThreads
  BY DEF PlanInv
<1> QED
  BY <1>1, <1>2, <1>3, <1>4, <1>5 DEF PlanInv

LEMMA PlanBegins ==
    ASSUME PlanInv, NEW t \in DeletionThreads, NEW k \in PlanKeys, NEW a \in DeletionAsks, BeginPlan(t, k, a)
    PROVE  PlanInv'
<1> DEFINE p == [status |-> PlanStatus(a), ask |-> a]
           c == [at |-> IF PlanStatus(a) = "planned" THEN "hand" ELSE "save", key |-> k, plan |-> p]
<1>1. planCall' = [planCall EXCEPT ![t] = c] /\ UNCHANGED <<handedOver, planCommand, plans, sentOn>>
  BY DEF BeginPlan
<1>2. /\ PlanStatus(a) \in {"completed", "manual_review", "planned"}
      /\ PlanStatus(a) = "planned" => Deletable(a)
  BY DEF PlanStatus, Deletable
<1>3. PlanOfKey(p, k)'
  BY <1>2 DEF PlanOfKey, PlanHolds
<1>4. c = [at |-> c.at, key |-> c.key, plan |-> c.plan] /\ c.key = k /\ c.plan = p /\ p.ask = a
      /\ c.at \in {"hand", "save"} /\ (c.at = "hand" => PlanStatus(a) = "planned")
  OBVIOUS
<1> HIDE DEF c, p
<1>5. PlanCallHolds(c)'
  BY <1>2, <1>3, <1>4 DEF PlanCallHolds, Deletable
<1>6. /\ HandedOn /\ CommandsOn
      /\ DOMAIN planCommand' = PlanKeys /\ DOMAIN plans' = DeletionAsks
      /\ handedOver' \in [PlanKeys -> DeletionAsks \cup {NoAsk}]
      /\ \A k0 \in PlanKeys : handedOver'[k0] # NoAsk => Deletable(handedOver'[k0])
  BY <1>1 DEF HandedOn, CommandsOn, PlanInv
<1> QED
  BY <1>1, <1>5, <1>6, PlansMove

LEMMA PlanHanded ==
    ASSUME PlanInv, NEW t \in DeletionThreads, NEW makes \in BOOLEAN, NEW raises \in BOOLEAN, HandOver(t, makes, raises)
    PROVE  PlanInv'
<1> PICK d : d = planCall[t]
  OBVIOUS
<1> DEFINE p == IF raises THEN [status |-> "manual_review", ask |-> d.plan.ask]
                ELSE [status |-> "queued", ask |-> d.plan.ask, request |-> d.key]
           c == [at |-> "save", key |-> d.key, plan |-> p]
<1>1. /\ d.at = "hand" /\ (makes \/ raises)
      /\ handedOver' = IF makes /\ handedOver[d.key] = NoAsk
                       THEN [handedOver EXCEPT ![d.key] = d.plan.ask] ELSE handedOver
      /\ planCall' = [planCall EXCEPT ![t] = c] /\ UNCHANGED <<planCommand, plans, sentOn>>
  BY DEF HandOver
<1>2. d.key \in PlanKeys /\ d.plan.ask \in DeletionAsks /\ Deletable(d.plan.ask)
  <2>1. PlanCallHolds(d)
    BY <1>1 DEF PlanInv, NotPlanning
  <2> QED
    BY <1>1, <2>1 DEF PlanCallHolds, PlanOfKey, PlanHolds
<1>3. d.plan.ask # NoAsk
  <2>1. DOMAIN NoAsk = {"anchor"}
    BY DEF NoAsk
  <2>2. "policy" \in DOMAIN d.plan.ask
    BY <1>2, AskedBounds
  <2> QED
    BY <2>1, <2>2
<1>4. handedOver' \in [PlanKeys -> DeletionAsks \cup {NoAsk}] /\ HandedOn /\ CommandsOn
  BY <1>1, <1>2 DEF PlanInv, HandedOn, CommandsOn
<1>5. \A k \in PlanKeys : handedOver'[k] # NoAsk => Deletable(handedOver'[k])
  BY <1>1, <1>2 DEF PlanInv
<1>6. makes => handedOver'[d.key] # NoAsk
  BY <1>1, <1>2, <1>3 DEF PlanInv
<1>7. /\ p.ask = d.plan.ask /\ p.status \in {"manual_review", "queued"}
      /\ p.status = "queued" => ~raises /\ p.request = d.key
  OBVIOUS
<1> HIDE DEF p
<1>8. PlanOfKey(p, d.key)'
  BY <1>1, <1>2, <1>6, <1>7 DEF PlanOfKey, PlanHolds, Deletable
<1>9. PlanCallHolds(c)'
  BY <1>2, <1>8 DEF PlanCallHolds
<1>10. DOMAIN planCommand' = PlanKeys /\ DOMAIN plans' = DeletionAsks
  BY <1>1 DEF PlanInv
<1> HIDE DEF c
<1> QED
  BY <1>1, <1>4, <1>5, <1>9, <1>10, PlansMove

LEMMA PlanSaved == ASSUME PlanInv, NEW t \in DeletionThreads, SavePlan(t) PROVE PlanInv'
<1> PICK d : d = planCall[t]
  OBVIOUS
<1> DEFINE first == planCommand[d.key] = NoPlan
           goes == first \/ planCommand[d.key].ask = d.plan.ask
           on == [at |-> "store", key |-> d.key, plan |-> d.plan]
<1>1. /\ d.at = "save"
      /\ planCommand' = IF first THEN [planCommand EXCEPT ![d.key] = d.plan] ELSE planCommand
      /\ planCall' = [planCall EXCEPT ![t] = IF goes THEN [d EXCEPT !.at = "store"] ELSE NotPlanning]
      /\ UNCHANGED <<handedOver, plans, sentOn>>
  BY DEF SavePlan
<1>2. PlanCallHolds(d)
  BY <1>1 DEF PlanInv, NotPlanning
<1>3. [d EXCEPT !.at = "store"] = on
  BY <1>2 DEF PlanCallHolds
<1>4. d.key \in PlanKeys /\ PlanOfKey(d.plan, d.key) /\ d.plan # NoPlan
  BY <1>2 DEF PlanCallHolds, PlanOfKey, PlanHolds, NoPlan
<1>5. PlanOfKey(d.plan, d.key)'
  <2>1. UNCHANGED handedOver
    BY <1>1
  <2> QED
    BY <1>4, <2>1 DEF PlanOfKey, PlanHolds, Deletable
<1>6. /\ HandedOn /\ CommandsOn
      /\ DOMAIN planCommand' = PlanKeys /\ DOMAIN plans' = DeletionAsks
      /\ handedOver' \in [PlanKeys -> DeletionAsks \cup {NoAsk}]
      /\ \A k0 \in PlanKeys : handedOver'[k0] # NoAsk => Deletable(handedOver'[k0])
  BY <1>1 DEF PlanInv, HandedOn, CommandsOn
<1>7. goes => planCommand'[d.key] # NoPlan /\ planCommand'[d.key].ask = d.plan.ask
  BY <1>1, <1>4 DEF PlanInv
<1> HIDE DEF goes
<1>8. \A k \in PlanKeys : planCommand'[k] = planCommand[k] \/ PlanOfKey(planCommand[k], k)'
  <2> SUFFICES ASSUME NEW k \in PlanKeys, planCommand'[k] # planCommand[k] PROVE PlanOfKey(planCommand[k], k)'
    OBVIOUS
  <2>1. k = d.key /\ planCommand'[k] = d.plan
    BY <1>1, <1>4 DEF PlanInv
  <2> QED
    BY <1>1, <1>4, <2>1 DEF PlanOfKey, PlanHolds, Deletable
<1>9. CASE goes
  <2> PICK c : c = on
    OBVIOUS
  <2>1. PlanCallHolds(c)'
    BY <1>1, <1>4, <1>5, <1>7, <1>9 DEF PlanCallHolds, PlanOfKey, PlanHolds, Deletable
  <2>2. planCall' = [planCall EXCEPT ![t] = c]
    BY <1>1, <1>3, <1>9
  <2> QED
    BY <1>1, <1>6, <1>8, <2>1, <2>2, PlansMove
<1>10. CASE ~goes
  <2>1. planCall' = [planCall EXCEPT ![t] = NotPlanning]
    BY <1>1, <1>10
  <2> QED
    BY <1>1, <1>6, <1>8, <2>1, PlansMove
<1> QED
  BY <1>9, <1>10

LEMMA PlanStored == ASSUME PlanInv, NEW t \in DeletionThreads, StorePlan(t) PROVE PlanInv'
<1> PICK d : d = planCall[t]
  OBVIOUS
<1>1. /\ d.at = "store" /\ plans' = [plans EXCEPT ![d.plan.ask] = d.plan]
      /\ planCall' = [planCall EXCEPT ![t] = NotPlanning] /\ UNCHANGED <<handedOver, planCommand, sentOn>>
  BY DEF StorePlan
<1>2. PlanCallHolds(d)
  BY <1>1 DEF PlanInv, NotPlanning
<1>3. /\ PlanHolds(d.plan) /\ d.key \in PlanKeys
      /\ planCommand[d.key] # NoPlan /\ planCommand[d.key].ask = d.plan.ask
  BY <1>1, <1>2 DEF PlanCallHolds, PlanOfKey
<1>4. /\ HandedOn /\ CommandsOn
      /\ DOMAIN planCommand' = PlanKeys /\ DOMAIN plans' = DeletionAsks
      /\ handedOver' \in [PlanKeys -> DeletionAsks \cup {NoAsk}]
      /\ \A k0 \in PlanKeys : handedOver'[k0] # NoAsk => Deletable(handedOver'[k0])
  BY <1>1 DEF HandedOn, CommandsOn, PlanInv
<1>5. ASSUME NEW a \in DeletionAsks, plans'[a] # plans[a]
      PROVE  PlanHolds(plans[a])' /\ plans'[a].ask = a /\ \E k \in PlanKeys : planCommand[k] # NoPlan /\ planCommand[k].ask = a
  <2>1. a = d.plan.ask /\ plans'[a] = d.plan
    BY <1>1, <1>5 DEF PlanInv
  <2>2. PlanHolds(plans[a])'
    BY <1>1, <1>3, <2>1 DEF PlanHolds, Deletable
  <2> QED
    BY <1>3, <2>1, <2>2
<1> QED
  BY <1>1, <1>4, <1>5, PlansMove

LEMMA PlanSent ==
    ASSUME PlanInv, NEW p, PropagatePlan(p), p # NoPlan => PlanHolds(p) PROVE PlanInv'
<1>1. p.status = "queued" /\ sentOn' = sentOn \cup {p.request} /\ UNCHANGED <<handedOver, planCommand, plans, planCall>>
  BY DEF PropagatePlan
<1>2. p.request \in PlanKeys /\ handedOver[p.request] # NoAsk
  BY <1>1 DEF NoPlan, PlanHolds
<1> QED
  BY <1>1, <1>2 DEF PlanInv, PlanHolds, PlanOfKey, PlanCallHolds, Deletable

LEMMA PlanSteps == ASSUME PlanInv, PlanNext PROVE PlanInv'
<1>1. CASE RestartPlans
  BY <1>1 DEF RestartPlans, PlanInv, Deletable
<1>2. CASE \E t \in DeletionThreads : SavePlan(t)
  BY <1>2, PlanSaved
<1>3. CASE \E t \in DeletionThreads : StorePlan(t)
  BY <1>3, PlanStored
<1>4. CASE \E t \in DeletionThreads : \E k \in PlanKeys, a \in DeletionAsks : BeginPlan(t, k, a)
  BY <1>4, PlanBegins
<1>5. CASE \E t \in DeletionThreads : \E makes, raises \in BOOLEAN : HandOver(t, makes, raises)
  BY <1>5, PlanHanded
<1>6. CASE \E k \in PlanKeys : PropagatePlan(planCommand[k])
  BY <1>6, PlanSent DEF PlanInv, PlanOfKey
<1>7. CASE \E a \in DeletionAsks : PropagatePlan(plans[a])
  BY <1>7, PlanSent DEF PlanInv
<1> QED
  BY <1>1, <1>2, <1>3, <1>4, <1>5, <1>6, <1>7 DEF PlanNext

LEMMA PlanKeeps == PlanInv /\ UNCHANGED planVars => PlanInv'
  BY DEF PlanInv, planVars, PlanHolds, PlanOfKey, PlanCallHolds, Deletable

-----------------------------------------------------------------------------
(* Images are whole: the source stores an object before its row, and an    *)
(* image is taken of the rows before the objects are read.                 *)
LEMMA DrillStarts == RecoveryInit => DrillInv
<1> SUFFICES ASSUME RecoveryInit PROVE DrillInv
  OBVIOUS
<1>1. DrillTyped
  BY DEF RecoveryInit, DrillTyped
<1>2. PausesHold
  BY DEF RecoveryInit, PausesHold
<1>3. \A t \in Drillers : DrillHolds(t, drill[t])
  BY DEF RecoveryInit, DrillHolds, NotDrilling
<1>4. \A k \in DrillKeys : KeyHolds(drilled[k])
  BY DEF RecoveryInit, KeyHolds, NotDrilled
<1> QED
  BY <1>1, <1>2, <1>3, <1>4 DEF RecoveryInit, DrillInv

LEMMA DrillsTold == DrillInv => DrillTold
<1> SUFFICES ASSUME DrillInv PROVE DrillTold
  OBVIOUS
<1>1. \A q \in DrillQueues : pausedBy[q].restore # 0 =>
          (pausedBy[q].paused <=> ~restores[pausedBy[q].restore].released)
  BY DEF DrillInv, PausesHold
<1>2. ASSUME NEW r \in DOMAIN restores
      PROVE  /\ restores[r].released => restores[r].met
             /\ restores[r].registered /\ ~restores[r].released => restores[r].pauses = restores[r].queues
             /\ restores[r].registered =>
                   LET body == backups[restores[r].of].body
                   IN body.image \subseteq body.objects /\ body.objects \subseteq filled[restores[r].into]
  <2>1. RestoreHolds(restores[r])
    BY DEF DrillInv
  <2>2. restores[r].of \in DOMAIN backups /\ Whole(backups[restores[r].of].body)
    BY <2>1 DEF DrillInv, RestoreHolds
  <2> QED
    BY <2>1, <2>2 DEF RestoreHolds, Whole, ObjectsOf
<1> QED
  BY <1>1, <1>2 DEF DrillTold

(* Snapshots are only added, with their bodies as they are, restores keep  *)
(* what they are of, a release is for good, and stores only grow.          *)
BackupsOn ==
    DOMAIN backups \subseteq DOMAIN backups' /\ \A n \in DOMAIN backups : backups'[n].body = backups[n].body
RestoresOn ==
    /\ DOMAIN restores \subseteq DOMAIN restores'
    /\ \A r \in DOMAIN restores :
          restores'[r].of = restores[r].of /\ (restores[r].released => restores'[r].released)
FilledOn == \A t \in Drillers : filled[t] \subseteq filled'[t]
GoesOn == BackupsOn /\ RestoresOn /\ FilledOn

LEMMA RestoreStays ==
    ASSUME DrillTyped, GoesOn, NEW x, RestoreHolds(x), x.into \in Drillers PROVE RestoreHolds(x)'
  BY DEF GoesOn, BackupsOn, FilledOn, RestoreHolds, ObjectsOf

LEMMA KeyStays ==
    ASSUME DrillInv, GoesOn, NEW c, KeyHolds(c) PROVE KeyHolds(c)'
  BY DEF GoesOn, BackupsOn, RestoresOn, KeyHolds

LEMMA DrillStays ==
    ASSUME DrillInv, GoesOn, NEW t \in Drillers, NEW c, DrillHolds(t, c), filled'[t] = filled[t],
           source.objects \subseteq source'.objects
    PROVE  DrillHolds(t, c)'
<1>1. \A n : HasThings(t, n) => HasThings(t, n)'
  BY DEF GoesOn, BackupsOn, HasThings, ObjectsOf
<1>2. c.at \in {"objects", "create", "put", "restore", "release"} => c.key \in DrillKeys
  BY DEF DrillHolds
<1>3. c.at = "objects" => c.image \in SUBSET Things /\ c.image \subseteq source'.objects
  BY DEF DrillHolds
<1>4. c.at = "create" => c.body \in BodyRow /\ Whole(c.body)
  BY DEF DrillHolds
<1>5. c.at = "files" => c.of \in DOMAIN backups'
  BY DEF DrillHolds, GoesOn, BackupsOn
<1>6. c.at \in {"put", "restore"} =>
        /\ c = [at |-> c.at, key |-> c.key, request |-> c.request]
        /\ c.request \in RestoreAsk /\ c.request.of \in DOMAIN backups'
  BY DEF DrillHolds, GoesOn, BackupsOn
<1>7. c.at = "put" => filled'[t] = {}
  BY DEF DrillHolds
<1>8. c.at = "restore" => HasThings(t, c.request.of)'
  BY <1>1 DEF DrillHolds
<1>9. c.at = "rows" => c.of \in DOMAIN restores' /\ HasThings(t, restores[c.of].of)'
  <2> SUFFICES ASSUME c.at = "rows" PROVE c.of \in DOMAIN restores' /\ HasThings(t, restores[c.of].of)'
    OBVIOUS
  <2>1. c.of \in DOMAIN restores /\ HasThings(t, restores[c.of].of)
    BY DEF DrillHolds
  <2>2. c.of \in DOMAIN restores' /\ restores'[c.of].of = restores[c.of].of
    BY <2>1 DEF GoesOn, RestoresOn
  <2> QED
    BY <2>1, <2>2 DEF GoesOn, BackupsOn, HasThings, ObjectsOf
<1>10. c.at = "release" => c.of \in DOMAIN restores' /\ c.version \in Nat
  BY DEF DrillHolds, GoesOn, RestoresOn
<1>11. c.at = "unpause" => c.of \in DOMAIN restores' /\ restores'[c.of].released
  BY DEF DrillHolds, GoesOn, RestoresOn
<1> QED
  BY <1>2, <1>3, <1>4, <1>5, <1>6, <1>7, <1>8, <1>9, <1>10, <1>11 DEF DrillHolds

(* A step of one driller.                                                  *)
LEMMA DrillMoves ==
    ASSUME DrillInv, NEW t \in Drillers, NEW c,
           drill' = [drill EXCEPT ![t] = c], DrillHolds(t, c)', DrillTyped', GoesOn, UNCHANGED source,
           \A u \in Drillers \ {t} : filled'[u] = filled[u],
           \A n \in DOMAIN backups' : n \in DOMAIN backups \/ Whole(backups'[n].body),
           \A r \in DOMAIN restores' : (r \in DOMAIN restores /\ restores'[r] = restores[r]) \/ RestoreHolds(restores[r])',
           PausesHold', \A k \in DrillKeys : drilled'[k] = drilled[k] \/ KeyHolds(drilled[k])'
    PROVE  DrillInv'
<1>1. \A n \in DOMAIN backups' : Whole(backups'[n].body)
  BY DEF DrillInv, GoesOn, BackupsOn
<1>2. ASSUME NEW r \in DOMAIN restores' PROVE RestoreHolds(restores[r])'
  <2>1. CASE restores'[r] = restores[r] /\ r \in DOMAIN restores
    <3> PICK x : x = restores[r]
      OBVIOUS
    <3>1. RestoreHolds(x) /\ x.into \in Drillers
      <4>1. restores \in Seq(RestoreRow) /\ RestoreHolds(restores[r])
        BY <2>1 DEF DrillInv, DrillTyped
      <4>2. restores[r] \in RestoreRow
        BY <2>1, <4>1
      <4> QED
        BY <4>1, <4>2 DEF RestoreRow
    <3>2. RestoreHolds(x)'
      BY <3>1, RestoreStays DEF DrillInv
    <3> QED
      BY <2>1, <3>2 DEF RestoreHolds
  <2> QED
    BY <1>2, <2>1
<1>3. ASSUME NEW k \in DrillKeys PROVE KeyHolds(drilled[k])'
  <2>1. CASE drilled'[k] = drilled[k]
    <3> PICK x : x = drilled[k]
      OBVIOUS
    <3>1. KeyHolds(x)'
      BY KeyStays DEF DrillInv
    <3> QED
      BY <2>1, <3>1 DEF KeyHolds
  <2> QED
    BY <2>1
<1>4. ASSUME NEW u \in Drillers PROVE DrillHolds(u, drill[u])'
  <2> PICK x : x = IF u = t THEN c ELSE drill[u]
    OBVIOUS
  <2>1. drill'[u] = x
    BY DEF DrillInv, DrillTyped
  <2>2. DrillHolds(u, x)'
    <3>1. CASE u = t
      BY <3>1
    <3>2. CASE u # t
      BY <3>2, DrillStays DEF DrillInv
    <3> QED
      BY <3>1, <3>2
  <2> QED
    BY <2>1, <2>2 DEF DrillHolds
<1> QED
  BY <1>1, <1>2, <1>3, <1>4 DEF DrillInv

LEMMA OnlyDrills ==
    ASSUME DrillInv, NEW t \in Drillers, NEW c, drill' = [drill EXCEPT ![t] = c], DrillHolds(t, c),
           UNCHANGED <<source, backups, restores, pausedBy, filled, drilled>>
    PROVE  DrillInv'
<1>1. GoesOn /\ DrillTyped'
  BY DEF DrillInv, DrillTyped, GoesOn, BackupsOn, RestoresOn, FilledOn
<1>2. PausesHold'
  BY DEF DrillInv, PausesHold
<1>3. DrillHolds(t, c)'
  BY <1>1, DrillStays
<1> QED
  BY <1>1, <1>2, <1>3, DrillMoves

LEMMA SourceGoes == ASSUME DrillInv, NEW x \in Things, PutSource(x) PROVE DrillInv'
<1>1. /\ UNCHANGED <<backups, restores, pausedBy, filled, drilled, drill>>
      /\ source' = IF x \in source.objects THEN [source EXCEPT !.rows = @ \cup {x}]
                   ELSE [source EXCEPT !.objects = @ \cup {x}]
  BY DEF PutSource
<1>2. source \in [objects : SUBSET Things, rows : SUBSET Things] /\ source.rows \subseteq source.objects
  BY DEF DrillInv, DrillTyped
<1>3. /\ source' \in [objects : SUBSET Things, rows : SUBSET Things] /\ source'.rows \subseteq source'.objects
      /\ source.objects \subseteq source'.objects
  BY <1>1, <1>2
<1>4. DrillTyped' /\ GoesOn
  BY <1>1, <1>3 DEF DrillInv, DrillTyped, GoesOn, BackupsOn, RestoresOn, FilledOn
<1>5. ASSUME NEW u \in Drillers PROVE DrillHolds(u, drill[u])'
  <2> PICK y : y = drill[u]
    OBVIOUS
  <2>1. DrillHolds(u, y)'
    BY <1>1, <1>3, <1>4, DrillStays DEF DrillInv
  <2> QED
    BY <1>1, <2>1 DEF DrillHolds
<1>6. /\ PausesHold' /\ \A n \in DOMAIN backups : Whole(backups'[n].body)
      /\ \A r \in DOMAIN restores : RestoreHolds(restores[r])'
      /\ \A k \in DrillKeys : KeyHolds(drilled[k])'
  BY <1>1 DEF DrillInv, PausesHold, Whole, RestoreHolds, ObjectsOf, KeyHolds
<1> QED
  BY <1>1, <1>3, <1>4, <1>5, <1>6 DEF DrillInv

LEMMA BackupMade == ASSUME DrillInv, NEW t \in Drillers, CreateBackup(t) PROVE DrillInv'
<1> PICK d : d = drill[t]
  OBVIOUS
<1> DEFINE prior == drilled[d.key]
           row == [body |-> d.body, files |-> "none"]
<1>1. d.at = "create" /\ DrillHolds(t, d) /\ UNCHANGED <<source, restores, pausedBy, filled>>
  BY DEF CreateBackup, DrillInv
<1>2. d.key \in DrillKeys /\ row \in BackupRow /\ Whole(row.body) /\ backups \in Seq(BackupRow)
  BY <1>1 DEF DrillHolds, BackupRow, DrillInv, DrillTyped
<1>3. CASE prior = NotDrilled
  <2> DEFINE n == Len(backups) + 1
  <2> PICK c : c = [at |-> "files", of |-> n]
    OBVIOUS
  <2>1. /\ backups' = Append(backups, row)
        /\ drilled' = [drilled EXCEPT ![d.key] = [kind |-> "backup", hash |-> d.body, of |-> n]]
        /\ drill' = [drill EXCEPT ![t] = c]
    BY <1>3 DEF CreateBackup, Step
  <2>2. /\ backups' \in Seq(BackupRow) /\ DOMAIN backups' = 1 .. n /\ DOMAIN backups = 1 .. Len(backups)
        /\ Len(backups) \in Nat /\ backups'[n] = row /\ \A i \in DOMAIN backups : backups'[i] = backups[i]
    BY <1>2, <2>1, AppendProperties
  <2>3. /\ DrillTyped' /\ GoesOn
        /\ \A i \in DOMAIN backups' : i \in DOMAIN backups \/ Whole(backups'[i].body)
    BY <1>1, <1>2, <2>1, <2>2 DEF DrillInv, DrillTyped, GoesOn, BackupsOn, RestoresOn, FilledOn
  <2>4. DrillHolds(t, c)'
    BY <2>2 DEF DrillHolds
  <2>5. \A k \in DrillKeys : drilled'[k] = drilled[k] \/ KeyHolds(drilled[k])'
    BY <1>2, <2>1, <2>2 DEF DrillInv, DrillTyped, KeyHolds
  <2>6. PausesHold' /\ \A r \in DOMAIN restores' : restores'[r] = restores[r] /\ r \in DOMAIN restores
    BY <1>1 DEF DrillInv, PausesHold
  <2> QED
    BY <1>1, <2>1, <2>3, <2>4, <2>5, <2>6, DrillMoves
<1>4. CASE prior # NotDrilled
  <2>1. PICK c : /\ drill' = [drill EXCEPT ![t] = c] /\ UNCHANGED <<backups, drilled>>
                 /\ (c = NotDrilling \/ (prior.kind = "backup" /\ c = [at |-> "files", of |-> prior.of]))
    BY <1>4 DEF CreateBackup, Step
  <2>2. prior.kind = "backup" => prior.of \in DOMAIN backups
    BY <1>2 DEF DrillInv, KeyHolds
  <2>3. DrillHolds(t, c)
    BY <2>1, <2>2 DEF DrillHolds, NotDrilling
  <2> QED
    BY <1>1, <2>1, <2>3, OnlyDrills
<1> QED
  BY <1>3, <1>4

LEMMA FilesWritten ==
    ASSUME DrillInv, NEW t \in Drillers, NEW fails \in BOOLEAN, WriteFiles(t, fails) PROVE DrillInv'
<1> PICK d : d = drill[t]
  OBVIOUS
<1>1. /\ d.at = "files" /\ DrillHolds(t, d) /\ drill' = [drill EXCEPT ![t] = NotDrilling]
      /\ UNCHANGED <<source, restores, pausedBy, filled, drilled>>
      /\ backups' = IF backups[d.of].files # "none" THEN backups
                    ELSE [backups EXCEPT ![d.of].files = IF fails THEN "torn" ELSE "whole"]
  BY DEF WriteFiles, DrillInv, Step
<1>2. d.of \in DOMAIN backups /\ backups \in Seq(BackupRow)
  BY <1>1 DEF DrillHolds, DrillInv, DrillTyped
<1>3. backups[d.of] \in BackupRow
  BY <1>2
<1>4. /\ backups' \in Seq(BackupRow) /\ DOMAIN backups' = DOMAIN backups
      /\ \A n \in DOMAIN backups : backups'[n].body = backups[n].body
  <2> DEFINE row == [backups[d.of] EXCEPT !.files = IF fails THEN "torn" ELSE "whole"]
  <2>1. row \in BackupRow /\ row.body = backups[d.of].body
    BY <1>3 DEF BackupRow
  <2>2. backups' = backups \/ backups' = [backups EXCEPT ![d.of] = row]
    BY <1>1
  <2> HIDE DEF row
  <2>3. CASE backups' = [backups EXCEPT ![d.of] = row]
    <3>1. Len(backups) \in Nat /\ DOMAIN backups = 1 .. Len(backups) /\ \A n \in DOMAIN backups : backups[n] \in BackupRow
      BY <1>2
    <3>2. backups' \in [1 .. Len(backups) -> BackupRow]
      BY <2>1, <2>3, <3>1, <1>2
    <3> QED
      BY <1>2, <2>1, <2>3, <3>1, <3>2
  <2> QED
    BY <1>2, <2>2, <2>3
<1>5. DrillTyped' /\ GoesOn
  BY <1>1, <1>4 DEF DrillInv, DrillTyped, GoesOn, BackupsOn, RestoresOn, FilledOn
<1>6. DrillHolds(t, NotDrilling)'
  BY DEF DrillHolds, NotDrilling
<1>7. PausesHold'
  BY <1>1 DEF DrillInv, PausesHold
<1> QED
  BY <1>1, <1>4, <1>5, <1>6, <1>7, DrillMoves

LEMMA ObjectsPut ==
    ASSUME DrillInv, NEW t \in Drillers, NEW put \in SUBSET Things, PutObjects(t, put) PROVE DrillInv'
<1> PICK d : d = drill[t]
  OBVIOUS
<1> DEFINE there == backups[d.request.of].body.objects
           on == [at |-> "restore", key |-> d.key, request |-> d.request]
<1>1. /\ d.at = "put" /\ DrillHolds(t, d) /\ put \subseteq there
      /\ filled' = [filled EXCEPT ![t] = put]
      /\ drill' = [drill EXCEPT ![t] = IF put = there THEN [d EXCEPT !.at = "restore"] ELSE NotDrilling]
      /\ UNCHANGED <<source, backups, restores, pausedBy, drilled>>
  BY DEF PutObjects, DrillInv, Step
<1>2. /\ d = [at |-> d.at, key |-> d.key, request |-> d.request] /\ d.key \in DrillKeys
      /\ d.request \in RestoreAsk /\ d.request.of \in DOMAIN backups /\ filled[t] = {}
  BY <1>1 DEF DrillHolds
<1>3. [d EXCEPT !.at = "restore"] = on
  BY <1>2
<1>4. DrillTyped' /\ GoesOn /\ filled'[t] = put
  BY <1>1, <1>2 DEF DrillInv, DrillTyped, GoesOn, BackupsOn, RestoresOn, FilledOn
<1>5. PICK c : drill' = [drill EXCEPT ![t] = c] /\ (c = NotDrilling \/ (put = there /\ c = on))
  BY <1>1, <1>3
<1>6. DrillHolds(t, c)'
  <2>1. CASE c = NotDrilling
    BY <2>1 DEF DrillHolds, NotDrilling
  <2>2. CASE put = there /\ c = on
    <3>1. HasThings(t, d.request.of)'
      BY <1>1, <1>2, <1>4, <2>2 DEF HasThings, ObjectsOf
    <3>2. c.at = "restore" /\ c = [at |-> c.at, key |-> c.key, request |-> c.request] /\ c.key = d.key /\ c.request = d.request
      BY <2>2
    <3> QED
      BY <1>1, <1>2, <3>1, <3>2 DEF DrillHolds
  <2> QED
    BY <1>5, <2>1, <2>2
<1>7. PausesHold' /\ \A u \in Drillers \ {t} : filled'[u] = filled[u]
  BY <1>1 DEF DrillInv, PausesHold, DrillTyped
<1> QED
  BY <1>1, <1>4, <1>5, <1>6, <1>7, DrillMoves

(* What the steps that write a restore have in common.                     *)
LEMMA RestoreWrites ==
    ASSUME DrillInv, NEW t \in Drillers, NEW c, NEW r \in DOMAIN restores, NEW row \in RestoreRow,
           restores' = [restores EXCEPT ![r] = row], row.of = restores[r].of, restores[r].released => row.released,
           RestoreHolds(row), drill' = [drill EXCEPT ![t] = c], UNCHANGED <<source, backups, filled>>,
           pausedBy' \in [DrillQueues -> [restore : Nat, paused : BOOLEAN]], PausesHold',
           DOMAIN drilled' = DrillKeys, \A k \in DrillKeys : drilled'[k] = drilled[k] \/ KeyHolds(drilled[k])',
           DrillHolds(t, c)'
    PROVE  DrillInv'
<1>1. restores \in Seq(RestoreRow) /\ Len(restores) \in Nat /\ DOMAIN restores = 1 .. Len(restores)
  BY DEF DrillInv, DrillTyped
<1>2. /\ restores' \in [1 .. Len(restores) -> RestoreRow] /\ restores'[r] = row
      /\ \A q \in DOMAIN restores : q # r => restores'[q] = restores[q]
  BY <1>1
<1>3. restores' \in Seq(RestoreRow) /\ DOMAIN restores' = DOMAIN restores
  BY <1>1, <1>2
<1>4. DrillTyped' /\ GoesOn
  BY <1>2, <1>3 DEF DrillInv, DrillTyped, GoesOn, BackupsOn, RestoresOn, FilledOn
<1>5. \A q \in DOMAIN restores' : (q \in DOMAIN restores /\ restores'[q] = restores[q]) \/ RestoreHolds(restores[q])'
  BY <1>2, <1>3 DEF RestoreHolds, ObjectsOf
<1>6. /\ \A u \in Drillers \ {t} : filled'[u] = filled[u]
      /\ \A n \in DOMAIN backups' : n \in DOMAIN backups \/ Whole(backups'[n].body)
  OBVIOUS
<1> QED
  BY <1>4, <1>5, <1>6, DrillMoves

LEMMA RestoreRan ==
    ASSUME DrillInv, NEW t \in Drillers, NEW ordered \in BOOLEAN, RunRestore(t, ordered) PROVE DrillInv'
<1> PICK d : d = drill[t]
  OBVIOUS
<1> DEFINE ask == d.request
<1>1. d.at = "restore" /\ DrillHolds(t, d) /\ UNCHANGED <<source, backups, filled>>
  BY DEF RunRestore, DrillInv
<1>2. d.key \in DrillKeys /\ ask \in RestoreAsk /\ ask.of \in DOMAIN backups /\ HasThings(t, ask.of)
  BY <1>1 DEF DrillHolds
<1>3. restores \in Seq(RestoreRow) /\ Len(restores) \in Nat /\ DOMAIN restores = 1 .. Len(restores)
  BY DEF DrillInv, DrillTyped
<1>4. CASE drilled[d.key] = NotDrilled /\ ordered
  <2> PICK r : r = Len(restores) + 1
    OBVIOUS
  <2> DEFINE row == [of |-> ask.of, into |-> t, met |-> ask.met, queues |-> ask.queues,
                     released |-> FALSE, version |-> 1, pauses |-> {}, registered |-> FALSE]
             key == [kind |-> "restore", hash |-> ask, of |-> r]
  <2> PICK c : c = [at |-> "rows", of |-> r]
    OBVIOUS
  <2>1. /\ restores' = Append(restores, row) /\ pausedBy' = Pause(ask.queues, r)
        /\ drilled' = [drilled EXCEPT ![d.key] = key] /\ drill' = [drill EXCEPT ![t] = c]
    BY <1>4 DEF RunRestore, Step
  <2>2. row \in RestoreRow
    BY <1>2 DEF RestoreAsk, RestoreRow
  <2>3. /\ restores' \in Seq(RestoreRow) /\ DOMAIN restores' = 1 .. r /\ restores'[r] = row
        /\ \A q \in DOMAIN restores : restores'[q] = restores[q]
    BY <1>3, <2>1, <2>2, AppendProperties
  <2>4. r \in Nat /\ r # 0 /\ r \in DOMAIN restores' /\ DOMAIN restores \subseteq DOMAIN restores' /\ r \notin DOMAIN restores
    BY <1>3, <2>3
  <2>5. pausedBy' \in [DrillQueues -> [restore : Nat, paused : BOOLEAN]]
    BY <2>1, <2>4 DEF Pause, DrillInv, DrillTyped
  <2>6. DrillTyped' /\ GoesOn
    BY <1>1, <2>1, <2>3, <2>4, <2>5 DEF DrillInv, DrillTyped, GoesOn, BackupsOn, RestoresOn, FilledOn
  <2>7. PausesHold'
    <3> SUFFICES ASSUME NEW q \in DrillQueues, pausedBy'[q].restore # 0
                 PROVE  /\ pausedBy'[q].restore \in DOMAIN restores'
                        /\ pausedBy'[q].paused <=> ~restores'[pausedBy'[q].restore].released
      BY DEF PausesHold
    <3>1. CASE q \in ask.queues
      <4>1. pausedBy'[q] = [restore |-> r, paused |-> TRUE]
        BY <2>1, <3>1 DEF Pause
      <4> QED
        BY <2>3, <2>4, <4>1
    <3>2. CASE q \notin ask.queues
      <4>1. pausedBy'[q] = pausedBy[q]
        BY <2>1, <3>2 DEF Pause
      <4>2. pausedBy[q].restore \in DOMAIN restores /\ (pausedBy[q].paused <=> ~restores[pausedBy[q].restore].released)
        BY <4>1 DEF DrillInv, PausesHold
      <4> QED
        BY <2>3, <2>4, <4>1, <4>2
    <3> QED
      BY <3>1, <3>2
  <2>8. RestoreHolds(restores[r])'
    <3>1. /\ restores'[r].of = ask.of /\ ~restores'[r].released /\ ~restores'[r].registered
      BY <2>3
    <3> QED
      BY <1>1, <1>2, <3>1 DEF RestoreHolds
  <2>9. \A q \in DOMAIN restores' : (q \in DOMAIN restores /\ restores'[q] = restores[q]) \/ RestoreHolds(restores[q])'
    <3>1. \A q \in DOMAIN restores' : q \in DOMAIN restores \/ q = r
      BY <1>3, <2>3
    <3> QED
      BY <2>3, <2>8, <3>1
  <2>10. DrillHolds(t, c)'
    <3>1. c.at = "rows" /\ c.of = r /\ restores'[r].of = ask.of
      BY <2>3
    <3>2. HasThings(t, restores[r].of)'
      BY <1>1, <1>2, <3>1 DEF HasThings, ObjectsOf
    <3> QED
      BY <2>4, <3>1, <3>2 DEF DrillHolds
  <2>11. \A k \in DrillKeys : drilled'[k] = drilled[k] \/ KeyHolds(drilled[k])'
    <3>1. drilled'[d.key] = key /\ \A k \in DrillKeys : k # d.key => drilled'[k] = drilled[k]
      BY <1>2, <2>1 DEF DrillInv, DrillTyped
    <3>2. KeyHolds(drilled[d.key])'
      BY <2>3, <2>4, <3>1 DEF KeyHolds
    <3> QED
      BY <3>1, <3>2
  <2>12. /\ \A u \in Drillers \ {t} : filled'[u] = filled[u]
         /\ \A n \in DOMAIN backups' : n \in DOMAIN backups \/ Whole(backups'[n].body)
    BY <1>1
  <2> QED
    BY <1>1, <2>1, <2>6, <2>7, <2>9, <2>10, <2>11, <2>12, DrillMoves
<1>5. CASE ~(drilled[d.key] = NotDrilled /\ ordered)
  <2> DEFINE key == drilled[d.key]
  <2>1. PICK c : /\ drill' = [drill EXCEPT ![t] = c] /\ UNCHANGED <<restores, pausedBy, drilled>>
                 /\ c = NotDrilling \/ (key.kind = "restore" /\ key.hash = ask /\ c = [at |-> "rows", of |-> key.of])
    BY <1>5 DEF RunRestore, Step
  <2>2. KeyHolds(key)
    BY <1>2 DEF DrillInv
  <2>3. DrillHolds(t, c)
    <3>1. CASE c = NotDrilling
      BY <3>1 DEF DrillHolds, NotDrilling
    <3>2. CASE key.kind = "restore" /\ key.hash = ask /\ c = [at |-> "rows", of |-> key.of]
      <4>1. key.of \in DOMAIN restores /\ restores[key.of].of = ask.of
        BY <2>2, <3>2 DEF KeyHolds
      <4> QED
        BY <1>2, <3>2, <4>1 DEF DrillHolds
    <3> QED
      BY <2>1, <3>1, <3>2
  <2> QED
    BY <1>1, <2>1, <2>3, OnlyDrills
<1> QED
  BY <1>4, <1>5

LEMMA PausesWritten == ASSUME DrillInv, NEW t \in Drillers, WritePauses(t) PROVE DrillInv'
<1> PICK d : d = drill[t]
  OBVIOUS
<1> PICK r : r = d.of
  OBVIOUS
<1> PICK row : row = [restores[r] EXCEPT !.pauses = restores[r].queues, !.registered = TRUE, !.into = t]
  OBVIOUS
<1>1. /\ d.at = "rows" /\ DrillHolds(t, d) /\ drill' = [drill EXCEPT ![t] = NotDrilling]
      /\ UNCHANGED <<source, backups, pausedBy, filled, drilled>>
      /\ restores' = [restores EXCEPT ![r].pauses = restores[r].queues, ![r].registered = TRUE, ![r].into = t]
  BY DEF WritePauses, DrillInv, Step
<1>2. r \in DOMAIN restores /\ HasThings(t, restores[r].of) /\ restores \in Seq(RestoreRow)
  BY <1>1 DEF DrillHolds, DrillInv, DrillTyped
<1>3. restores[r] \in RestoreRow /\ RestoreHolds(restores[r])
  BY <1>2 DEF DrillInv
<1>4. /\ row \in RestoreRow /\ row.of = restores[r].of /\ row.released = restores[r].released
      /\ row.met = restores[r].met /\ row.pauses = row.queues /\ row.registered /\ row.into = t
  BY <1>3 DEF RestoreRow
<1>5. restores' = [restores EXCEPT ![r] = row]
  BY <1>1
<1>6. RestoreHolds(row)
  BY <1>2, <1>3, <1>4 DEF RestoreHolds, HasThings
<1>7. /\ restores'[r] = row /\ DOMAIN restores' = DOMAIN restores
      /\ \A q \in DOMAIN restores : restores'[q].released = restores[q].released
  BY <1>2, <1>4, <1>5
<1>8. PausesHold'
  BY <1>1, <1>7 DEF DrillInv, PausesHold
<1>9. DrillHolds(t, NotDrilling)'
  BY DEF DrillHolds, NotDrilling
<1>10. pausedBy' \in [DrillQueues -> [restore : Nat, paused : BOOLEAN]] /\ DOMAIN drilled' = DrillKeys
  BY <1>1 DEF DrillInv, DrillTyped
<1>11. restores[r].released => row.released
  BY <1>4
<1>12. /\ drill' = [drill EXCEPT ![t] = NotDrilling] /\ UNCHANGED <<source, backups, filled>>
       /\ \A k \in DrillKeys : drilled'[k] = drilled[k]
  BY <1>1
<1> QED
  BY <1>2, <1>11, <1>12, <1>4, <1>5, <1>6, <1>8, <1>9, <1>10, RestoreWrites

LEMMA ReleaseWritten == ASSUME DrillInv, NEW t \in Drillers, WriteRelease(t) PROVE DrillInv'
<1> PICK d : d = drill[t]
  OBVIOUS
<1> PICK r : r = d.of
  OBVIOUS
<1> PICK row : row = [restores[r] EXCEPT !.pauses = {}]
  OBVIOUS
<1>1. /\ d.at = "unpause" /\ DrillHolds(t, d) /\ drill' = [drill EXCEPT ![t] = NotDrilling]
      /\ UNCHANGED <<source, backups, pausedBy, filled, drilled>>
      /\ restores' = [restores EXCEPT ![r].pauses = {}]
  BY DEF WriteRelease, DrillInv, Step
<1>2. r \in DOMAIN restores /\ restores[r].released /\ restores \in Seq(RestoreRow)
  BY <1>1 DEF DrillHolds, DrillInv, DrillTyped
<1>3. restores[r] \in RestoreRow /\ RestoreHolds(restores[r])
  BY <1>2 DEF DrillInv
<1>4. /\ row \in RestoreRow /\ row.of = restores[r].of /\ row.released = restores[r].released
      /\ row.met = restores[r].met /\ row.registered = restores[r].registered /\ row.into = restores[r].into
  BY <1>3 DEF RestoreRow
<1>5. restores' = [restores EXCEPT ![r] = row]
  BY <1>1
<1>6. RestoreHolds(row)
  BY <1>2, <1>3, <1>4 DEF RestoreHolds
<1>7. /\ restores'[r] = row /\ DOMAIN restores' = DOMAIN restores
      /\ \A q \in DOMAIN restores : restores'[q].released = restores[q].released
  BY <1>2, <1>4, <1>5
<1>8. PausesHold'
  BY <1>1, <1>7 DEF DrillInv, PausesHold
<1>9. DrillHolds(t, NotDrilling)'
  BY DEF DrillHolds, NotDrilling
<1>10. pausedBy' \in [DrillQueues -> [restore : Nat, paused : BOOLEAN]] /\ DOMAIN drilled' = DrillKeys
  BY <1>1 DEF DrillInv, DrillTyped
<1>11. restores[r].released => row.released
  BY <1>4
<1>12. /\ drill' = [drill EXCEPT ![t] = NotDrilling] /\ UNCHANGED <<source, backups, filled>>
       /\ \A k \in DrillKeys : drilled'[k] = drilled[k]
  BY <1>1
<1> QED
  BY <1>2, <1>11, <1>12, <1>4, <1>5, <1>6, <1>8, <1>9, <1>10, RestoreWrites

LEMMA QueuesReleased == ASSUME DrillInv, NEW t \in Drillers, ReleaseQueues(t) PROVE DrillInv'
<1> PICK d : d = drill[t]
  OBVIOUS
<1> PICK r : r = d.of
  OBVIOUS
<1> DEFINE wanted == [of |-> r, expected |-> d.expected]
           key == drilled[d.key]
           lets == key = NotDrilled /\ d.version = d.expected /\ restores[r].met
<1>1. d.at = "release" /\ DrillHolds(t, d) /\ UNCHANGED <<source, backups, filled>>
  BY DEF ReleaseQueues, DrillInv
<1>2. /\ d.key \in DrillKeys /\ r \in DOMAIN restores /\ d.version \in Nat /\ restores \in Seq(RestoreRow)
      /\ pausedBy \in [DrillQueues -> [restore : Nat, paused : BOOLEAN]]
  BY <1>1 DEF DrillHolds, DrillInv, DrillTyped
<1>3. restores[r] \in RestoreRow /\ RestoreHolds(restores[r])
  BY <1>2 DEF DrillInv
<1>4. CASE lets
  <2> PICK row : row = [restores[r] EXCEPT !.released = TRUE, !.version = d.version + 1]
    OBVIOUS
  <2> PICK c : c = [at |-> "unpause", of |-> r]
    OBVIOUS
  <2> DEFINE new == [kind |-> "release", hash |-> wanted, of |-> r]
  <2>1. /\ restores' = [restores EXCEPT ![r] = row]
        /\ pausedBy' = [q \in DrillQueues |->
               IF pausedBy[q].restore = r THEN [pausedBy[q] EXCEPT !.paused = FALSE] ELSE pausedBy[q]]
        /\ drilled' = [drilled EXCEPT ![d.key] = new] /\ drill' = [drill EXCEPT ![t] = c]
    BY <1>4 DEF ReleaseQueues, Step
  <2>2. /\ row \in RestoreRow /\ row.of = restores[r].of /\ row.released /\ row.met = restores[r].met
        /\ row.registered = restores[r].registered /\ row.into = restores[r].into
    <3>1. d.version + 1 \in Nat
      BY <1>2
    <3> QED
      BY <1>3, <3>1 DEF RestoreRow
  <2>3. RestoreHolds(row)
    BY <1>3, <1>4, <2>2 DEF RestoreHolds
  <2>4. /\ restores'[r] = row /\ DOMAIN restores' = DOMAIN restores
        /\ \A q \in DOMAIN restores : q # r => restores'[q] = restores[q]
    BY <1>2, <2>1
  <2>5. pausedBy' \in [DrillQueues -> [restore : Nat, paused : BOOLEAN]]
    BY <1>2, <2>1
  <2>6. PausesHold'
    <3> SUFFICES ASSUME NEW q \in DrillQueues, pausedBy'[q].restore # 0
                 PROVE  /\ pausedBy'[q].restore \in DOMAIN restores'
                        /\ pausedBy'[q].paused <=> ~restores'[pausedBy'[q].restore].released
      BY DEF PausesHold
    <3>1. CASE pausedBy[q].restore = r
      <4>1. pausedBy'[q].restore = r /\ pausedBy'[q].paused = FALSE
        BY <1>2, <2>1, <3>1
      <4> QED
        BY <1>2, <2>2, <2>4, <4>1
    <3>2. CASE pausedBy[q].restore # r
      <4>1. pausedBy'[q] = pausedBy[q]
        BY <2>1, <3>2
      <4>2. pausedBy[q].restore \in DOMAIN restores /\ (pausedBy[q].paused <=> ~restores[pausedBy[q].restore].released)
        BY <4>1 DEF DrillInv, PausesHold
      <4> QED
        BY <2>4, <3>2, <4>1, <4>2
    <3> QED
      BY <3>1, <3>2
  <2>7. DOMAIN drilled' = DrillKeys /\ \A k \in DrillKeys : drilled'[k] = drilled[k] \/ KeyHolds(drilled[k])'
    <3>1. /\ DOMAIN drilled' = DrillKeys /\ drilled'[d.key] = new
          /\ \A k \in DrillKeys : k # d.key => drilled'[k] = drilled[k]
      BY <1>2, <2>1 DEF DrillInv, DrillTyped
    <3>2. drilled'[d.key].kind = "release" /\ drilled'[d.key].hash.of = r
      BY <3>1
    <3>3. KeyHolds(drilled[d.key])'
      BY <1>2, <2>2, <2>4, <3>2 DEF KeyHolds
    <3> QED
      BY <3>1, <3>3
  <2>8. DrillHolds(t, c)'
    BY <1>2, <2>2, <2>4 DEF DrillHolds
  <2> QED
    BY <1>1, <1>2, <2>1, <2>2, <2>3, <2>5, <2>6, <2>7, <2>8, RestoreWrites
<1>5. CASE ~lets
  <2>1. PICK c : /\ drill' = [drill EXCEPT ![t] = c] /\ UNCHANGED <<restores, pausedBy, drilled>>
                 /\ c = NotDrilling \/ (key.kind = "release" /\ key.hash = wanted /\ c = [at |-> "unpause", of |-> r])
    BY <1>5 DEF ReleaseQueues, Step
  <2>2. KeyHolds(key)
    BY <1>2 DEF DrillInv
  <2>3. DrillHolds(t, c)
    BY <1>2, <2>1, <2>2 DEF DrillHolds, NotDrilling, KeyHolds
  <2> QED
    BY <1>1, <2>1, <2>3, OnlyDrills
<1> QED
  BY <1>4, <1>5

LEMMA DrillBegins ==
    ASSUME DrillInv, NEW t \in Drillers, NEW k \in DrillKeys,
           \/ BeginBackup(t, k) \/ ReadObjects(t)
           \/ \E n \in DOMAIN backups, queues \in SUBSET DrillQueues \ {{}}, met \in BOOLEAN : BeginRestore(t, k, n, queues, met)
           \/ \E r \in DOMAIN restores, expected \in 1 .. 2 : BeginRelease(t, k, r, expected)
    PROVE  DrillInv'
<1>1. source \in [objects : SUBSET Things, rows : SUBSET Things] /\ source.rows \subseteq source.objects
  BY DEF DrillInv, DrillTyped
<1>2. CASE BeginBackup(t, k)
  <2> PICK c : c = [at |-> "objects", key |-> k, image |-> source.rows]
    OBVIOUS
  <2>1. DrillHolds(t, c)
    BY <1>1 DEF DrillHolds
  <2> QED
    BY <1>2, <2>1, OnlyDrills DEF BeginBackup, Step
<1>3. CASE ReadObjects(t)
  <2> PICK d : d = drill[t]
    OBVIOUS
  <2> PICK c : c = [at |-> "create", key |-> d.key, body |-> [image |-> d.image, objects |-> source.objects]]
    OBVIOUS
  <2>1. d.at = "objects" /\ DrillHolds(t, d)
    BY <1>3 DEF ReadObjects, DrillInv
  <2>2. DrillHolds(t, c)
    BY <1>1, <2>1 DEF DrillHolds, BodyRow, Whole
  <2> QED
    BY <1>3, <2>2, OnlyDrills DEF ReadObjects, Step
<1>4. CASE \E n \in DOMAIN backups, queues \in SUBSET DrillQueues \ {{}}, met \in BOOLEAN : BeginRestore(t, k, n, queues, met)
  <2>1. PICK n \in DOMAIN backups, queues \in SUBSET DrillQueues \ {{}}, met \in BOOLEAN : BeginRestore(t, k, n, queues, met)
    BY <1>4
  <2> PICK c : c = [at |-> "put", key |-> k, request |-> [of |-> n, queues |-> queues, met |-> met]]
    OBVIOUS
  <2>2. n \in Nat /\ [of |-> n, queues |-> queues, met |-> met] \in RestoreAsk
    BY DEF DrillInv, DrillTyped, RestoreAsk
  <2>3. DrillHolds(t, c)
    BY <2>1, <2>2 DEF DrillHolds, BeginRestore
  <2> QED
    BY <2>1, <2>3, OnlyDrills DEF BeginRestore, Step
<1>5. CASE \E r \in DOMAIN restores, expected \in 1 .. 2 : BeginRelease(t, k, r, expected)
  <2>1. PICK r \in DOMAIN restores, expected \in 1 .. 2 : BeginRelease(t, k, r, expected)
    BY <1>5
  <2> PICK c : c = [at |-> "release", key |-> k, of |-> r, expected |-> expected, version |-> restores[r].version]
    OBVIOUS
  <2>2. restores \in Seq(RestoreRow)
    BY DEF DrillInv, DrillTyped
  <2>3. restores[r].version \in Nat
    <3>1. restores[r] \in RestoreRow
      BY <2>2
    <3> QED
      BY <3>1 DEF RestoreRow
  <2>4. DrillHolds(t, c)
    BY <2>3 DEF DrillHolds
  <2> QED
    BY <2>1, <2>4, OnlyDrills DEF BeginRelease, Step
<1> QED
  BY <1>2, <1>3, <1>4, <1>5

LEMMA DrillSteps == ASSUME DrillInv, RecoveryNext PROVE DrillInv'
<1>1. CASE \E x \in Things : PutSource(x)
  BY <1>1, SourceGoes
<1>2. CASE \E t \in Drillers : ReadObjects(t)
  <2>1. PICK t \in Drillers : ReadObjects(t)
    BY <1>2
  <2>2. drill[t].key \in DrillKeys
    BY <2>1 DEF ReadObjects, DrillInv, DrillHolds
  <2> QED
    BY <2>1, <2>2, DrillBegins
<1>3. CASE \E t \in Drillers : CreateBackup(t)
  BY <1>3, BackupMade
<1>4. CASE \E t \in Drillers : WritePauses(t)
  BY <1>4, PausesWritten
<1>5. CASE \E t \in Drillers : ReleaseQueues(t)
  BY <1>5, QueuesReleased
<1>6. CASE \E t \in Drillers : WriteRelease(t)
  BY <1>6, ReleaseWritten
<1>7. CASE \E t \in Drillers : \E fails \in BOOLEAN : WriteFiles(t, fails)
  BY <1>7, FilesWritten
<1>8. CASE \E t \in Drillers : \E put \in SUBSET Things : PutObjects(t, put)
  BY <1>8, ObjectsPut
<1>9. CASE \E t \in Drillers : \E ordered \in BOOLEAN : RunRestore(t, ordered)
  BY <1>9, RestoreRan
<1>10. CASE \E t \in Drillers : \E k \in DrillKeys :
              \/ BeginBackup(t, k)
              \/ \E n \in DOMAIN backups, queues \in SUBSET DrillQueues \ {{}}, met \in BOOLEAN :
                    BeginRestore(t, k, n, queues, met)
              \/ \E r \in DOMAIN restores, expected \in 1 .. 2 : BeginRelease(t, k, r, expected)
  BY <1>10, DrillBegins
<1> QED
  BY <1>1, <1>2, <1>3, <1>4, <1>5, <1>6, <1>7, <1>8, <1>9, <1>10 DEF RecoveryNext

LEMMA DrillKeeps == DrillInv /\ UNCHANGED recoveryVars => DrillInv'
  BY DEF DrillInv, recoveryVars, DrillTyped, Whole, RestoreHolds, ObjectsOf, PausesHold, KeyHolds, DrillHolds, HasThings

-----------------------------------------------------------------------------
LEMMA PilotStarts == OperationInit => PilotInv
<1> SUFFICES ASSUME OperationInit PROVE PilotInv
  OBVIOUS
<1>1. NoPilot \in PilotRow /\ NoPilot.status = "none" /\ ~EndedPilot(NoPilot) /\ Assigned(NoPilot.accounts, NoPilot.items)
  BY DEF NoPilot, PilotRow, EndedPilot, Assigned
<1> QED
  BY <1>1 DEF OperationInit, PilotInv, PilotAssigned

LEMMA PilotsTold == PilotInv => PilotAnswered /\ PilotAssigned
  BY DEF PilotInv, PilotAnswered, EndedPilot, NoPilot

(* A run is saved that had not ended.                                      *)
LEMMA PilotSaved ==
    ASSUME PilotInv, NEW p \in Pilots, NEW row \in PilotRow, NEW saved \in BOOLEAN, Save(p, row, saved),
           ~EndedPilot(pilot[p]), row.status # "none", Assigned(row.accounts, row.items)
    PROVE  PilotInv'
<1>1. /\ pilot' = [pilot EXCEPT ![p] = row]
      /\ IF saved THEN pilotFile' = pilot' /\ pilotTold' = [pilotTold EXCEPT ![p] = row]
         ELSE UNCHANGED <<pilotFile, pilotTold>>
  BY DEF Save
<1>2. /\ pilot \in [Pilots -> PilotRow] /\ pilotFile \in [Pilots -> PilotRow] /\ pilotTold \in [Pilots -> PilotRow]
      /\ \A q \in Pilots : Assigned(pilot[q].accounts, pilot[q].items) /\ Assigned(pilotFile[q].accounts, pilotFile[q].items)
  BY DEF PilotInv, PilotAssigned
<1>3. ~EndedPilot(pilotTold[p])
  BY DEF PilotInv
<1>4. /\ pilot' \in [Pilots -> PilotRow] /\ pilotFile' \in [Pilots -> PilotRow] /\ pilotTold' \in [Pilots -> PilotRow]
  BY <1>1, <1>2
<1>5. \A q \in Pilots : Assigned(pilot'[q].accounts, pilot'[q].items) /\ Assigned(pilotFile'[q].accounts, pilotFile'[q].items)
  BY <1>1, <1>2
<1>6. ASSUME NEW q \in Pilots
      PROVE  /\ EndedPilot(pilotTold'[q]) => pilot'[q] = pilotTold'[q] /\ pilotFile'[q] = pilotTold'[q]
             /\ pilotTold'[q].status # "none" => pilot'[q].status # "none" /\ pilotFile'[q].status # "none"
             /\ pilotTold'[q].status = "none" => pilotTold'[q] = NoPilot
  <2>1. CASE q = p
    BY <1>1, <1>2, <1>3, <2>1 DEF PilotInv
  <2>2. CASE q # p
    BY <1>1, <1>2, <2>2 DEF PilotInv
  <2> QED
    BY <2>1, <2>2
<1> QED
  BY <1>4, <1>5, <1>6 DEF PilotInv, PilotAssigned

LEMMA ListsTyped ==
    ASSUME NEW items \in ItemLists
    PROVE  /\ items \in Seq(UNION {Range(list) : list \in ItemLists})
           /\ items # <<>> => items[1] \in UNION {Range(list) : list \in ItemLists}
  BY OperationsBounds

LEMMA PilotsGo == ASSUME PilotInv, PilotNext PROVE PilotInv'
<1>1. CASE RestartOperations
  <2>1. pilot' = pilotFile /\ UNCHANGED <<pilotFile, pilotTold>>
    BY <1>1 DEF RestartOperations
  <2> QED
    BY <2>1 DEF PilotInv, PilotAssigned
<1>2. CASE \E p \in Pilots, saved \in BOOLEAN :
            \E accounts \in SUBSET PilotAccounts, items \in ItemLists :
                CreatePilot(p, accounts, items, saved) \/ UpdatePilot(p, accounts, items, saved)
  <2>1. PICK p \in Pilots, saved \in BOOLEAN, accounts \in SUBSET PilotAccounts, items \in ItemLists :
            CreatePilot(p, accounts, items, saved) \/ UpdatePilot(p, accounts, items, saved)
    BY <1>2
  <2>2. pilot[p] \in PilotRow /\ items \in Seq(UNION {Range(list) : list \in ItemLists})
    BY ListsTyped DEF PilotInv
  <2>3. CASE CreatePilot(p, accounts, items, saved)
    <3> DEFINE row == [status |-> "planned", accounts |-> accounts, items |-> items]
    <3>1. row \in PilotRow /\ row.status # "none" /\ row.accounts = accounts /\ row.items = items
      BY <2>2 DEF PilotRow
    <3>2. Assigned(accounts, items) /\ pilot[p] = NoPilot /\ Save(p, row, saved)
      BY <2>3 DEF CreatePilot
    <3> HIDE DEF row
    <3> QED
      BY <3>1, <3>2, PilotSaved DEF NoPilot, EndedPilot
  <2>4. CASE UpdatePilot(p, accounts, items, saved)
    <3> DEFINE row == [pilot[p] EXCEPT !.accounts = accounts, !.items = items]
    <3>1. pilot[p].status \in {"planned", "running"} /\ Assigned(accounts, items) /\ Save(p, row, saved)
      BY <2>4 DEF UpdatePilot
    <3>2. row \in PilotRow /\ row.status = pilot[p].status /\ row.accounts = accounts /\ row.items = items
      BY <2>2 DEF PilotRow
    <3> HIDE DEF row
    <3> QED
      BY <3>1, <3>2, PilotSaved DEF EndedPilot
  <2> QED
    BY <2>1, <2>3, <2>4
<1>3. CASE \E p \in Pilots, saved \in BOOLEAN : \E s \in PilotSteps : TransitionPilot(p, s[2], saved)
  <2>1. PICK p \in Pilots, saved \in BOOLEAN, s \in PilotSteps : TransitionPilot(p, s[2], saved)
    BY <1>3
  <2> DEFINE row == [pilot[p] EXCEPT !.status = s[2]]
  <2>2. pilot[p] \in PilotRow /\ Assigned(pilot[p].accounts, pilot[p].items)
    BY DEF PilotInv, PilotAssigned
  <2>3. /\ <<pilot[p].status, s[2]>> \in PilotSteps /\ Save(p, row, saved)
    BY <2>1 DEF TransitionPilot
  <2>4. pilot[p].status \in {"planned", "running"} /\ s[2] \in {"running", "completed", "stopped"}
    BY <2>3 DEF PilotSteps
  <2>5. row \in PilotRow /\ row.status = s[2] /\ row.accounts = pilot[p].accounts /\ row.items = pilot[p].items
    BY <2>2, <2>4 DEF PilotRow
  <2> HIDE DEF row
  <2> QED
    BY <2>2, <2>3, <2>4, <2>5, PilotSaved DEF EndedPilot
<1>4. CASE \E p \in Pilots, saved \in BOOLEAN : \E items \in ItemLists : items # <<>> /\ AddItem(p, items[1], saved)
  <2>1. PICK p \in Pilots, saved \in BOOLEAN, items \in ItemLists : items # <<>> /\ AddItem(p, items[1], saved)
    BY <1>4
  <2> PICK i : i = items[1]
    OBVIOUS
  <2> DEFINE All == UNION {Range(list) : list \in ItemLists}
             more == Append(pilot[p].items, i)
             row == [pilot[p] EXCEPT !.items = more]
  <2>2. /\ pilot[p] \in PilotRow /\ Assigned(pilot[p].accounts, pilot[p].items) /\ i \in All
    BY <2>1, ListsTyped DEF PilotInv, PilotAssigned
  <2>3. /\ pilot[p].status \in {"planned", "running"} /\ Assigned(pilot[p].accounts, <<i>>)
        /\ Save(p, [pilot[p] EXCEPT !.items = Append(@, i)], saved)
    BY <2>1 DEF AddItem
  <2>4. pilot[p].items \in Seq(All)
    BY <2>2 DEF PilotRow
  <2>5. more \in Seq(All)
    BY <2>2, <2>4
  <2>6. row \in PilotRow /\ row.status = pilot[p].status /\ row.accounts = pilot[p].accounts /\ row.items = more
    BY <2>2, <2>5 DEF PilotRow
  <2>7. Range(more) = Range(pilot[p].items) \cup {i} /\ Range(<<i>>) = {i}
    <3>1. Range(more) = Range(pilot[p].items) \cup {i}
      BY <2>2, <2>4, RangeOf
    <3>2. DOMAIN <<i>> = {1} /\ <<i>>[1] = i
      OBVIOUS
    <3>3. Range(<<i>>) = {i}
      BY <3>2 DEF Range
    <3> QED
      BY <3>1, <3>3
  <2>8. Assigned(row.accounts, row.items)
    BY <2>2, <2>3, <2>6, <2>7 DEF Assigned
  <2>9. Save(p, row, saved)
    BY <2>3
  <2> HIDE DEF row
  <2> QED
    BY <2>3, <2>6, <2>8, <2>9, PilotSaved DEF EndedPilot
<1> QED
  BY <1>1, <1>2, <1>3, <1>4 DEF PilotNext

LEMMA PilotKeeps == PilotInv /\ UNCHANGED pilotVars => PilotInv'
  BY DEF PilotInv, pilotVars, PilotAssigned

-----------------------------------------------------------------------------
LEMMA EvalStarts == ASSUME EvalRegistered, EvalInit(registered) PROVE EvalInv
<1>2. CallsHold
  <2>1. asked = <<>> /\ DOMAIN gatewayCall = {}
    BY DEF EvalInit
  <2>2. asked \in Seq(EvalKeys \X Nat) /\ Range(asked) = {}
    BY <2>1 DEF Range
  <2> QED
    BY <2>1, <2>2 DEF CallsHold, IsInjective
<1>3. StoredHold
  BY DEF EvalInit, StoredHold
<1>4. InProgress
  BY DEF EvalInit, InProgress
<1>5. /\ DOMAIN evalKey = EvalKeys /\ \A k \in EvalKeys : KeyMade(k)
      /\ KeysApart
  BY EvalBounds DEF EvalInit, KeyMade, KeysApart, NotUsed
<1> QED
  BY <1>2, <1>3, <1>4, <1>5 DEF EvalInv

(* Versions, runs and calls are only added.                                *)
Grows ==
    /\ \A kind \in VersionKinds :
          /\ DOMAIN registered[kind] \subseteq DOMAIN registered'[kind]
          /\ \A n \in DOMAIN registered[kind] : registered'[kind][n] = registered[kind][n]
    /\ DOMAIN evalRuns \subseteq DOMAIN evalRuns' /\ \A n \in DOMAIN evalRuns : evalRuns'[n] = evalRuns[n]
    /\ DOMAIN gatewayCall \subseteq DOMAIN gatewayCall' /\ \A c \in DOMAIN gatewayCall : gatewayCall'[c] = gatewayCall[c]

LEMMA AskStays ==
    ASSUME StoredHold, Grows, NEW req, AskedFor(req)
    PROVE  AskedFor(req)' /\ CasesOf(req)' = CasesOf(req) /\ LimitsOf(req)' = LimitsOf(req)
<1>1. ASSUME NEW other, AskedFor(other)
      PROVE  /\ CasesOf(other)' = CasesOf(other) /\ LimitsOf(other)' = LimitsOf(other)
             /\ other.prompt \in DOMAIN registered'["prompt"] /\ other.golden \in DOMAIN registered'["golden_set"]
             /\ other.threshold \in DOMAIN registered'["threshold"]
  BY <1>1, EvalBounds DEF Grows, AskedFor, CasesOf, LimitsOf
<1>2. ASSUME req.baseline # 0
      PROVE  /\ req.baseline \in DOMAIN evalRuns' /\ CasesOf(evalRuns[req.baseline].request)' = CasesOf(req)'
  <2> PICK other : other = evalRuns[req.baseline].request
    OBVIOUS
  <2>1. req.baseline \in DOMAIN evalRuns /\ CasesOf(other) = CasesOf(req)
    BY <1>2 DEF AskedFor
  <2>2. AskedFor(other)
    BY <2>1 DEF StoredHold, StoredAs, EvalRunHolds
  <2>3. evalRuns'[req.baseline].request = other /\ req.baseline \in DOMAIN evalRuns'
    BY <2>1 DEF Grows
  <2>4. CasesOf(evalRuns[req.baseline].request)' = CasesOf(other)'
    BY <2>3 DEF CasesOf
  <2> QED
    BY <1>1, <2>1, <2>2, <2>3, <2>4
<1>3. req \in EvalAsk /\ req.cents <= LimitsOf(req)'.each
  BY <1>1 DEF AskedFor
<1>4. AskedFor(req)'
  BY <1>1, <1>2, <1>3 DEF AskedFor
<1> QED
  BY <1>1, <1>4

LEMMA ResultsStay ==
    ASSUME StoredHold, Grows, NEW key, NEW req, NEW results, AskedFor(req), ResultsHold(key, req, results)
    PROVE  ResultsHold(key, req, results)'
<1>1. CasesOf(req)' = CasesOf(req) /\ LimitsOf(req)' = LimitsOf(req)
  BY AskStays
<1>2. ASSUME NEW i, AnswerTo(key, req, i) PROVE AnswerTo(key, req, i)'
  BY <1>1, <1>2 DEF AnswerTo, Grows
<1> QED
  BY <1>1, <1>2 DEF ResultsHold

LEMMA RunStays ==
    ASSUME StoredHold, Grows, NEW r, EvalRunHolds(r) PROVE EvalRunHolds(r)'
<1>1. AskedFor(r.request) /\ ResultsHold(r.key, r.request, r.results)
  BY DEF EvalRunHolds
<1>2. /\ AskedFor(r.request)' /\ LimitsOf(r.request)' = LimitsOf(r.request)
      /\ ResultsHold(r.key, r.request, r.results)'
  BY <1>1, AskStays, ResultsStay
<1> QED
  BY <1>2 DEF EvalRunHolds

LEMMA StoredStays ==
    ASSUME StoredHold, Grows, NEW r, StoredAs(r) PROVE StoredAs(r)'
<1>1. AskedFor(r.request)
  BY DEF StoredAs, EvalRunHolds
<1>2. CasesOf(r.request)' = CasesOf(r.request) /\ LimitsOf(r.request)' = LimitsOf(r.request) /\ EvalRunHolds(r)'
  BY <1>1, AskStays, RunStays DEF StoredAs
<1>3. r.request.baseline # 0 => evalRuns'[r.request.baseline] = evalRuns[r.request.baseline]
  BY <1>1 DEF AskedFor, Grows
<1>4. GatePassed(r) => GatePassed(r)'
  BY <1>2, <1>3 DEF GatePassed
<1> QED
  BY <1>2, <1>4 DEF StoredAs

(* What the steps that store no run have in common.                        *)
LEMMA RunsStay == ASSUME StoredHold, Grows, UNCHANGED evalRuns PROVE StoredHold'
<1>1. ASSUME NEW n \in DOMAIN evalRuns PROVE StoredAs(evalRuns[n])'
  <2> PICK r : r = evalRuns[n]
    OBVIOUS
  <2>1. StoredAs(r)
    BY DEF StoredHold
  <2>2. StoredAs(r)'
    BY <2>1, StoredStays
  <2>3. evalRuns'[n] = r
    OBVIOUS
  <2> QED
    BY <2>2, <2>3 DEF StoredAs, EvalRunHolds, AskedFor, ResultsHold, AnswerTo, GatePassed, CasesOf, LimitsOf
<1> QED
  BY <1>1 DEF StoredHold

LEMMA KeysStay ==
    ASSUME EvalInv, Grows, UNCHANGED evalKey
    PROVE  DOMAIN evalKey' = EvalKeys /\ (\A k \in EvalKeys : KeyMade(k)') /\ KeysApart'
<1>1. ASSUME NEW k \in EvalKeys PROVE KeyMade(k)'
  <2>1. KeyMade(k) /\ evalKey'[k] = evalKey[k]
    BY DEF EvalInv
  <2> QED
    BY <2>1 DEF KeyMade, Grows
<1> QED
  BY <1>1 DEF EvalInv, KeysApart

LEMMA RunTyped ==
    ASSUME EvalInv
    PROVE  /\ EvalRegistered /\ StoredHold /\ CallsHold
           /\ \A req : AskedFor(req) =>
                 /\ CasesOf(req) \in Seq(SUBSET UNION {UNION Range(g) : g \in BodiesOf["golden_set"]})
                 /\ LimitsOf(req) \in [exact : Nat, errors : Nat, drop : Nat, rise : Nat, total : Nat, each : Nat]
<1>1. EvalRegistered
  BY DEF EvalInv
<1>2. ASSUME NEW req, AskedFor(req)
      PROVE  CasesOf(req) \in BodiesOf["golden_set"] /\ LimitsOf(req) \in BodiesOf["threshold"]
  <2>1. /\ registered["golden_set"] \in Seq(BodiesOf["golden_set"]) /\ req.golden \in DOMAIN registered["golden_set"]
        /\ registered["threshold"] \in Seq(BodiesOf["threshold"]) /\ req.threshold \in DOMAIN registered["threshold"]
    BY <1>1, <1>2, EvalBounds DEF EvalRegistered, AskedFor
  <2> QED
    BY <2>1 DEF CasesOf, LimitsOf
<1> QED
  BY <1>1, <1>2, EvalBounds DEF EvalInv

LEMMA Weighed ==
    ASSUME NEW x \in Int, NEW y \in Int, NEW z \in Int, NEW most \in Int, y <= z, 100 * (x - y) <= most
    PROVE  100 * (x - z) <= most
  OBVIOUS

(* The gate judges by what the gateway keeps.                              *)
LEMMA GatesTold == EvalInv => GateSound
<1> SUFFICES ASSUME EvalInv, NEW r \in Range(evalRuns), r.gate = "passed"
             PROVE  LET cases == CasesOf(r.request)
                        limits == LimitsOf(r.request)
                        Told(i) == gatewayCall[<<r.key, i>>]
                        right == {i \in DOMAIN cases :
                                     <<r.key, i>> \in DOMAIN gatewayCall /\ Told(i).answer.says = "right"
                                     /\ Told(i).payload.prompt = r.request.prompt /\ Told(i).payload.has = cases[i]} IN
                    /\ DOMAIN r.results = DOMAIN cases
                    /\ {i \in DOMAIN cases : r.results[i].status = "passed"} \subseteq right
                    /\ 100 * Cardinality(right) >= limits.exact * Len(cases)
                    /\ r.request.baseline # 0 =>
                         LET base == evalRuns[r.request.baseline] IN
                         /\ CasesOf(base.request) = cases
                         /\ 100 * (Counted(base.results, "passed") - Cardinality(right)) <= limits.drop * Len(cases)
  BY DEF GateSound
<1> DEFINE cases == CasesOf(r.request)
           limits == LimitsOf(r.request)
           right == {i \in DOMAIN cases :
                        <<r.key, i>> \in DOMAIN gatewayCall /\ gatewayCall[<<r.key, i>>].answer.says = "right"
                        /\ gatewayCall[<<r.key, i>>].payload.prompt = r.request.prompt
                        /\ gatewayCall[<<r.key, i>>].payload.has = cases[i]}
           passed == {i \in DOMAIN r.results : r.results[i].status = "passed"}
<1>1. StoredAs(r) /\ GatePassed(r)
  BY DEF EvalInv, StoredHold, StoredAs, Range
<1>2. AskedFor(r.request) /\ ResultsHold(r.key, r.request, r.results) /\ Len(r.results) = Len(cases)
  BY <1>1 DEF StoredAs, EvalRunHolds
<1>3. /\ cases \in Seq(SUBSET UNION {UNION Range(g) : g \in BodiesOf["golden_set"]})
      /\ limits \in [exact : Nat, errors : Nat, drop : Nat, rise : Nat, total : Nat, each : Nat]
  BY <1>2, RunTyped
<1>4. /\ r.results \in Seq(ResultRow) /\ Len(cases) \in Nat
      /\ DOMAIN r.results = 1 .. Len(cases) /\ DOMAIN cases = 1 .. Len(cases)
  BY <1>2, <1>3 DEF ResultsHold
<1>5. passed \subseteq right
  BY <1>2, <1>4 DEF ResultsHold, AnswerTo
<1>6. right \subseteq 1 .. Len(cases)
  BY <1>4
<1>7. /\ IsFiniteSet(right) /\ Cardinality(right) \in Nat /\ Cardinality(passed) \in Nat
      /\ Cardinality(passed) <= Cardinality(right)
  <2>1. IsFiniteSet(1 .. Len(cases))
    BY <1>4, FS_Interval
  <2>2. IsFiniteSet(right)
    BY <2>1, <1>6, FS_Subset
  <2>3. IsFiniteSet(passed) /\ Cardinality(passed) <= Cardinality(right)
    BY <2>2, <1>5, FS_Subset
  <2> QED
    BY <2>2, <2>3, FS_CardinalityType
<1>8. Counted(r.results, "passed") = Cardinality(passed)
  BY DEF Counted
<1>9. PICK need : need = limits.exact * Len(cases) /\ need \in Int
  BY <1>3, <1>4
<1>10. PICK may \in Int : may = limits.drop * Len(cases)
  BY <1>3, <1>4
<1>11. 100 * Cardinality(passed) >= need
  BY <1>1, <1>2, <1>8, <1>9 DEF GatePassed
<1>12. 100 * Cardinality(right) >= need
  BY <1>7, <1>9, <1>11
<1>13. ASSUME r.request.baseline # 0
       PROVE  /\ CasesOf(evalRuns[r.request.baseline].request) = cases
              /\ 100 * (Counted(evalRuns[r.request.baseline].results, "passed") - Cardinality(right)) <= may
  <2> DEFINE base == evalRuns[r.request.baseline]
             done == {i \in DOMAIN base.results : base.results[i].status = "passed"}
  <2>1. r.request.baseline \in DOMAIN evalRuns /\ CasesOf(base.request) = cases
    BY <1>2, <1>13 DEF AskedFor
  <2>2. base.results \in Seq(ResultRow)
    BY <2>1 DEF EvalInv, StoredHold, StoredAs, EvalRunHolds, ResultsHold
  <2>3. IsFiniteSet(1 .. Len(base.results)) /\ DOMAIN base.results = 1 .. Len(base.results)
    BY <2>2, FS_Interval
  <2>4. done \subseteq 1 .. Len(base.results)
    BY <2>3
  <2>5. Cardinality(done) \in Nat
    BY <2>3, <2>4, FS_Subset, FS_CardinalityType
  <2>6. Counted(base.results, "passed") = Cardinality(done)
    BY DEF Counted
  <2>7. 100 * (Cardinality(done) - Cardinality(passed)) <= may
    BY <1>1, <1>2, <1>8, <1>10, <1>13, <2>6 DEF GatePassed
  <2> HIDE DEF done, passed, right
  <2>8. 100 * (Cardinality(done) - Cardinality(right)) <= may
    <3> PICK x : x = Cardinality(done)
      OBVIOUS
    <3> PICK y : y = Cardinality(passed)
      OBVIOUS
    <3> PICK z : z = Cardinality(right)
      OBVIOUS
    <3>1. x \in Int /\ y \in Int /\ z \in Int /\ may \in Int /\ y <= z /\ 100 * (x - y) <= may
      BY <1>7, <2>5, <2>7
    <3>2. 100 * (x - z) <= may
      BY <3>1, Weighed
    <3> QED
      BY <3>2
  <2> QED
    BY <2>1, <2>6, <2>8
<1>14. {i \in DOMAIN cases : r.results[i].status = "passed"} \subseteq right
  BY <1>4, <1>5
<1> QED
  BY <1>4, <1>9, <1>10, <1>12, <1>13, <1>14

LEMMA SpentWithin == EvalInv => AskedWithin /\ VersionsTold
<1> SUFFICES ASSUME EvalInv PROVE AskedWithin /\ VersionsTold
  OBVIOUS
<1>1. ASSUME NEW r, EvalRunHolds(r)
      PROVE  r.total <= LimitsOf(r.request).total /\ \A i \in DOMAIN r.results : r.results[i].cost <= LimitsOf(r.request).each
  BY <1>1 DEF EvalRunHolds, ResultsHold
<1>2. ASSUME NEW r \in Range(evalRuns) \cup ({evaluating} \ {NotEvaluating}) PROVE EvalRunHolds(r)
  BY DEF EvalInv, StoredHold, StoredAs, InProgress, Range
<1>3. AskedWithin
  BY <1>1, <1>2 DEF EvalInv, CallsHold, AskedWithin
<1>4. VersionsTold
  BY DEF EvalInv, KeyMade, KeysApart, VersionsTold
<1> QED
  BY <1>3, <1>4

(* The next result of the run in progress.                                 *)
LEMMA ResultAdded ==
    ASSUME EvalInv, evaluating # NotEvaluating, Grows, UNCHANGED <<registered, evalKey, evalRuns>>,
           NEW e, e = evaluating, NEW n, n = Len(e.results) + 1, n <= Len(CasesOf(e.request)),
           NEW status \in {"passed", "failed", "error"}, NEW cost \in Nat, Result(status, cost),
           e.total + cost <= LimitsOf(e.request).total, cost <= LimitsOf(e.request).each,
           status = "passed" => AnswerTo(e.key, e.request, n)'
    PROVE  InProgress'
<1> PICK row : row = [status |-> status, cost |-> cost]
  OBVIOUS
<1> PICK results : results = Append(e.results, row)
  OBVIOUS
<1> PICK f : f = [key |-> e.key, request |-> e.request, results |-> results, total |-> e.total + cost]
  OBVIOUS
<1>1. /\ e = [key |-> e.key, request |-> e.request, results |-> e.results, total |-> e.total]
      /\ EvalRunHolds(e) /\ evalKey[e.key] = NotUsed
  BY DEF EvalInv, InProgress
<1>2. /\ e.key \in EvalKeys /\ AskedFor(e.request) /\ ResultsHold(e.key, e.request, e.results) /\ e.total \in Nat
      /\ StoredHold
  BY <1>1 DEF EvalRunHolds, EvalInv
<1>3. evaluating' = f
  BY DEF Result
<1>4. /\ AskedFor(e.request)' /\ CasesOf(e.request)' = CasesOf(e.request) /\ LimitsOf(e.request)' = LimitsOf(e.request)
      /\ ResultsHold(e.key, e.request, e.results)'
  BY <1>2, AskStays, ResultsStay
<1>5. e.results \in Seq(ResultRow) /\ row \in ResultRow
  BY <1>2 DEF ResultsHold, ResultRow
<1>6. /\ results \in Seq(ResultRow) /\ Len(results) = n /\ DOMAIN results = 1 .. n /\ DOMAIN e.results = 1 .. n - 1 /\ n \in Nat
      /\ results[n] = row /\ \A i \in 1 .. n - 1 : results[i] = e.results[i]
  BY <1>5, AppendProperties
<1>7. ResultsHold(e.key, e.request, results)'
  <2>1. ASSUME NEW i \in 1 .. n
        PROVE  /\ results[i].cost <= LimitsOf(e.request)'.each
               /\ results[i].status = "passed" => AnswerTo(e.key, e.request, i)'
    <3>1. CASE i = n
      BY <1>4, <1>6, <3>1
    <3>2. CASE i # n
      <4>1. i \in 1 .. n - 1
        BY <1>6, <3>2
      <4> QED
        BY <1>4, <1>6, <4>1 DEF ResultsHold
    <3> QED
      BY <3>1, <3>2
  <2>2. Len(results) <= Len(CasesOf(e.request))'
    BY <1>4, <1>6
  <2> QED
    BY <1>6, <2>1, <2>2 DEF ResultsHold
<1>8. /\ f = [key |-> f.key, request |-> f.request, results |-> f.results, total |-> f.total]
      /\ f.key = e.key /\ f.request = e.request /\ f.results = results /\ f.total = e.total + cost
  OBVIOUS
<1>9. EvalRunHolds(f)'
  BY <1>2, <1>4, <1>7, <1>8 DEF EvalRunHolds
<1>10. evalKey'[f.key] = NotUsed
  BY <1>1, <1>8
<1> QED
  BY <1>3, <1>8, <1>9, <1>10 DEF InProgress

(* What holds of the run in progress, and of its next case.                *)
LEMMA RunGoesOn ==
    ASSUME EvalInv, evaluating # NotEvaluating, NEW e, e = evaluating
    PROVE  /\ e.key \in EvalKeys /\ AskedFor(e.request) /\ ResultsHold(e.key, e.request, e.results) /\ EvalRunHolds(e)
           /\ e.total \in Nat /\ e.total <= LimitsOf(e.request).total /\ e.request.cents \in Nat
           /\ LimitsOf(e.request).total \in Nat /\ LimitsOf(e.request).each \in Nat
           /\ e.request.cents <= LimitsOf(e.request).each
           /\ Case = Len(e.results) + 1 /\ Case \in Nat /\ Len(CasesOf(e.request)) \in Nat
           /\ Remaining = LimitsOf(e.request).total - e.total /\ Remaining \in Int
<1>1. EvalRunHolds(e)
  BY DEF EvalInv, InProgress
<1>2. AskedFor(e.request) /\ ResultsHold(e.key, e.request, e.results)
  BY <1>1 DEF EvalRunHolds
<1>3. LimitsOf(e.request).total \in Nat /\ LimitsOf(e.request).each \in Nat /\ Len(CasesOf(e.request)) \in Nat
  <2>1. /\ CasesOf(e.request) \in Seq(SUBSET UNION {UNION Range(g) : g \in BodiesOf["golden_set"]})
        /\ LimitsOf(e.request) \in [exact : Nat, errors : Nat, drop : Nat, rise : Nat, total : Nat, each : Nat]
    BY <1>2, RunTyped
  <2> QED
    BY <2>1
<1>4. Len(e.results) \in Nat
  BY <1>2 DEF ResultsHold
<1>5. e.key \in EvalKeys /\ e.total \in Nat /\ e.total <= LimitsOf(e.request).total
  BY <1>1 DEF EvalRunHolds
<1>6. e.request.cents \in Nat /\ e.request.cents <= LimitsOf(e.request).each
  BY <1>2 DEF AskedFor, EvalAsk
<1>7. Case = Len(e.results) + 1 /\ Remaining = LimitsOf(e.request).total - e.total
  BY DEF Case, Remaining
<1> QED
  BY <1>1, <1>2, <1>3, <1>4, <1>5, <1>6, <1>7

LEMMA OthersStay ==
    ASSUME EvalInv, UNCHANGED <<registered, evalKey, evalRuns, gatewayCall, asked>>, InProgress' PROVE EvalInv'
<1>1. Grows
  BY DEF Grows
<1>2. StoredHold'
  BY <1>1, RunsStay DEF EvalInv
<1>3. DOMAIN evalKey' = EvalKeys /\ (\A k \in EvalKeys : KeyMade(k)') /\ KeysApart'
  BY <1>1, KeysStay
<1>4. EvalRegistered' /\ CallsHold'
  BY DEF EvalInv, EvalRegistered, CallsHold
<1> QED
  BY <1>2, <1>3, <1>4 DEF EvalInv

LEMMA CaseSkipped == ASSUME EvalInv, SkipCase PROVE EvalInv'
<1> PICK e : e = evaluating
  OBVIOUS
<1> PICK n : n = Len(e.results) + 1
  OBVIOUS
<1>1. /\ evaluating # NotEvaluating /\ Case <= Len(CasesOf(e.request)) /\ Result("error", 0)
      /\ UNCHANGED <<registered, evalKey, evalRuns, gatewayCall, asked>>
  BY DEF SkipCase
<1>2. Grows
  BY <1>1 DEF Grows
<1>3. e.total + 0 <= LimitsOf(e.request).total /\ 0 <= LimitsOf(e.request).each /\ n <= Len(CasesOf(e.request))
  BY <1>1, RunGoesOn
<1>4. InProgress'
  BY <1>1, <1>2, <1>3, ResultAdded
<1> QED
  BY <1>1, <1>4, OthersStay

(* A case that is asked stays within what the run may spend.               *)
LEMMA PayloadFits ==
    ASSUME EvalInv, Asking, NEW e, e = evaluating
    PROVE  /\ CasePayload.prompt = e.request.prompt /\ CasePayload.has = CasesOf(e.request)[Case]
           /\ CasePayload.cents \in Nat /\ CasePayload.cents <= Remaining /\ CasePayload.cents <= e.request.cents
<1>1. Remaining \in Int /\ Remaining > 0 /\ e.request.cents \in Nat
  BY RunGoesOn DEF Asking
<1>2. CasePayload.cents = IF e.request.cents < Remaining THEN e.request.cents ELSE Remaining
  BY DEF CasePayload
<1>3. CasePayload.prompt = e.request.prompt /\ CasePayload.has = CasesOf(e.request)[Case]
  BY DEF CasePayload
<1> QED
  BY <1>1, <1>2, <1>3

LEMMA ModelAsked == ASSUME EvalInv, NEW answer \in Answers, AskModel(answer) PROVE EvalInv'
<1> PICK e : e = evaluating
  OBVIOUS
<1> PICK n : n = Len(e.results) + 1
  OBVIOUS
<1> PICK payload : payload = CasePayload
  OBVIOUS
<1> PICK new : new = <<e.key, n>>
  OBVIOUS
<1> PICK said : said = IF answer.says = "raises" \/ answer.cost > payload.cents
                       THEN [says |-> "none", cost |-> 0] ELSE answer
  OBVIOUS
<1>1. Asking /\ evaluating # NotEvaluating /\ Case <= Len(CasesOf(e.request)) /\ CallKey = new
  BY DEF AskModel, Asking, CallKey, Case
<1>2. /\ e.key \in EvalKeys /\ AskedFor(e.request) /\ n \in Nat /\ Case = n
      /\ e.total \in Nat /\ LimitsOf(e.request).total \in Nat /\ LimitsOf(e.request).each \in Nat
      /\ e.request.cents <= LimitsOf(e.request).each /\ e.request.cents \in Nat
      /\ Remaining = LimitsOf(e.request).total - e.total
  BY <1>1, RunGoesOn
<1>3. /\ payload.prompt = e.request.prompt /\ payload.has = CasesOf(e.request)[n]
      /\ payload.cents \in Nat /\ payload.cents <= Remaining /\ payload.cents <= e.request.cents
  BY <1>1, <1>2, PayloadFits
<1>4. /\ new \notin DOMAIN gatewayCall
      /\ gatewayCall' = [c \in DOMAIN gatewayCall \cup {new} |->
                            IF c = new THEN [payload |-> payload, answer |-> said] ELSE gatewayCall[c]]
      /\ asked' = Append(asked, new) /\ Result(Judge(said.says), said.cost)
      /\ UNCHANGED <<registered, evalKey, evalRuns>>
  BY <1>1 DEF AskModel
<1>5. said.cost \in Nat /\ said.cost <= payload.cents
  BY <1>3, EvalBounds
<1>6. Judge(said.says) \in {"passed", "failed", "error"} /\ (Judge(said.says) = "passed" => said.says = "right")
  BY DEF Judge
<1>7. Grows
  BY <1>4 DEF Grows
<1>8. InProgress'
  <2>1. Judge(said.says) = "passed" => AnswerTo(e.key, e.request, n)'
    <3>1. CasesOf(e.request)' = CasesOf(e.request)
      BY <1>4 DEF CasesOf
    <3>2. new \in DOMAIN gatewayCall' /\ gatewayCall'[new] = [payload |-> payload, answer |-> said]
      BY <1>4
    <3> QED
      BY <1>3, <1>6, <3>1, <3>2 DEF AnswerTo
  <2>2. e.total + said.cost <= LimitsOf(e.request).total /\ said.cost <= LimitsOf(e.request).each
    BY <1>2, <1>3, <1>5
  <2> QED
    BY <1>1, <1>2, <1>4, <1>5, <1>6, <1>7, <2>1, <2>2, ResultAdded
<1>9. StoredHold'
  BY <1>4, <1>7, RunsStay DEF EvalInv
<1>10. DOMAIN evalKey' = EvalKeys /\ (\A k \in EvalKeys : KeyMade(k)') /\ KeysApart'
  BY <1>4, <1>7, KeysStay
<1>11. EvalRegistered'
  BY <1>4 DEF EvalInv, EvalRegistered
<1>12. CallsHold'
  <2>1. /\ asked \in Seq(EvalKeys \X Nat) /\ IsInjective(asked) /\ Range(asked) = DOMAIN gatewayCall
        /\ \A c \in DOMAIN gatewayCall :
              gatewayCall[c].answer.cost \in Nat /\ gatewayCall[c].answer.cost <= gatewayCall[c].payload.cents
    BY DEF EvalInv, CallsHold
  <2>2. new \in EvalKeys \X Nat
    BY <1>2
  <2>3. /\ asked' \in Seq(EvalKeys \X Nat) /\ Range(asked') = Range(asked) \cup {new}
        /\ DOMAIN asked' = 1 .. Len(asked) + 1 /\ DOMAIN asked = 1 .. Len(asked) /\ Len(asked) \in Nat
        /\ asked'[Len(asked) + 1] = new /\ \A i \in 1 .. Len(asked) : asked'[i] = asked[i]
    <3>1. asked \in Seq(EvalKeys \X Nat) /\ asked' = Append(asked, new)
      BY <1>4, <2>1
    <3>2. Range(Append(asked, new)) = Range(asked) \cup {new}
      BY <2>2, <3>1, RangeOf
    <3>3. /\ Append(asked, new) \in Seq(EvalKeys \X Nat)
          /\ DOMAIN Append(asked, new) = 1 .. Len(asked) + 1 /\ DOMAIN asked = 1 .. Len(asked) /\ Len(asked) \in Nat
          /\ Append(asked, new)[Len(asked) + 1] = new /\ \A i \in 1 .. Len(asked) : Append(asked, new)[i] = asked[i]
      BY <2>2, <3>1, AppendProperties
    <3> QED
      BY <3>1, <3>2, <3>3
  <2>4. \A i \in DOMAIN asked : asked[i] \in DOMAIN gatewayCall
    BY <2>1 DEF Range
  <2>5. IsInjective(asked')
    <3>1. ASSUME NEW i \in DOMAIN asked', NEW j \in DOMAIN asked', asked'[i] = asked'[j] PROVE i = j
      <4>1. (i \in DOMAIN asked \/ i = Len(asked) + 1) /\ (j \in DOMAIN asked \/ j = Len(asked) + 1)
        BY <2>3
      <4>2. CASE i \in DOMAIN asked /\ j \in DOMAIN asked
        BY <2>1, <2>3, <3>1, <4>2 DEF IsInjective
      <4>3. CASE ~(i \in DOMAIN asked /\ j \in DOMAIN asked)
        BY <1>4, <2>3, <2>4, <3>1, <4>1, <4>3
      <4> QED
        BY <4>2, <4>3
    <3> QED
      BY <3>1 DEF IsInjective
  <2>6. DOMAIN gatewayCall' = DOMAIN gatewayCall \cup {new} /\ Range(asked') = DOMAIN gatewayCall'
    BY <1>4, <2>1, <2>3
  <2>7. \A c \in DOMAIN gatewayCall' :
            gatewayCall'[c].answer.cost \in Nat /\ gatewayCall'[c].answer.cost <= gatewayCall'[c].payload.cents
    BY <1>4, <1>5, <2>1
  <2> QED
    BY <2>3, <2>5, <2>6, <2>7 DEF CallsHold
<1> QED
  BY <1>8, <1>9, <1>10, <1>11, <1>12 DEF EvalInv

LEMMA CallRepeated == ASSUME EvalInv, RepeatCall PROVE EvalInv'
<1> PICK e : e = evaluating
  OBVIOUS
<1> PICK n : n = Len(e.results) + 1
  OBVIOUS
<1> PICK payload : payload = CasePayload
  OBVIOUS
<1> PICK of : of = <<e.key, n>>
  OBVIOUS
<1> PICK known : known = gatewayCall[of]
  OBVIOUS
<1>1. Asking /\ evaluating # NotEvaluating /\ Case <= Len(CasesOf(e.request)) /\ CallKey = of /\ of \in DOMAIN gatewayCall
  BY DEF RepeatCall, Asking, CallKey, Case
<1>2. /\ e.key \in EvalKeys /\ AskedFor(e.request) /\ n \in Nat /\ Case = n
      /\ e.total \in Nat /\ LimitsOf(e.request).total \in Nat /\ LimitsOf(e.request).each \in Nat
      /\ e.request.cents <= LimitsOf(e.request).each /\ e.request.cents \in Nat
      /\ e.total <= LimitsOf(e.request).total /\ Remaining = LimitsOf(e.request).total - e.total
  BY <1>1, RunGoesOn
<1>3. /\ payload.prompt = e.request.prompt /\ payload.has = CasesOf(e.request)[n]
      /\ payload.cents \in Nat /\ payload.cents <= Remaining /\ payload.cents <= e.request.cents
  BY <1>1, <1>2, PayloadFits
<1>4. /\ IF known.payload = payload THEN Result(Judge(known.answer.says), known.answer.cost) ELSE Result("error", 0)
      /\ UNCHANGED <<registered, evalKey, evalRuns, gatewayCall, asked>>
  BY <1>1 DEF RepeatCall
<1>5. Grows
  BY <1>4 DEF Grows
<1>6. CASE known.payload = payload
  <2>1. known.answer.cost \in Nat /\ known.answer.cost <= payload.cents
    BY <1>1, <1>6 DEF EvalInv, CallsHold
  <2>2. /\ Judge(known.answer.says) \in {"passed", "failed", "error"}
        /\ Judge(known.answer.says) = "passed" => known.answer.says = "right"
    BY DEF Judge
  <2>3. Judge(known.answer.says) = "passed" => AnswerTo(e.key, e.request, n)'
    <3>1. CasesOf(e.request)' = CasesOf(e.request)
      BY <1>4 DEF CasesOf
    <3> QED
      BY <1>1, <1>3, <1>4, <1>6, <2>2, <3>1 DEF AnswerTo
  <2>4. e.total + known.answer.cost <= LimitsOf(e.request).total /\ known.answer.cost <= LimitsOf(e.request).each
    BY <1>2, <1>3, <2>1
  <2> QED
    BY <1>1, <1>2, <1>4, <1>5, <1>6, <2>1, <2>2, <2>3, <2>4, ResultAdded, OthersStay
<1>7. CASE known.payload # payload
  <2>1. e.total + 0 <= LimitsOf(e.request).total /\ 0 <= LimitsOf(e.request).each
    BY <1>2
  <2> QED
    BY <1>1, <1>2, <1>4, <1>5, <1>7, <2>1, ResultAdded, OthersStay
<1> QED
  BY <1>6, <1>7

LEMMA RunEnds == ASSUME EvalInv, RunRaises PROVE EvalInv'
<1>1. evaluating' = NotEvaluating /\ UNCHANGED <<registered, evalKey, evalRuns, gatewayCall, asked>>
  BY DEF RunRaises
<1> QED
  BY <1>1, OthersStay DEF InProgress

LEMMA RunBegun ==
    ASSUME EvalInv, NEW k \in EvalKeys, NEW b \in 0 .. Len(evalRuns), NEW cents \in CaseBudgets,
           NEW p \in DOMAIN registered["prompt"], NEW g \in DOMAIN registered["golden_set"],
           NEW t \in DOMAIN registered["threshold"], BeginRun(k, EvalRequest(p, g, t, b, cents))
    PROVE  EvalInv'
<1> PICK req : req = EvalRequest(p, g, t, b, cents)
  OBVIOUS
<1> PICK f : f = [key |-> k, request |-> req, results |-> <<>>, total |-> 0]
  OBVIOUS
<1>1. /\ evalKey[k] = NotUsed /\ evaluating' = f
      /\ req.baseline # 0 => CasesOf(evalRuns[req.baseline].request) = CasesOf(req)
      /\ req.cents <= LimitsOf(req).each
      /\ UNCHANGED <<registered, evalKey, evalRuns, gatewayCall, asked>>
  BY DEF BeginRun
<1>2. /\ req.prompt = p /\ req.golden = g /\ req.threshold = t /\ req.baseline = b /\ req.cents = cents
      /\ f.key = k /\ f.request = req /\ f.results = <<>> /\ f.total = 0
      /\ f = [key |-> f.key, request |-> f.request, results |-> f.results, total |-> f.total]
  BY DEF EvalRequest
<1>3. cents \in Nat /\ (b # 0 => b \in DOMAIN evalRuns)
  BY EvalBounds DEF EvalInv, StoredHold
<1>4. AskedFor(req)
  <2>1. p \in Nat /\ g \in Nat /\ t \in Nat
    <3>1. /\ registered["prompt"] \in Seq(BodiesOf["prompt"]) /\ registered["golden_set"] \in Seq(BodiesOf["golden_set"])
          /\ registered["threshold"] \in Seq(BodiesOf["threshold"])
      BY EvalBounds DEF EvalInv, EvalRegistered
    <3> QED
      BY <3>1
  <2>2. req \in EvalAsk
    BY <1>3, <2>1 DEF EvalRequest, EvalAsk
  <2> QED
    BY <1>1, <1>2, <1>3, <2>2 DEF AskedFor
<1>5. LimitsOf(req).total \in Nat /\ Len(CasesOf(req)) \in Nat
  <2>1. /\ CasesOf(req) \in Seq(SUBSET UNION {UNION Range(gold) : gold \in BodiesOf["golden_set"]})
        /\ LimitsOf(req) \in [exact : Nat, errors : Nat, drop : Nat, rise : Nat, total : Nat, each : Nat]
    BY <1>4, RunTyped
  <2> QED
    BY <2>1
<1>6. ResultsHold(k, req, <<>>)
  BY <1>5 DEF ResultsHold
<1>7. EvalRunHolds(f)
  BY <1>2, <1>4, <1>5, <1>6 DEF EvalRunHolds
<1>8. Grows /\ StoredHold
  BY <1>1 DEF Grows, EvalInv
<1>9. EvalRunHolds(f)'
  BY <1>7, <1>8, RunStays
<1>10. InProgress'
  BY <1>1, <1>2, <1>9 DEF InProgress
<1> QED
  BY <1>1, <1>10, OthersStay

LEMMA CountedTyped ==
    ASSUME NEW results \in Seq(ResultRow), NEW status PROVE Counted(results, status) \in Nat
<1> DEFINE done == {i \in DOMAIN results : results[i].status = status}
<1>1. IsFiniteSet(1 .. Len(results)) /\ done \subseteq 1 .. Len(results)
  BY FS_Interval
<1>2. Cardinality(done) \in Nat
  BY <1>1, FS_Subset, FS_CardinalityType
<1> QED
  BY <1>2 DEF Counted

(* A key that is used once more was of no command before.                  *)
LEMMA KeyUsed ==
    ASSUME EvalInv, Grows, NEW k \in EvalKeys, evalKey[k] = NotUsed, NEW c, c.command # "none",
           evalKey' = [evalKey EXCEPT ![k] = c], KeyMade(k)',
           \A l \in EvalKeys : evalKey[l].command = c.command => evalKey[l].made # c.made
    PROVE  DOMAIN evalKey' = EvalKeys /\ (\A l \in EvalKeys : KeyMade(l)') /\ KeysApart'
<1>1. /\ DOMAIN evalKey' = EvalKeys /\ evalKey'[k] = c
      /\ \A l \in EvalKeys : l # k => evalKey'[l] = evalKey[l]
  BY DEF EvalInv
<1>2. ASSUME NEW l \in EvalKeys PROVE KeyMade(l)'
  <2>1. CASE l = k
    BY <2>1
  <2>2. CASE l # k
    <3>1. KeyMade(l) /\ evalKey'[l] = evalKey[l]
      BY <1>1, <2>2 DEF EvalInv
    <3> QED
      BY <3>1 DEF KeyMade, Grows
  <2> QED
    BY <2>1, <2>2
<1>3. KeysApart'
  <2> SUFFICES ASSUME NEW i \in EvalKeys, NEW j \in EvalKeys, i # j, evalKey'[i].command # "none",
                      evalKey'[j].command = evalKey'[i].command
               PROVE  evalKey'[j].made # evalKey'[i].made
    BY DEF KeysApart
  <2>1. CASE i # k /\ j # k
    BY <1>1, <2>1 DEF EvalInv, KeysApart
  <2>2. CASE i = k
    <3>1. evalKey'[i] = c /\ evalKey'[j] = evalKey[j]
      BY <1>1, <2>2
    <3> QED
      BY <3>1
  <2>3. CASE j = k
    <3>1. evalKey'[j] = c /\ evalKey'[i] = evalKey[i]
      BY <1>1, <2>3
    <3> QED
      BY <3>1
  <2> QED
    BY <2>1, <2>2, <2>3
<1> QED
  BY <1>1, <1>2, <1>3

LEMMA Registers ==
    ASSUME EvalInv, NEW k \in EvalKeys, NEW kind \in VersionKinds, NEW number \in Nat, NEW previous \in Nat,
           NEW body \in BodiesOf[kind], Register(k, kind, number, previous, body)
    PROVE  EvalInv'
<1> PICK c : c = [command |-> kind, request |-> <<number, body>>, made |-> number]
  OBVIOUS
<1> PICK list : list = registered[kind]
  OBVIOUS
<1>1. /\ evaluating = NotEvaluating /\ evalKey[k] = NotUsed /\ number = Len(list) + 1
      /\ registered' = [registered EXCEPT ![kind] = Append(list, body)]
      /\ evalKey' = [evalKey EXCEPT ![k] = c]
      /\ UNCHANGED <<evalRuns, evaluating, gatewayCall, asked>>
  BY DEF Register
<1>2. list \in Seq(BodiesOf[kind]) /\ DOMAIN registered = VersionKinds
  BY DEF EvalInv, EvalRegistered
<1>3. /\ registered'[kind] = Append(list, body) /\ DOMAIN registered' = VersionKinds
      /\ \A other \in VersionKinds : other # kind => registered'[other] = registered[other]
  BY <1>1, <1>2
<1>4. /\ Append(list, body) \in Seq(BodiesOf[kind]) /\ DOMAIN Append(list, body) = 1 .. number
      /\ DOMAIN list = 1 .. Len(list) /\ Len(list) \in Nat /\ Append(list, body)[number] = body
      /\ \A i \in 1 .. Len(list) : Append(list, body)[i] = list[i]
  BY <1>1, <1>2, AppendProperties
<1>5. Grows
  BY <1>1, <1>3, <1>4 DEF Grows
<1>6. EvalRegistered'
  BY <1>2, <1>3, <1>4 DEF EvalInv, EvalRegistered
<1>7. StoredHold' /\ CallsHold' /\ InProgress'
  <2>1. StoredHold'
    BY <1>1, <1>5, RunsStay DEF EvalInv
  <2> QED
    BY <1>1, <2>1 DEF EvalInv, CallsHold, InProgress
<1>8. c.command = kind /\ c.request[1] = number /\ c.request[2] = body /\ c.made = number /\ kind \notin {"none", "run"}
  BY EvalBounds
<1>9. KeyMade(k)'
  <2>1. evalKey'[k] = c
    BY <1>1 DEF EvalInv
  <2>2. number \in DOMAIN registered'[kind] /\ registered'[kind][number] = body
    BY <1>1, <1>3, <1>4
  <2> QED
    BY <1>8, <2>1, <2>2 DEF KeyMade
<1>10. ASSUME NEW l \in EvalKeys, evalKey[l].command = c.command PROVE evalKey[l].made # c.made
  <2>1. evalKey[l].made \in DOMAIN registered[kind]
    BY <1>8, <1>10 DEF EvalInv, KeyMade
  <2>2. number \notin DOMAIN list
    BY <1>1, <1>4
  <2> QED
    BY <1>8, <2>1, <2>2
<1>11. DOMAIN evalKey' = EvalKeys /\ (\A l \in EvalKeys : KeyMade(l)') /\ KeysApart'
  BY <1>1, <1>5, <1>8, <1>9, <1>10, KeyUsed
<1> QED
  BY <1>6, <1>7, <1>11 DEF EvalInv

(* A run that passes the gate gives no reason to fail it.                  *)
LEMMA NoReason ==
    ASSUME EvalInv, NEW req, AskedFor(req), NEW results \in Seq(ResultRow), NEW cost,
           Reasons(req, results, cost) = {}
    PROVE  /\ 100 * Counted(results, "passed") >= LimitsOf(req).exact * Len(results)
           /\ req.baseline # 0 =>
                100 * (Counted(evalRuns[req.baseline].results, "passed") - Counted(results, "passed"))
                   <= LimitsOf(req).drop * Len(results)
<1> PICK passed : passed = Counted(results, "passed")
  OBVIOUS
<1> PICK before : before = Counted(evalRuns[req.baseline].results, "passed")
  OBVIOUS
<1>1. passed \in Nat
  BY CountedTyped
<1>2. LimitsOf(req) \in [exact : Nat, errors : Nat, drop : Nat, rise : Nat, total : Nat, each : Nat]
  BY RunTyped
<1>3. PICK need \in Int : need = LimitsOf(req).exact * Len(results)
  BY <1>2
<1>4. PICK may \in Int : may = LimitsOf(req).drop * Len(results)
  BY <1>2
<1>5. ~(100 * passed < need)
  <2>1. "exact" \notin Reasons(req, results, cost)
    OBVIOUS
  <2> QED
    BY <1>3, <2>1 DEF Reasons
<1>6. 100 * passed >= need
  BY <1>1, <1>5
<1>7. ASSUME req.baseline # 0 PROVE 100 * (before - passed) <= may
  <2>1. before \in Nat
    <3>1. evalRuns[req.baseline].results \in Seq(ResultRow)
      BY <1>7 DEF AskedFor, EvalInv, StoredHold, StoredAs, EvalRunHolds, ResultsHold
    <3> QED
      BY <3>1, CountedTyped
  <2>2. "quality" \notin Reasons(req, results, cost)
    OBVIOUS
  <2>3. ~(100 * (before - passed) > may)
    BY <1>4, <1>7, <2>2 DEF Reasons
  <2> QED
    BY <1>1, <2>1, <2>3
<1> QED
  BY <1>3, <1>4, <1>6, <1>7

LEMMA RunFinished == ASSUME EvalInv, FinishRun PROVE EvalInv'
<1> PICK e : e = evaluating
  OBVIOUS
<1> PICK made : made = Len(evalRuns) + 1
  OBVIOUS
<1> PICK r : r = [key |-> e.key, request |-> e.request, results |-> e.results, total |-> e.total,
                  gate |-> IF Reasons(e.request, e.results, e.total) = {} THEN "passed" ELSE "failed"]
  OBVIOUS
<1> PICK c : c = [command |-> "run", request |-> e.request, made |-> made]
  OBVIOUS
<1>1. /\ e # NotEvaluating /\ Case > Len(CasesOf(e.request))
      /\ evalRuns' = Append(evalRuns, r) /\ evalKey' = [evalKey EXCEPT ![e.key] = c]
      /\ evaluating' = NotEvaluating /\ UNCHANGED <<registered, gatewayCall, asked>>
  BY DEF FinishRun
<1>2. /\ e.key \in EvalKeys /\ AskedFor(e.request) /\ ResultsHold(e.key, e.request, e.results) /\ EvalRunHolds(e)
      /\ Case = Len(e.results) + 1 /\ Len(CasesOf(e.request)) \in Nat /\ e.total \in Nat
  BY <1>1, RunGoesOn
<1>3. /\ r.key = e.key /\ r.request = e.request /\ r.results = e.results /\ r.total = e.total
      /\ r.gate \in {"passed", "failed"} /\ (r.gate = "passed" => Reasons(e.request, e.results, e.total) = {})
  OBVIOUS
<1>4. /\ EvalRegistered /\ StoredHold /\ evalRuns \in Seq(EvalRow) /\ e.results \in Seq(ResultRow)
      /\ Len(e.results) = Len(CasesOf(e.request)) /\ evalKey[e.key] = NotUsed
  <2>1. e.results \in Seq(ResultRow) /\ Len(e.results) <= Len(CasesOf(e.request)) /\ Len(e.results) \in Nat
    BY <1>2 DEF ResultsHold
  <2> QED
    BY <1>1, <1>2, <2>1 DEF EvalInv, StoredHold, InProgress
<1>5. StoredAs(r)
  <2>1. EvalRunHolds(r)
    BY <1>2, <1>3 DEF EvalRunHolds
  <2>2. r.gate = "passed" => GatePassed(r)
    BY <1>2, <1>3, <1>4, NoReason DEF GatePassed
  <2> QED
    BY <1>3, <1>4, <2>1, <2>2 DEF StoredAs
<1>6. r \in EvalRow
  <2>1. e.request \in EvalAsk
    BY <1>2 DEF AskedFor
  <2> QED
    BY <1>2, <1>3, <1>4, <2>1 DEF EvalRow
<1>7. /\ evalRuns' \in Seq(EvalRow) /\ DOMAIN evalRuns' = 1 .. made /\ DOMAIN evalRuns = 1 .. Len(evalRuns)
      /\ Len(evalRuns) \in Nat /\ evalRuns'[made] = r /\ \A i \in 1 .. Len(evalRuns) : evalRuns'[i] = evalRuns[i]
  BY <1>1, <1>4, <1>6, AppendProperties
<1>8. Grows
  BY <1>1, <1>7 DEF Grows
<1>9. StoredHold'
  <2>1. ASSUME NEW n \in DOMAIN evalRuns' PROVE StoredAs(evalRuns[n])'
    <3> PICK x : x = IF n = made THEN r ELSE evalRuns[n]
      OBVIOUS
    <3>1. evalRuns'[n] = x /\ StoredAs(x)
      <4>1. n = made \/ n \in DOMAIN evalRuns
        BY <1>7
      <4> QED
        BY <1>4, <1>5, <1>7, <4>1 DEF StoredHold
    <3>2. StoredAs(x)'
      BY <1>4, <1>8, <3>1, StoredStays
    <3> QED
      BY <3>1, <3>2 DEF StoredAs, EvalRunHolds, AskedFor, ResultsHold, AnswerTo, GatePassed, CasesOf, LimitsOf
  <2> QED
    BY <1>7, <2>1 DEF StoredHold
<1>10. EvalRegistered' /\ CallsHold' /\ InProgress'
  BY <1>1 DEF EvalInv, EvalRegistered, CallsHold, InProgress
<1>11. c.command = "run" /\ c.request = e.request /\ c.made = made
  OBVIOUS
<1>12. KeyMade(e.key)'
  <2>1. evalKey'[e.key] = c
    BY <1>1, <1>2 DEF EvalInv
  <2> QED
    BY <1>3, <1>7, <1>11, <2>1, EvalBounds DEF KeyMade
<1>13. ASSUME NEW l \in EvalKeys, evalKey[l].command = c.command PROVE evalKey[l].made # c.made
  <2>1. evalKey[l].made \in DOMAIN evalRuns
    BY <1>11, <1>13 DEF EvalInv, KeyMade
  <2> QED
    BY <1>7, <1>11, <2>1
<1>14. DOMAIN evalKey' = EvalKeys /\ (\A l \in EvalKeys : KeyMade(l)') /\ KeysApart'
  BY <1>1, <1>2, <1>4, <1>8, <1>11, <1>12, <1>13, KeyUsed
<1> QED
  BY <1>9, <1>10, <1>14 DEF EvalInv

LEMMA EvalSteps == ASSUME EvalInv, EvalNext PROVE EvalInv'
<1>1. CASE RegisterNext
  <2>1. PICK k \in EvalKeys, kind \in VersionKinds, n \in 0 .. MaxKindVersions, previous \in 0 .. MaxKindVersions :
            \E body \in BodiesOf[kind] : Register(k, kind, n, previous, body)
    BY <1>1 DEF RegisterNext
  <2>2. PICK body \in BodiesOf[kind] : Register(k, kind, n, previous, body)
    BY <2>1
  <2> QED
    BY <2>2, Registers
<1>2. CASE \E k \in EvalKeys, b \in 0 .. Len(evalRuns), cents \in CaseBudgets, p \in DOMAIN registered["prompt"],
              g \in DOMAIN registered["golden_set"], t \in DOMAIN registered["threshold"] :
                  BeginRun(k, EvalRequest(p, g, t, b, cents))
  BY <1>2, RunBegun
<1>3. CASE SkipCase
  BY <1>3, CaseSkipped
<1>4. CASE RepeatCall
  BY <1>4, CallRepeated
<1>5. CASE RunRaises
  BY <1>5, RunEnds
<1>6. CASE FinishRun
  BY <1>6, RunFinished
<1>7. CASE \E answer \in Answers : AskModel(answer)
  BY <1>7, ModelAsked
<1> QED
  BY <1>1, <1>2, <1>3, <1>4, <1>5, <1>6, <1>7 DEF EvalNext, RunNext

LEMMA EvalKeeps == EvalInv /\ UNCHANGED evalVars => EvalInv'
<1> SUFFICES ASSUME EvalInv, UNCHANGED evalVars PROVE EvalInv'
  OBVIOUS
<1>1. UNCHANGED <<registered, evalKey, evalRuns, gatewayCall, asked>> /\ UNCHANGED evaluating
  BY DEF evalVars
<1>2. InProgress
  BY DEF EvalInv
<1>3. InProgress'
  BY <1>1, <1>2 DEF InProgress, EvalRunHolds, AskedFor, ResultsHold, AnswerTo, CasesOf, LimitsOf
<1> QED
  BY <1>1, <1>3, OthersStay

-----------------------------------------------------------------------------
RecordsInv == ErasureInv /\ PlanInv /\ DrillInv /\ PilotInv /\ EvalInv

LEMMA RecordsStart == RecordsInit => RecordsInv
<1> SUFFICES ASSUME RecordsInit PROVE RecordsInv
  OBVIOUS
<1>1. EvalInv
  BY EvalStarts DEF RecordsInit
<1> QED
  BY <1>1, ErasureStarts, PlanStarts, DrillStarts, PilotStarts DEF RecordsInit, RecordsInv

LEMMA RecordsStep == ASSUME RecordsInv, [RecordsNext]_recordVars PROVE RecordsInv'
<1> USE DEF RecordsInv
<1>1. CASE DeletionNext /\ UNCHANGED <<planVars, recoveryVars, pilotVars, evalVars>>
  BY <1>1, ErasureSteps, PlanKeeps, DrillKeeps, PilotKeeps, EvalKeeps
<1>2. CASE PlanNext /\ UNCHANGED <<deletionVars, recoveryVars, pilotVars, evalVars>>
  BY <1>2, ErasureKeeps, PlanSteps, DrillKeeps, PilotKeeps, EvalKeeps
<1>3. CASE RecoveryNext /\ UNCHANGED <<deletionVars, planVars, pilotVars, evalVars>>
  BY <1>3, ErasureKeeps, PlanKeeps, DrillSteps, PilotKeeps, EvalKeeps
<1>4. CASE PilotNext /\ UNCHANGED <<deletionVars, planVars, recoveryVars, evalVars>>
  BY <1>4, ErasureKeeps, PlanKeeps, DrillKeeps, PilotsGo, EvalKeeps
<1>5. CASE EvalNext /\ UNCHANGED <<deletionVars, planVars, recoveryVars, pilotVars>>
  BY <1>5, ErasureKeeps, PlanKeeps, DrillKeeps, PilotKeeps, EvalSteps
<1>6. CASE UNCHANGED recordVars
  BY <1>6, ErasureKeeps, PlanKeeps, DrillKeeps, PilotKeeps, EvalKeeps DEF recordVars
<1> QED
  BY <1>1, <1>2, <1>3, <1>4, <1>5, <1>6 DEF RecordsNext

(* Every record the five services keep has what it rests on behind it, in  *)
(* every state they can reach, whatever commands overlap, fail half-way or *)
(* are cut off by a restart (modules/audit, modules/geo_region/policy.py,  *)
(* modules/operations, packages/prompt_registry).                          *)
THEOREM RecordsSound == RecordsSpec => []RecordsInv
<1>1. RecordsInit => RecordsInv
  BY RecordsStart
<1>2. RecordsInv /\ [RecordsNext]_recordVars => RecordsInv'
  BY RecordsStep
<1> QED
  BY <1>1, <1>2, PTL DEF RecordsSpec

(* What is on record is so: a deletion claims no more than its stages, no  *)
(* plan is queued or propagated under a hold, a restored queue is paused   *)
(* as long as its restore is not released, a pilot run that was answered   *)
(* as ended stays ended, and a gate passed is one its answers pass.        *)
THEOREM RecordsKeptAlways == RecordsSpec => []RecordsKept
<1>1. RecordsInv => RecordsKept
  BY StatusTold, PlansTold, DrillsTold, PilotsTold, GatesTold, SpentWithin DEF RecordsInv, RecordsKept
<1> QED
  BY <1>1, RecordsSound, PTL

(* The behaviours of ServicesMC are among those of RecordsSpec.            *)
LEMMA SessionLeavesRules == SessionNext => UNCHANGED operationVars
<1>1. \A j \in Launches : LetThrough(j) \/ Enqueue(j) => UNCHANGED operationVars
  BY DEF LetThrough, Enqueue
<1>2. \A j \in Launches, found \in BOOLEAN : RecordLaunch(j, found) => UNCHANGED operationVars
  BY DEF RecordLaunch
<1>3. \A j \in Launches, r \in Runners : Spawn(j, r) => UNCHANGED operationVars
  BY DEF Spawn
<1>4. \A r \in Runners : OpenWindow(r) \/ BeginCommand(r) \/ ReportPublish(r) \/ ReportReply(r) => UNCHANGED operationVars
  BY DEF OpenWindow, BeginCommand, ReportPublish, ReportReply, outsideVars
<1>5. \A r \in Runners : ReadQueue(r) \/ EmptyQueue(r) => UNCHANGED operationVars
  BY DEF ReadQueue, EmptyQueue
<1>6. \A r \in Runners, well \in BOOLEAN :
          FillDraft(r, well) \/ ClickPublish(r, well) \/ ScanInbox(r, well) \/ SendReply(r, well) => UNCHANGED operationVars
  BY DEF FillDraft, ClickPublish, ScanInbox, SendReply, outsideVars
<1>7. \A r \in Runners : CloseWindow(r) \/ KillRunner(r) => UNCHANGED operationVars
  BY DEF CloseWindow, KillRunner, outsideVars
<1>8. Operate => UNCHANGED operationVars
  BY DEF Operate
<1> QED
  BY <1>1, <1>2, <1>3, <1>4, <1>5, <1>6, <1>7, <1>8 DEF SessionNext, RunnerStep

LEMMA RecordsServed == ASSUME Next PROVE [RecordsNext]_recordVars
<1>1. CASE ServedNext /\ UNCHANGED recoverVars
  <2>1. UNCHANGED <<planVars, recoveryVars, evalVars>>
    BY <1>1 DEF ServedNext, recoverVars, decideVars
  <2>2. CASE /\ chosen = "deletion" /\ ErasureNext
             /\ UNCHANGED <<schedVars, budgetVars, fakeVars, authVars, distributionVars, flowVars, accessVars, governVars>>
    <3>1. UNCHANGED pilotVars
      BY <2>2 DEF governVars, consoleVars, operationVars
    <3> QED
      BY <2>1, <2>2, <3>1 DEF ErasureNext, RecordsNext
  <2>3. CASE UNCHANGED <<deletionVars, consoleVars>>
    <3>1. UNCHANGED recordVars
      BY <2>1, <2>3 DEF recordVars, consoleVars, operationVars
    <3> QED
      BY <3>1
  <2>4. CASE /\ chosen \in {"session", "rules", "pilots"} /\ (BrowserNext \/ RulesNext \/ PlansNext)
             /\ UNCHANGED <<memoryVars, distributionVars, flowVars, accessVars, metricVars, feedbackVars>>
    <3>1. UNCHANGED deletionVars
      BY <2>4 DEF memoryVars
    <3>2. UNCHANGED pilotVars \/ PilotNext
      <4>1. CASE BrowserNext
        <5>1. SessionNext => UNCHANGED operationVars
          BY SessionLeavesRules
        <5> QED
          BY <4>1, <5>1 DEF BrowserNext, ReplacePolicy, operationVars
      <4>2. CASE RulesNext
        BY <4>2 DEF RulesNext, ReadPolicy, NextRuleDay, UpdateStop, ReplacePolicy, PutConsole, LetThrough, operationVars, PilotNext
      <4>3. CASE PlansNext
        BY <4>3 DEF PlansNext
      <4> QED
        BY <2>4, <4>1, <4>2, <4>3
    <3> QED
      BY <2>1, <3>1, <3>2 DEF RecordsNext, recordVars
  <2> QED
    BY <1>1, <2>2, <2>3, <2>4 DEF ServedNext, memoryVars, governVars
<1>2. CASE DecideNext /\ UNCHANGED recoverVars
  <2>1. UNCHANGED <<deletionVars, planVars, recoveryVars, pilotVars>>
    BY <1>2 DEF DecideNext, servedVars, memoryVars, governVars, consoleVars, operationVars, recoverVars
  <2>2. EvalNext \/ UNCHANGED evalVars
    BY <1>2 DEF DecideNext, TestsNext, EvalNext
  <2> QED
    BY <2>1, <2>2 DEF RecordsNext, recordVars
<1>3. CASE RecoverNext
  <2>1. UNCHANGED <<deletionVars, pilotVars, evalVars>>
    BY <1>3 DEF RecoverNext, servedVars, memoryVars, governVars, consoleVars, operationVars, decideVars
  <2>2. (PlanNext /\ UNCHANGED recoveryVars) \/ (RecoveryNext /\ UNCHANGED planVars)
    BY <1>3 DEF RecoverNext, RegionPlansNext, DrillsNext
  <2> QED
    BY <2>1, <2>2 DEF RecordsNext
<1> QED
  BY <1>1, <1>2, <1>3 DEF Next

(* What the runs of ServicesMC check as RecordsKept on one instance holds  *)
(* in every behaviour of that module, for every value of its constants.    *)
THEOREM RecordsKeptInServices == Spec => []RecordsKept
<1>1. Init => RecordsInit
  <2> SUFFICES ASSUME Init PROVE RecordsInit
    OBVIOUS
  <2>1. EvalInit(MCRegistered) \/ EvalInit([k \in VersionKinds |-> <<>>])
    BY DEF Init
  <2>2. registered = MCRegistered \/ registered = [k \in VersionKinds |-> <<>>]
    BY <2>1 DEF EvalInit
  <2>3. EvalRegistered
    <3>1. CASE registered = MCRegistered
      BY <3>1, MCVersions DEF EvalRegistered
    <3>2. CASE registered = [k \in VersionKinds |-> <<>>]
      BY <3>2 DEF EvalRegistered
    <3> QED
      BY <2>2, <3>1, <3>2
  <2>4. EvalInit(registered)
    BY <2>1 DEF EvalInit
  <2> QED
    BY <2>3, <2>4 DEF Init, RecordsInit
<1>2. [Next]_allVars => [RecordsNext]_recordVars
  <2>1. UNCHANGED allVars => UNCHANGED recordVars
    BY DEF allVars, servedVars, memoryVars, governVars, consoleVars, operationVars, decideVars, recoverVars, recordVars
  <2> QED
    BY <2>1, RecordsServed
<1>3. RecordsSpec => []RecordsKept
  BY RecordsKeptAlways
<1> QED
  BY <1>1, <1>2, <1>3, PTL DEF Spec, RecordsSpec
=============================================================================

----------------------------- MODULE WorkflowRuns -----------------------------
(***************************************************************************)
(* Workflow runs and their human tasks (modules/workflow/service.py), with *)
(* the events each command appends to the outbox. The service holds no     *)
(* lock and nothing in the repository calls it from two threads: a command *)
(* is one step. One that expects another version is refused and left out.  *)
(*                                                                         *)
(* Left out: steps, which are appended and read by nothing, and tenants    *)
(* other than one.                                                         *)
(***************************************************************************)
EXTENDS Integers, Sequences, FiniteSets

CONSTANTS
    Runs,          \* runs that may be started or replayed
    HumanTasks,    \* human tasks that may be created
    Assignees,     \* actors that claim and work on tasks
    DueDays,       \* when a task may be due
    MaxRunVersion  \* bound on the version of a run

VARIABLES
    run,      \* status and version of each run
    humanTask,     \* each human task: status, its run, its assignee and when it is due
    runTold,  \* events of the outbox about each run: its new status and version
    taskTold  \* events of the outbox about each task: its new status

workflowVars == <<run, humanTask, runTold, taskTold>>

ASSUME WorkflowBounds == MaxRunVersion \in Nat /\ DueDays \subseteq Nat

NoOne == "no one"
NoTask == [status |-> "none"]
Over == {"completed", "cancelled", "expired", "rejected"}

WorkflowTypeOK ==
    /\ run \in [Runs -> [version : 0 .. MaxRunVersion + 1,
            status : {"none", "running", "paused", "waiting_human", "succeeded", "failed", "cancelled"}]]
    /\ \A t \in HumanTasks : humanTask[t] # NoTask =>
          /\ humanTask[t].status \in {"queued", "claimed", "in_progress", "submitted"} \cup Over
          /\ humanTask[t].run \in Runs /\ humanTask[t].who \in Assignees \cup {NoOne}

WorkflowInit ==
    /\ run = [r \in Runs |-> [status |-> "none", version |-> 0]]
    /\ humanTask = [t \in HumanTasks |-> NoTask]
    /\ runTold = [r \in Runs |-> <<>>]
    /\ taskTold = [t \in HumanTasks |-> <<>>]

\* the runs of rs come to a status under their next version, and the outbox is told
Becomes(rs, status) ==
    /\ \A r \in rs : run[r].version < MaxRunVersion
    /\ run' = [r \in Runs |-> IF r \in rs THEN [status |-> status, version |-> run[r].version + 1] ELSE run[r]]
    /\ runTold' = [r \in Runs |-> IF r \in rs
                                  THEN Append(runTold[r], [status |-> status, version |-> run[r].version + 1])
                                  ELSE runTold[r]]

\* planned at version 0 and started in the same call
StartRun(r) ==
    /\ run[r].status = "none"
    /\ Becomes({r}, "running")
    /\ UNCHANGED <<humanTask, taskTold>>

Transitions ==
    {<<"running", "paused">>, <<"running", "waiting_human">>, <<"running", "succeeded">>,
     <<"running", "failed">>, <<"running", "cancelled">>, <<"paused", "running">>, <<"paused", "cancelled">>,
     <<"waiting_human", "running">>, <<"waiting_human", "cancelled">>, <<"failed", "running">>}

\* pause, resume, retry, and the moves of an engine that has no method of its own
MoveRun(r, to) ==
    /\ <<run[r].status, to>> \in Transitions
    /\ Becomes({r}, to)
    /\ UNCHANGED <<humanTask, taskTold>>

\* the source stays as it is
ReplayRun(source, r) ==
    /\ run[source].status \in {"failed", "succeeded", "cancelled"}
    /\ run[r].status = "none"
    /\ Becomes({r}, "running")
    /\ UNCHANGED <<humanTask, taskTold>>

TaskBecomes(t, new) ==
    /\ humanTask' = [humanTask EXCEPT ![t] = new]
    /\ taskTold' = [taskTold EXCEPT ![t] = Append(@, new.status)]

\* whatever the status of the run
CreateTask(t, r, due) ==
    /\ humanTask[t] = NoTask /\ run[r].status # "none"
    /\ TaskBecomes(t, [status |-> "queued", run |-> r, who |-> NoOne, due |-> due])
    /\ UNCHANGED <<run, runTold>>

ClaimTask(t, a) ==
    /\ humanTask[t].status = "queued"
    /\ TaskBecomes(t, [humanTask[t] EXCEPT !.status = "claimed", !.who = a])
    /\ UNCHANGED <<run, runTold>>

TaskSteps ==
    {<<"claimed", "in_progress">>, <<"in_progress", "submitted">>, <<"submitted", "completed">>,
     <<"submitted", "rejected">>, <<"queued", "cancelled">>}

\* by the assignee, or by a reviewer
UpdateTask(t, a, reviewer, to) ==
    /\ humanTask[t] # NoTask /\ (reviewer \/ humanTask[t].who = a)
    /\ <<humanTask[t].status, to>> \in TaskSteps
    /\ TaskBecomes(t, [humanTask[t] EXCEPT !.status = to])
    /\ UNCHANGED <<run, runTold>>

DueTasks(now) == {t \in HumanTasks : humanTask[t] # NoTask /\ humanTask[t].due <= now /\ humanTask[t].status \notin Over}

\* a run that is not paused is, whether it was running, waiting or over
PauseRuns(rs) == Becomes({r \in rs : run[r].status # "paused"}, "paused")

ExpireDue(now) ==
    /\ DueTasks(now) # {}
    /\ humanTask' = [t \in HumanTasks |-> IF t \in DueTasks(now) THEN [humanTask[t] EXCEPT !.status = "expired"] ELSE humanTask[t]]
    /\ taskTold' = [t \in HumanTasks |-> IF t \in DueTasks(now) THEN Append(taskTold[t], "expired") ELSE taskTold[t]]
    /\ PauseRuns({humanTask[t].run : t \in DueTasks(now)})

WorkflowNext ==
    \/ \E r \in Runs :
          \/ StartRun(r)
          \/ \E to \in {pair[2] : pair \in Transitions} : MoveRun(r, to)
          \/ \E source \in Runs : ReplayRun(source, r)
    \/ \E t \in HumanTasks :
          \/ \E r \in Runs, due \in DueDays : CreateTask(t, r, due)
          \/ \E a \in Assignees : \/ ClaimTask(t, a)
                                  \/ \E reviewer \in BOOLEAN, to \in {step[2] : step \in TaskSteps} :
                                        UpdateTask(t, a, reviewer, to)
    \/ \E now \in DueDays : ExpireDue(now)

(***************************************************************************)
(* The outbox alone tells where every run and task is: the events of a run *)
(* carry the versions 1, 2, ... without a gap or a repetition and end with *)
(* its status, although runs are moved both by their own commands and by   *)
(* the expiry of tasks; and a task that expired left its run paused, told  *)
(* after whatever the run had been told to be before.                      *)
(***************************************************************************)
RunsTold ==
    /\ \A r \in Runs :
          /\ Len(runTold[r]) = run[r].version
          /\ \A n \in DOMAIN runTold[r] : runTold[r][n].version = n
          /\ runTold[r] # <<>> => runTold[r][Len(runTold[r])] = run[r]
    /\ \A t \in HumanTasks : humanTask[t] # NoTask =>
          /\ taskTold[t][Len(taskTold[t])] = humanTask[t].status
          /\ humanTask[t].status = "expired" => \E n \in DOMAIN runTold[humanTask[t].run] : runTold[humanTask[t].run][n].status = "paused"

-----------------------------------------------------------------------------
(***************************************************************************)
(* The in-memory outbox dispatcher and its jobs                            *)
(* (modules/workflow/dispatcher.py). It holds no lock and nothing in the   *)
(* repository calls it from two threads: a command is one step, except     *)
(* that an exception of the publisher leaves a dispatch half done.         *)
(*                                                                         *)
(* Left out: the replay of a command under its key, which changes nothing, *)
(* and a key that is refused; workers' names, which nothing compares;      *)
(* events appended for later; tenants other than one.                      *)
(***************************************************************************)

CONSTANTS
    OutEvents,      \* numbers of the events, in the order they are dispatched
    JobOf,          \* key and payload of the job an event asks for, or NoSpec or BadSpec
    NoSpec, BadSpec,
    Posts,          \* positions for jobs
    DispatchLease,  \* lease_seconds
    MaxTries,       \* max_attempts
    LastSecond,     \* bound of the clock
    MaxClaims       \* bound on the claims of one job or event

ASSUME DispatchBounds ==
    /\ OutEvents \subseteq Nat /\ IsFiniteSet(OutEvents) /\ Posts \subseteq Nat \ {0}
    /\ DispatchLease \in Nat \ {0} /\ MaxTries \in Nat \ {0} /\ LastSecond \in Nat

VARIABLES
    second,   \* the clock
    out,      \* events: status, attempts and end of the lease (0: none)
    post,     \* jobs: status, attempts, end of the lease, key, payload, source (0: an event)
    received  \* history: how often the publisher answered that it took the event

dispatchVars == <<second, out, post, received>>

NoPost == [status |-> "none"]
Filled == {j \in Posts : post[j] # NoPost}

DispatchTypeOK ==
    /\ second \in 0 .. LastSecond
    /\ out \in [OutEvents -> [status : {"none", "pending", "publishing", "published", "failed", "dead_letter"},
                              tries : 0 .. MaxClaims, until : 0 .. LastSecond + DispatchLease]]
    /\ \A j \in Filled : /\ post[j].status \in {"queued", "leased", "retry_scheduled", "failed", "dead_letter"}
                         /\ post[j].source \in Posts \cup {0}

DispatchInit ==
    /\ second = 0
    /\ out = [e \in OutEvents |-> [status |-> "none", tries |-> 0, until |-> 0]]
    /\ post = [j \in Posts |-> NoPost]
    /\ received = [e \in OutEvents |-> 0]

NextSecond == second < LastSecond /\ second' = second + 1 /\ UNCHANGED <<out, post, received>>

AppendEvent(e) ==
    /\ out[e].status = "none"
    /\ out' = [out EXCEPT ![e].status = "pending"]
    /\ UNCHANGED <<second, post, received>>

ClaimableEvent(e) ==
    \/ out[e].status = "pending"
    \/ out[e].status = "publishing" /\ out[e].until <= second

\* the events a dispatch claims: the first ones, up to the limit
Batch(limit) ==
    {e \in OutEvents : ClaimableEvent(e) /\ Cardinality({f \in OutEvents : ClaimableEvent(f) /\ f < e}) < limit}

\* a published event asks for a job whose key has another payload, or for none that can be made
Refused(e) ==
    \/ JobOf[e] = BadSpec
    \/ JobOf[e] # NoSpec /\ JobOf[e] # BadSpec
       /\ \E j \in Filled : post[j].key = JobOf[e].key /\ post[j].payload # JobOf[e].payload

\* the publisher's answers to the batch in order; it raises at one event and
\* the rest stay claimed; a job that cannot be made undoes the publication
Dispatched(e, answer) ==
    LET tries == out[e].tries + 1
    IN CASE answer = "raises" -> [status |-> "publishing", tries |-> tries, until |-> second + DispatchLease]
         [] answer = "published" /\ ~Refused(e) -> [status |-> "published", tries |-> tries, until |-> 0]
         [] answer = "unknown" \/ (tries >= MaxTries /\ (answer = "retryable" \/ Refused(e))) ->
                [status |-> "dead_letter", tries |-> tries, until |-> 0]
         [] OTHER -> [status |-> "failed", tries |-> tries, until |-> second + DispatchLease]

NewJob(e) == [status |-> "queued", tries |-> 0, until |-> 0, key |-> JobOf[e].key, payload |-> JobOf[e].payload, source |-> 0]

DispatchOnce(limit, answer) ==
    LET batch == Batch(limit)
        raised == {e \in batch : answer[e] = "raises"}
        reached == {e \in batch : \A f \in raised : e < f}
        result(e) == Dispatched(e, IF e \in reached THEN answer[e] ELSE "raises")
        made == {e \in reached : /\ answer[e] = "published" /\ ~Refused(e) /\ JobOf[e] # NoSpec
                                 /\ \A j \in Filled : post[j].key # JobOf[e].key}
    IN /\ batch # {} /\ \A e \in batch : out[e].tries < MaxClaims
       /\ Cardinality(made) <= 1 \* bound: one job a dispatch
       /\ Cardinality(made) <= Cardinality(Posts \ Filled)
       /\ out' = [e \in OutEvents |-> IF e \in batch THEN result(e) ELSE out[e]]
       /\ received' = [e \in OutEvents |->
             IF e \in reached /\ answer[e] = "published" THEN received[e] + 1 ELSE received[e]]
       /\ post' = [j \in Posts |->
             IF made # {} /\ j \in Posts \ Filled /\ \A i \in Posts \ Filled : j <= i
             THEN NewJob(CHOOSE e \in made : TRUE) ELSE post[j]]
       /\ UNCHANGED second

\* nothing compares the attempts with their limit
ClaimJob(j) ==
    /\ post[j].status \in {"queued", "retry_scheduled"} \/ (post[j].status = "leased" /\ post[j].until <= second)
    /\ post[j].tries < MaxClaims
    /\ post' = [post EXCEPT ![j] = [@ EXCEPT !.status = "leased", !.tries = @ + 1, !.until = second + DispatchLease]]
    /\ UNCHANGED <<second, out, received>>

\* whatever the status of the job and whoever reports
RetryJob(j, class) ==
    /\ post' = [post EXCEPT ![j] = [@ EXCEPT !.until = 0, !.status =
          CASE class = "transient" /\ post[j].tries < MaxTries -> "retry_scheduled"
            [] class = "unknown" -> "failed"
            [] OTHER -> "dead_letter"]]
    /\ UNCHANGED <<second, out, received>>

\* under a key of its own
ReplayJob(j) ==
    /\ post[j].status \in {"failed", "dead_letter"}
    /\ \E new \in Posts \ Filled :
          /\ \A i \in Posts \ Filled : new <= i
          /\ post' = [post EXCEPT ![new] = [post[j] EXCEPT !.status = "queued", !.tries = 0, !.until = 0,
                                                           !.key = <<"replay", new>>, !.source = j]]
    /\ UNCHANGED <<second, out, received>>

DispatchNext ==
    \/ NextSecond
    \/ \E e \in OutEvents : AppendEvent(e)
    \/ \E limit \in 1 .. 2 : \E answer \in [Batch(limit) -> {"published", "unknown", "retryable", "raises"}] :
          DispatchOnce(limit, answer)
    \/ \E j \in Filled : \/ ClaimJob(j) \/ ReplayJob(j)
                         \/ \E class \in {"transient", "unknown", "deterministic"} : RetryJob(j, class)

(***************************************************************************)
(* The publisher takes an event at most once, however dispatches break off *)
(* and leases run out, a job stands for an event that was taken, and an    *)
(* event that is published has the job it asked for. An event that was     *)
(* taken and is not published asked for a job that could not be made.      *)
(***************************************************************************)
TakenOnce ==
    /\ \A e \in OutEvents :
          /\ received[e] <= 1
          /\ out[e].status = "published" =>
                /\ received[e] = 1
                /\ JobOf[e] # NoSpec => \E j \in Filled : post[j].key = JobOf[e].key /\ post[j].payload = JobOf[e].payload
          /\ received[e] = 1 /\ out[e].status # "published" => out[e].status \in {"failed", "dead_letter"} /\ Refused(e)
    /\ \A j \in Filled : \E e \in OutEvents :
          received[e] = 1 /\ JobOf[e] \notin {NoSpec, BadSpec} /\ JobOf[e].payload = post[j].payload
=============================================================================

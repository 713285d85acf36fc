------------------------------ MODULE GraphRun ------------------------------
(***************************************************************************)
(* orchestration/runtime.py: GraphRunner drives one graph run through its  *)
(* nodes and checkpoints it after each, while other threads resume, pause  *)
(* or cancel the run.  Only the creation of the run is under the runner's  *)
(* lock, so every call is split where another thread may come between:     *)
(* reading the status and writing it, listing the checkpoints and saving   *)
(* the next, checking the kill switch and calling the node.                *)
(*                                                                         *)
(* A graph with an entrypoint instead of nodes is one of a single node; no *)
(* graph is longer than max_steps.                                         *)
(* Leases (claim, renew, release) are left out: no execution consults them.*)
(***************************************************************************)
EXTENDS Naturals, Sequences

CONSTANTS
    Threads,        \* callers of the runner
    Length,         \* number of nodes of the graph
    Keys,           \* idempotency keys of resume
    NoKey,          \* the call in hand is not a resume
    AttemptBound,   \* bound on attempts, which the code leaves open
    SwitchBound     \* bound on how often the kill switch is set

ASSUME LengthAssumption == Length \in Nat
ASSUME KeyAssumption == NoKey \notin Keys
ASSUME BoundAssumption == AttemptBound \in Nat \ {0} /\ SwitchBound \in Nat

VARIABLES
    status,     \* status of the stored GraphRun, or "none"
    saved,      \* does the run have a checkpoint?
    attempts,   \* statuses of its GraphAttempts, by attempt number
    ran,        \* [attempt numbers -> nodes that returned in the attempt]
    call,       \* [Threads -> the call in progress]
    answers,    \* resume_commands: keys with a stored result
    kill,       \* is the kill switch active?
    switched,   \* how often it was set
    clashed,    \* has a save ever been rejected for its number?
    early       \* calls that had begun when the run ended and may still write it

vars == <<status, saved, attempts, ran, call, answers, kill, switched, clashed, early>>

Nodes == 1..Length
RunStatuses == {"running", "paused", "waiting", "failed", "succeeded", "cancelled"}
Resumable == {"paused", "waiting", "failed"}
Ended == {"succeeded", "cancelled"}

\* state is the status the call is about to store, and stale says that another
\* call has saved a checkpoint since this one listed them to number its own; late
\* counts the nodes it called since the kill switch was last set.
Calls == [pc : {"idle", "check", "node", "list", "save", "close", "answer", "write"},
          state : RunStatuses, attempt : 0..AttemptBound, node : 0..Length,
          stale : BOOLEAN, key : Keys \cup {NoKey}, late : Nat]

Idle == [pc |-> "idle", state |-> "running", attempt |-> 0, node |-> 0,
         stale |-> FALSE, key |-> NoKey, late |-> 0]

Init ==
    /\ status = "none"
    /\ saved = FALSE
    /\ attempts = <<>>
    /\ ran = [a \in 1..AttemptBound |-> {}]
    /\ call = [t \in Threads |-> Idle]
    /\ answers = {}
    /\ kill = FALSE
    /\ switched = 0
    /\ clashed = FALSE
    /\ early = {}

At(t, pc) == call[t].pc = pc

\* The call goes on as c.
Goes(t, c) == call' = [call EXCEPT ![t] = c]

\* The call has still to write the status of the run.
Writing(c) == c.pc = "write" \/ (c.attempt > 0 /\ c.pc \notin {"idle", "answer"})

\* The history of the end of the run: a call that begins is none of the early
\* ones, and when the run ends those are the others that have still to write.
Begins(t) == early' = early \ {t}

Writes(t) ==
    early' = IF status' \notin Ended THEN {}
             ELSE (IF status \in Ended THEN early
                   ELSE {u \in Threads : Writing(call[u])}) \ {t}

-----------------------------------------------------------------------------
(* Calls of the runner *)

Execution(key) ==
    [Idle EXCEPT !.pc = "check", !.attempt = Len(attempts) + 1, !.key = key]

\* run: a repeated command returns the stored run and starts nothing.
Run(t) ==
    /\ At(t, "idle")
    /\ status = "none"
    /\ status' = "running"
    /\ attempts' = <<"running">>
    /\ Goes(t, Execution(NoKey))
    /\ Begins(t)
    /\ UNCHANGED <<saved, ran, answers, kill, switched, clashed>>

\* Seeded fault: a resume goes on at the last node.
ResumeAtLast(t, key) ==
    /\ At(t, "idle")
    /\ key \notin answers
    /\ status \in Resumable
    /\ ~kill
    /\ saved
    /\ Len(attempts) < AttemptBound
    /\ attempts' = Append(attempts, "running")
    /\ Goes(t, [Execution(key) EXCEPT !.node = Length])
    /\ Begins(t)
    /\ UNCHANGED <<status, saved, ran, answers, kill, switched, clashed>>

\* resume: a new attempt executes the whole graph on the latest checkpoint's
\* state.  The run's status stays what it was until the attempt ends.
Resume(t, key) ==
    /\ At(t, "idle")
    /\ key \notin answers
    /\ status \in Resumable
    /\ ~kill
    /\ saved
    /\ Len(attempts) < AttemptBound
    /\ attempts' = Append(attempts, "running")
    /\ Goes(t, Execution(key))
    /\ Begins(t)
    /\ UNCHANGED <<status, saved, ran, answers, kill, switched, clashed>>

\* Seeded fault: a run that has ended may be paused or cancelled.
AskAny(t, wanted) ==
    /\ At(t, "idle")
    /\ status # "none"
    /\ Goes(t, [Idle EXCEPT !.pc = "write", !.state = wanted])
    /\ Begins(t)
    /\ UNCHANGED <<status, saved, attempts, ran, answers, kill, switched, clashed>>

\* pause and cancel look at the status ...
Ask(t, wanted) ==
    /\ At(t, "idle")
    /\ \/ wanted = "paused" /\ status \in {"running", "waiting"}
       \/ wanted = "cancelled" /\ status \notin Ended \cup {"none"}
    /\ Goes(t, [Idle EXCEPT !.pc = "write", !.state = wanted])
    /\ Begins(t)
    /\ UNCHANGED <<status, saved, attempts, ran, answers, kill, switched, clashed>>

\* ... then write it, and go on to a checkpoint when there is one.
Write(t) ==
    /\ At(t, "write")
    /\ status' = call[t].state
    /\ Goes(t, IF saved THEN [call[t] EXCEPT !.pc = "list"] ELSE Idle)
    /\ Writes(t)
    /\ UNCHANGED <<saved, attempts, ran, answers, kill, switched, clashed>>

-----------------------------------------------------------------------------
(* _execute *)

\* Seeded faults: the kill switch is looked at once per attempt; it raises out
\* of the attempt.
CheckOnce(t) ==
    /\ At(t, "check")
    /\ Goes(t, CASE kill /\ call[t].node = 0 ->
                        [call[t] EXCEPT !.pc = "list", !.state = "failed"]
                 [] ~kill /\ call[t].node = 0 -> [call[t] EXCEPT !.pc = "list"]
                 [] OTHER -> [call[t] EXCEPT !.pc = "node"])
    /\ UNCHANGED <<status, saved, attempts, ran, answers, kill, switched, clashed, early>>

CheckRaises(t) ==
    /\ At(t, "check")
    /\ Goes(t, CASE kill -> Idle
                 [] ~kill /\ call[t].node = 0 -> [call[t] EXCEPT !.pc = "list"]
                 [] OTHER -> [call[t] EXCEPT !.pc = "node"])
    /\ UNCHANGED <<status, saved, attempts, ran, answers, kill, switched, clashed, early>>

\* The kill switch is looked at before the first checkpoint (node 0) and before
\* every node.
Check(t) ==
    /\ At(t, "check")
    /\ Goes(t, CASE kill -> [call[t] EXCEPT !.pc = "list", !.state = "failed"]
                 [] ~kill /\ call[t].node = 0 -> [call[t] EXCEPT !.pc = "list"]
                 [] OTHER -> [call[t] EXCEPT !.pc = "node"])
    /\ UNCHANGED <<status, saved, attempts, ran, answers, kill, switched, clashed, early>>

\* The node returns, interrupts the run for a human, or fails.
Node(t) ==
    /\ At(t, "node")
    /\ \E state \in {"running", "waiting", "failed"} :
        /\ Goes(t, [call[t] EXCEPT !.pc = "list", !.state = state,
                                   !.late = IF kill THEN @ + 1 ELSE @])
        /\ ran' = IF state = "running"
                  THEN [ran EXCEPT ![call[t].attempt] = @ \cup {call[t].node}]
                  ELSE ran
    /\ UNCHANGED <<status, saved, attempts, answers, kill, switched, clashed, early>>

\* _save_checkpoint lists the checkpoints to number the next one.
List(t) ==
    /\ At(t, "list")
    /\ Goes(t, [call[t] EXCEPT !.pc = "save", !.stale = FALSE])
    /\ UNCHANGED <<status, saved, attempts, ran, answers, kill, switched, clashed, early>>

\* What follows a checkpoint: the next node, the end of the graph, the end of
\* the attempt, or the end of a pause or cancel.
Saved(c) ==
    CASE c.attempt = 0 -> Idle
      [] c.attempt > 0 /\ c.state # "running" -> [c EXCEPT !.pc = "close"]
      [] OTHER -> IF c.node = Length
                  THEN [c EXCEPT !.pc = "list", !.state = "succeeded"]
                  ELSE [c EXCEPT !.pc = "check", !.node = @ + 1]

\* A clash makes the attempt fail; one that was ending as waiting or failed
\* raises out of the runner instead, as pause and cancel do.
Rejected(c) ==
    IF c.attempt > 0 /\ c.state \in {"running", "succeeded"}
    THEN [c EXCEPT !.pc = "list", !.state = "failed"]
    ELSE Idle

Save(t) ==
    /\ At(t, "save")
    /\ IF call[t].stale
       THEN /\ Goes(t, Rejected([call[t] EXCEPT !.stale = FALSE]))
            /\ clashed' = TRUE
            /\ UNCHANGED saved
       ELSE /\ saved' = TRUE
            /\ call' = [u \in Threads |->
                    IF u = t THEN Saved(call[t])
                    ELSE [call[u] EXCEPT !.stale = At(u, "save")]]
            /\ UNCHANGED clashed
    /\ UNCHANGED <<status, attempts, ran, answers, kill, switched, early>>

\* The attempt's outcome is written over whatever the status is by now, and
\* the attempt is finished if none has begun since.
Close(t) ==
    /\ At(t, "close")
    /\ status' = call[t].state
    /\ attempts' = IF Len(attempts) = call[t].attempt
                   THEN [attempts EXCEPT ![call[t].attempt] = call[t].state]
                   ELSE attempts
    /\ Goes(t, IF call[t].key = NoKey THEN Idle ELSE [call[t] EXCEPT !.pc = "answer"])
    /\ Writes(t)
    /\ UNCHANGED <<saved, ran, answers, kill, switched, clashed>>

\* resume stores its answer.
Answer(t) ==
    /\ At(t, "answer")
    /\ answers' = answers \cup {call[t].key}
    /\ Goes(t, Idle)
    /\ UNCHANGED <<status, saved, attempts, ran, kill, switched, clashed, early>>

-----------------------------------------------------------------------------
(* The control plane *)

SetKill ==
    /\ ~kill
    /\ switched < SwitchBound
    /\ kill' = TRUE
    /\ switched' = switched + 1
    /\ UNCHANGED <<status, saved, attempts, ran, call, answers, clashed, early>>

ClearKill ==
    /\ kill
    /\ kill' = FALSE
    /\ call' = [t \in Threads |-> [call[t] EXCEPT !.late = 0]]
    /\ UNCHANGED <<status, saved, attempts, ran, answers, switched, clashed, early>>

\* A call in progress takes its next step.
Step(t) ==
    Write(t) \/ Check(t) \/ Node(t) \/ List(t) \/ Save(t) \/ Close(t) \/ Answer(t)

Next ==
    \/ \E t \in Threads :
        \/ Run(t)
        \/ \E key \in Keys : Resume(t, key)
        \/ \E wanted \in {"paused", "cancelled"} : Ask(t, wanted)
        \/ Step(t)
    \/ SetKill \/ ClearKill

Spec == Init /\ [][Next]_vars

\* A call that has begun goes on; nodes return, raise or interrupt.
LiveSpec == Spec /\ \A t \in Threads : WF_vars(Step(t))

-----------------------------------------------------------------------------
(* Properties *)

\* Type invariant of the run, its checkpoints and the calls in progress.
TypeOK ==
    /\ status \in RunStatuses \cup {"none"}
    /\ saved \in BOOLEAN
    /\ attempts \in Seq(RunStatuses)
    /\ ran \in [1..AttemptBound -> SUBSET Nodes]
    /\ call \in [Threads -> Calls]
    /\ answers \subseteq Keys
    /\ kill \in BOOLEAN
    /\ switched \in 0..SwitchBound
    /\ clashed \in BOOLEAN
    /\ early \subseteq Threads

\* A run that is succeeded went through every node of its graph in one attempt,
\* however many attempts, pauses and cancels overlapped.
SuccessComplete ==
    status = "succeeded" => \E a \in 1..Len(attempts) : ran[a] = Nodes

\* A step that changes a run that has ended.
Overwrites == status \in Ended /\ <<status, attempts, ran>>' # <<status, attempts, ran>>

\* A run that has ended is written over only by a call that had begun when it
\* ended, and by each of those once: no resume, pause or cancel that comes later
\* touches its status, its attempts or what they ran.
OnlyEarlyOverwrites ==
    [][Overwrites => \E t \in early : call'[t] # call[t]]_vars

\* Once the kill switch is set, a call in progress runs one more node at most,
\* the one whose check it had passed.
KillStops == \A t \in Threads : call[t].late <= 1

\* A run does not stay running when the calls that worked on it are gone, but
\* for a checkpoint clash that was raised while an outcome was being saved.
RunningEnds == (status = "running") ~> (status # "running" \/ clashed)

\* A node that returned is not executed again: its side effects are not
\* repeated when the run is resumed.
NoRepeatedNode ==
    [][\A a \in 1..AttemptBound : \A n \in ran'[a] \ ran[a] :
        \A b \in 1..AttemptBound : n \notin ran[b]]_vars

=============================================================================

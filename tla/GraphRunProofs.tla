-------------------------- MODULE GraphRunProofs --------------------------
(***************************************************************************)
(* Proofs about GraphRun, for any number of threads, nodes, keys and       *)
(* attempts.                                                               *)
(***************************************************************************)
EXTENDS GraphRun, TLAPS

\* The nodes up to n.
UpTo(n) == {m \in Nodes : m <= n}

\* What a call in progress knows of its attempt: the nodes before the one in
\* hand have returned in it, and an outcome of success speaks for all of them.
Progress(c) ==
    /\ c.pc \in {"check", "node", "close", "answer"} => c.attempt > 0
    /\ c.pc = "write" => c.attempt = 0
    /\ c.pc \in {"check", "node"} => c.state = "running"
    /\ c.pc = "close" => c.state # "running"
    /\ c.attempt = 0 /\ c.pc \in {"write", "list", "save"} => c.state \in {"paused", "cancelled"}
    /\ c.attempt > 0 => c.state \in {"running", "waiting", "failed", "succeeded"}
    /\ c.pc = "node" => c.node > 0
    /\ c.pc = "answer" => c.key # NoKey
    /\ c.attempt > 0 => c.attempt <= Len(attempts)
    /\ c.attempt > 0 /\ c.pc \in {"check", "node"} => UpTo(c.node - 1) \subseteq ran[c.attempt]
    /\ c.attempt > 0 /\ c.pc \in {"list", "save"} /\ c.state = "running" => UpTo(c.node) \subseteq ran[c.attempt]
    /\ c.attempt > 0 /\ c.state = "succeeded" => ran[c.attempt] = Nodes

\* Nothing has begun before the run is stored.
Unstarted == status = "none" => attempts = <<>> /\ \A t \in Threads : call[t].pc = "idle"

\* The nodes called since the switch was set: the one whose check came before
\* it, and a call that has counted it is past that node.
Late(c) ==
    /\ c.late \in 0..1
    /\ c.late = 1 => kill /\ c.pc # "node"

GraphInv ==
    /\ TypeOK
    /\ Len(attempts) <= AttemptBound
    /\ Unstarted
    /\ \A t \in Threads : Progress(call[t]) /\ Late(call[t])
    /\ SuccessComplete

-----------------------------------------------------------------------------
\* Attempts are only added and nodes only return: nothing a call relies on is
\* taken back by another one.
Grows ==
    /\ Len(attempts) <= Len(attempts')
    /\ \A a \in 1..AttemptBound : ran[a] \subseteq ran'[a] /\ ran'[a] \subseteq Nodes

\* A step of another thread leaves a call with what it knows.
LEMMA OthersKeep ==
    ASSUME GraphInv, Grows, kill' = kill, NEW u \in Threads,
           call'[u] = call[u] \/ call'[u] = [call[u] EXCEPT !.stale = At(u, "save")]
    PROVE  /\ call'[u] \in Calls
           /\ Progress(call[u])' /\ Late(call[u])'
           /\ (call'[u].pc = "idle") = (call[u].pc = "idle")
<1>1. call[u] \in Calls /\ Progress(call[u]) /\ Late(call[u])
  BY DEF GraphInv, TypeOK
<1>2. PICK d : d = call'[u]
  OBVIOUS
<1>3. /\ d \in Calls
      /\ d.pc = call[u].pc /\ d.state = call[u].state /\ d.attempt = call[u].attempt
      /\ d.node = call[u].node /\ d.late = call[u].late /\ d.key = call[u].key
  BY <1>1, <1>2 DEF Calls, At
<1>4. Late(call[u])'
  BY <1>1, <1>2, <1>3 DEF Late
<1>5. Progress(call[u])'
  <2>1. d.attempt > 0 => d.attempt <= Len(attempts') /\ ran[d.attempt] \subseteq ran'[d.attempt]
                         /\ ran'[d.attempt] \subseteq Nodes
    <3>1. d.attempt \in 0..AttemptBound
      BY <1>3 DEF Calls
    <3>2. d.attempt > 0 => d.attempt <= Len(attempts)
      BY <1>1, <1>3 DEF Progress
    <3>3. Len(attempts) \in Nat /\ Len(attempts') >= Len(attempts)
      BY DEF GraphInv, TypeOK, Grows
    <3> QED BY <3>1, <3>2, <3>3, BoundAssumption DEF Grows
  <2> QED BY <1>1, <1>2, <1>3, <2>1 DEF Progress, UpTo
<1> QED BY <1>2, <1>3, <1>4, <1>5

\* A step of one thread keeps what every call knows if the call it leaves
\* behind knows it.
LEMMA CallsKeep ==
    ASSUME GraphInv, Grows, kill' = kill, NEW t \in Threads, NEW d \in Calls,
           call' = [call EXCEPT ![t] = d],
           Progress(call[t])', Late(call[t])'
    PROVE  /\ call' \in [Threads -> Calls]
           /\ \A u \in Threads : Progress(call[u])' /\ Late(call[u])'
           /\ \A u \in Threads \ {t} : call'[u] = call[u]
<1>1. call \in [Threads -> Calls]
  BY DEF GraphInv, TypeOK
<1>2. call' \in [Threads -> Calls] /\ \A u \in Threads \ {t} : call'[u] = call[u]
  BY <1>1
<1>3. \A u \in Threads \ {t} : Progress(call[u])' /\ Late(call[u])'
  BY <1>2, OthersKeep
<1> QED BY <1>2, <1>3

\* A success that stands still stands when nodes return and attempts begin.
LEMMA SuccessStays ==
    ASSUME GraphInv, Grows, status' = status, attempts' \in Seq(RunStatuses),
           Len(attempts') <= AttemptBound
    PROVE  SuccessComplete'
<1> SUFFICES ASSUME status = "succeeded"
             PROVE  \E a \in 1..Len(attempts') : ran'[a] = Nodes
  BY DEF SuccessComplete
<1>1. PICK a \in 1..Len(attempts) : ran[a] = Nodes
  BY DEF GraphInv, SuccessComplete
<1>2. a \in 1..Len(attempts') /\ a \in 1..AttemptBound
  BY BoundAssumption DEF GraphInv, TypeOK, Grows
<1> QED BY <1>1, <1>2 DEF Grows

LEMMA InitKnows == Init => GraphInv
<1> SUFFICES ASSUME Init PROVE GraphInv
  OBVIOUS
<1>1. Idle \in Calls
  BY BoundAssumption, LengthAssumption DEF Idle, Calls, RunStatuses
<1>2. TypeOK
  <2>1. call \in [Threads -> Calls] /\ ran \in [1..AttemptBound -> SUBSET Nodes]
    BY <1>1 DEF Init
  <2>2. attempts \in Seq(RunStatuses) /\ status \in RunStatuses \cup {"none"}
    BY DEF Init
  <2>3. switched \in 0..SwitchBound
    BY BoundAssumption DEF Init
  <2> QED BY <2>1, <2>2, <2>3 DEF Init, TypeOK
<1>3. Len(attempts) = 0
  BY DEF Init
<1>4. \A t \in Threads : call[t] = Idle
  BY DEF Init
<1>5. \A t \in Threads : Progress(call[t]) /\ Late(call[t])
  <2>1. Idle.pc = "idle" /\ Idle.attempt = 0 /\ Idle.late = 0
    BY DEF Idle
  <2>2. Progress(Idle)
    BY <2>1 DEF Progress
  <2>3. Late(Idle)
    BY <2>1 DEF Late
  <2> QED BY <1>4, <2>2, <2>3
<1>6. Unstarted /\ SuccessComplete
  BY <1>4 DEF Init, Unstarted, SuccessComplete, Idle
<1> QED BY <1>2, <1>3, <1>5, <1>6, BoundAssumption DEF GraphInv

\* The calls that had begun when the run ended are calls.
LEMMA EarlyTyped ==
    ASSUME GraphInv, NEW t \in Threads, Begins(t) \/ Writes(t) \/ early' = early
    PROVE  early' \subseteq Threads
BY DEF GraphInv, TypeOK, Begins, Writes

\* Steps that leave the run, its attempts and the nodes alone: the call goes
\* on as one that knows as much.
LEMMA QuietStep ==
    ASSUME GraphInv, NEW t \in Threads, NEW d \in Calls, call' = [call EXCEPT ![t] = d],
           UNCHANGED <<status, attempts, ran, kill, switched>>,
           saved' \in BOOLEAN, clashed' \in BOOLEAN, answers' \subseteq Keys,
           early' \subseteq Threads,
           Progress(d), Late(d), status = "none" => d.pc = "idle"
    PROVE  GraphInv'
<1>1. Grows
  BY BoundAssumption DEF Grows, GraphInv, TypeOK
<1>2. call'[t] = d
  BY DEF GraphInv, TypeOK
<1>3. Progress(call[t])' /\ Late(call[t])'
  BY <1>2 DEF Progress, Late, UpTo
<1>4. /\ call' \in [Threads -> Calls]
      /\ \A u \in Threads : Progress(call[u])' /\ Late(call[u])'
      /\ \A u \in Threads \ {t} : call'[u] = call[u]
  BY <1>1, <1>3, CallsKeep
<1>5. TypeOK'
  BY <1>4 DEF GraphInv, TypeOK
<1>6. Unstarted'
  BY <1>2, <1>4 DEF GraphInv, Unstarted
<1>7. SuccessComplete'
  BY <1>1, SuccessStays DEF GraphInv, TypeOK
<1> QED BY <1>4, <1>5, <1>6, <1>7 DEF GraphInv

\* The calls that begin and end one execution.
LEMMA IdleKnows ==
    /\ Idle \in Calls /\ Progress(Idle) /\ Late(Idle) /\ Idle.pc = "idle"
<1>1. Idle \in Calls
  BY BoundAssumption, LengthAssumption DEF Idle, Calls, RunStatuses
<1>2. Idle.pc = "idle" /\ Idle.attempt = 0 /\ Idle.late = 0
  BY DEF Idle
<1> QED BY <1>1, <1>2 DEF Progress, Late

LEMMA ExecutionKnows ==
    ASSUME GraphInv, NEW key \in Keys \cup {NoKey}, Len(attempts) < AttemptBound,
           attempts' = Append(attempts, "running"), ran' = ran
    PROVE  /\ Execution(key) \in Calls
           /\ Execution(key).pc = "check"
           /\ Grows /\ attempts' \in Seq(RunStatuses) /\ Len(attempts') <= AttemptBound
           /\ \A d : d = Execution(key) => Progress(d)' /\ Late(d)'
<1>1. attempts \in Seq(RunStatuses) /\ Len(attempts) \in Nat /\ "running" \in RunStatuses
  BY DEF GraphInv, TypeOK, RunStatuses
<1>2. Len(attempts') = Len(attempts) + 1 /\ attempts' \in Seq(RunStatuses)
  BY <1>1
<1>3. /\ Execution(key).pc = "check" /\ Execution(key).state = "running"
      /\ Execution(key).attempt = Len(attempts) + 1
      /\ Execution(key).node = 0 /\ Execution(key).late = 0
  BY DEF Execution, Idle
<1>4. Execution(key) \in Calls
  <2>1. \A c \in Calls, n \in 0..AttemptBound :
          [c EXCEPT !.pc = "check", !.attempt = n, !.key = key] \in Calls
    BY DEF Calls
  <2>2. Len(attempts) + 1 \in 0..AttemptBound
    BY <1>1, BoundAssumption
  <2> QED BY <2>1, <2>2, IdleKnows DEF Execution
<1>5. Grows
  BY <1>1, <1>2 DEF Grows, GraphInv, TypeOK
<1>6. UpTo(0 - 1) = {}
  BY LengthAssumption DEF UpTo, Nodes
<1>7. ASSUME NEW d, d = Execution(key)
      PROVE  Progress(d)' /\ Late(d)'
  <2>1. d.pc = "check" /\ d.state = "running" /\ d.attempt = Len(attempts) + 1 /\ d.node = 0 /\ d.late = 0
    BY <1>3, <1>7
  <2>2. Late(d)'
    BY <2>1 DEF Late
  <2>3. UpTo(d.node - 1) = {}
    BY <2>1, <1>6
  <2> QED BY <1>1, <1>2, <2>1, <2>2, <2>3 DEF Progress, UpTo
<1> QED BY <1>1, <1>2, <1>3, <1>4, <1>5, <1>7, BoundAssumption

\* Steps that write the run, an attempt or the nodes of one.
LEMMA WritingStep ==
    ASSUME GraphInv, NEW t \in Threads, NEW d \in Calls, call' = [call EXCEPT ![t] = d], Grows,
           UNCHANGED <<saved, answers, kill, switched, clashed>>,
           attempts' \in Seq(RunStatuses), Len(attempts') <= AttemptBound,
           status' \in RunStatuses, ran' \in [1..AttemptBound -> SUBSET Nodes],
           early' \subseteq Threads,
           Progress(call[t])', Late(call[t])', SuccessComplete'
    PROVE  GraphInv'
<1>1. /\ call' \in [Threads -> Calls]
      /\ \A u \in Threads : Progress(call[u])' /\ Late(call[u])'
  BY CallsKeep
<1>2. TypeOK'
  BY <1>1 DEF GraphInv, TypeOK
<1>3. Unstarted'
  BY DEF Unstarted, RunStatuses
<1> QED BY <1>1, <1>2, <1>3 DEF GraphInv

LEMMA RunKeeps ==
    ASSUME GraphInv, NEW t \in Threads, Run(t)
    PROVE  GraphInv'
<1>1. attempts = <<>> /\ attempts' = <<"running">>
  BY DEF GraphInv, Unstarted, Run
<1>2. /\ Execution(NoKey) \in Calls
      /\ Grows /\ attempts' \in Seq(RunStatuses) /\ Len(attempts') <= AttemptBound
      /\ \A d : d = Execution(NoKey) => Progress(d)' /\ Late(d)'
  BY <1>1, ExecutionKnows, BoundAssumption DEF Run
<1>3. call' = [call EXCEPT ![t] = Execution(NoKey)] /\ call'[t] = Execution(NoKey)
  BY DEF Run, Goes, GraphInv, TypeOK
<1>4. Progress(call[t])' /\ Late(call[t])'
  <2>1. PICK d : d = call'[t]
    OBVIOUS
  <2> QED BY <2>1, <1>2, <1>3 DEF Progress, Late, UpTo
<1>5. SuccessComplete' /\ status' \in RunStatuses
  BY DEF Run, SuccessComplete, RunStatuses
<1> QED BY <1>2, <1>3, <1>4, <1>5, WritingStep, EarlyTyped DEF Run, GraphInv, TypeOK

LEMMA ResumeKeeps ==
    ASSUME GraphInv, NEW t \in Threads, NEW key \in Keys, Resume(t, key)
    PROVE  GraphInv'
<1>1. /\ Execution(key) \in Calls
      /\ Grows /\ attempts' \in Seq(RunStatuses) /\ Len(attempts') <= AttemptBound
      /\ \A d : d = Execution(key) => Progress(d)' /\ Late(d)'
  BY ExecutionKnows DEF Resume
<1>2. call' = [call EXCEPT ![t] = Execution(key)] /\ call'[t] = Execution(key)
  BY DEF Resume, Goes, GraphInv, TypeOK
<1>3. Progress(call[t])' /\ Late(call[t])'
  <2>1. PICK d : d = call'[t]
    OBVIOUS
  <2> QED BY <2>1, <1>1, <1>2 DEF Progress, Late, UpTo
<1>4. SuccessComplete' /\ status' \in RunStatuses
  BY <1>1, SuccessStays DEF Resume, Resumable, RunStatuses
<1> QED BY <1>1, <1>2, <1>3, <1>4, WritingStep, EarlyTyped DEF Resume, GraphInv, TypeOK

LEMMA AskKeeps ==
    ASSUME GraphInv, NEW t \in Threads, NEW wanted \in {"paused", "cancelled"}, Ask(t, wanted)
    PROVE  GraphInv'
<1> DEFINE d == [Idle EXCEPT !.pc = "write", !.state = wanted]
<1>1. d \in Calls
  <2>1. \A c \in Calls : [c EXCEPT !.pc = "write", !.state = wanted] \in Calls
    BY DEF Calls, RunStatuses
  <2> QED BY <2>1, IdleKnows
<1>2. d.pc = "write" /\ d.state = wanted /\ d.attempt = 0 /\ d.late = 0
  BY DEF Idle
<1>3. call' = [call EXCEPT ![t] = d] /\ status # "none"
  BY DEF Ask, Goes
<1> HIDE DEF d
<1>4. Progress(d) /\ Late(d)
  BY <1>2 DEF Progress, Late
<1> QED BY <1>1, <1>3, <1>4, QuietStep, EarlyTyped DEF Ask, GraphInv, TypeOK

\* What a record of a call is after some of its fields are set.
LEMMA CallFields ==
    ASSUME NEW c \in Calls, NEW pc \in {"idle", "check", "node", "list", "save", "close", "answer", "write"}
    PROVE  /\ [c EXCEPT !.pc = pc] \in Calls
           /\ [c EXCEPT !.pc = pc, !.stale = FALSE] \in Calls
           /\ [c EXCEPT !.stale = FALSE] \in Calls
           /\ \A state \in RunStatuses : [c EXCEPT !.pc = pc, !.state = state] \in Calls
           /\ \A n \in 0..Length : [c EXCEPT !.pc = pc, !.node = n] \in Calls
           /\ \A state \in RunStatuses, n \in Nat :
                [c EXCEPT !.pc = pc, !.state = state, !.late = n] \in Calls
BY DEF Calls

LEMMA CheckKeeps ==
    ASSUME GraphInv, NEW t \in Threads, Check(t)
    PROVE  GraphInv'
<1> DEFINE c == call[t]
           d == CASE kill -> [c EXCEPT !.pc = "list", !.state = "failed"]
                  [] ~kill /\ c.node = 0 -> [c EXCEPT !.pc = "list"]
                  [] OTHER -> [c EXCEPT !.pc = "node"]
<1>1. c \in Calls /\ Progress(c) /\ Late(c) /\ c.pc = "check"
  BY DEF GraphInv, TypeOK, Check, At
<1>2. call' = [call EXCEPT ![t] = d] /\ status # "none"
  BY <1>1 DEF Check, Goes, GraphInv, Unstarted
<1>3. d \in Calls /\ Progress(d) /\ Late(d)
  <2>1. CASE kill
    <3>1. d = [c EXCEPT !.pc = "list", !.state = "failed"]
      BY <2>1
    <3>2. d \in Calls
      BY <1>1, <3>1, CallFields DEF RunStatuses
    <3>3. /\ d.pc = "list" /\ d.state = "failed" /\ d.attempt = c.attempt
          /\ d.node = c.node /\ d.late = c.late
      BY <1>1, <3>1 DEF Calls
    <3> HIDE DEF d
    <3> QED BY <1>1, <2>1, <3>2, <3>3 DEF Progress, Late
  <2>2. CASE ~kill /\ c.node = 0
    <3>1. d = [c EXCEPT !.pc = "list"]
      BY <2>2
    <3>2. d \in Calls
      BY <1>1, <3>1, CallFields
    <3>3. /\ d.pc = "list" /\ d.state = c.state /\ d.attempt = c.attempt
          /\ d.node = 0 /\ d.late = c.late
      BY <1>1, <2>2, <3>1 DEF Calls
    <3>4. UpTo(0) = {}
      BY LengthAssumption DEF UpTo, Nodes
    <3> HIDE DEF d
    <3> QED BY <1>1, <2>2, <3>2, <3>3, <3>4 DEF Progress, Late
  <2>3. CASE ~kill /\ c.node # 0
    <3>1. d = [c EXCEPT !.pc = "node"]
      BY <2>3
    <3>2. d \in Calls
      BY <1>1, <3>1, CallFields
    <3>3. /\ d.pc = "node" /\ d.state = c.state /\ d.attempt = c.attempt
          /\ d.node = c.node /\ d.late = c.late /\ c.node \in 0..Length
      BY <1>1, <3>1 DEF Calls
    <3>4. c.node > 0
      BY <2>3, <3>3, LengthAssumption
    <3> HIDE DEF d
    <3> QED BY <1>1, <2>3, <3>2, <3>3, <3>4 DEF Progress, Late
  <2> QED BY <2>1, <2>2, <2>3
<1> HIDE DEF d
<1> QED BY <1>2, <1>3, QuietStep, EarlyTyped DEF Check, GraphInv, TypeOK

LEMMA ListKeeps ==
    ASSUME GraphInv, NEW t \in Threads, List(t)
    PROVE  GraphInv'
<1> DEFINE c == call[t]
           d == [c EXCEPT !.pc = "save", !.stale = FALSE]
<1>1. c \in Calls /\ Progress(c) /\ Late(c) /\ c.pc = "list"
  BY DEF GraphInv, TypeOK, List, At
<1>2. call' = [call EXCEPT ![t] = d] /\ status # "none"
  BY <1>1 DEF List, Goes, GraphInv, Unstarted
<1>3. d \in Calls
  BY <1>1, CallFields
<1>4. /\ d.pc = "save" /\ d.state = c.state /\ d.attempt = c.attempt
      /\ d.node = c.node /\ d.late = c.late
  BY <1>1 DEF Calls
<1> HIDE DEF d
<1>5. Progress(d) /\ Late(d)
  BY <1>1, <1>4 DEF Progress, Late
<1> QED BY <1>2, <1>3, <1>5, QuietStep, EarlyTyped DEF List, GraphInv, TypeOK

LEMMA AnswerKeeps ==
    ASSUME GraphInv, NEW t \in Threads, Answer(t)
    PROVE  GraphInv'
<1>1. call[t] \in Calls /\ call[t].pc = "answer" /\ status # "none"
  BY DEF GraphInv, TypeOK, Answer, At, Unstarted
<1>2. call[t].key \in Keys
  BY <1>1 DEF GraphInv, Progress, Calls
<1>3. answers' \subseteq Keys
  BY <1>2 DEF Answer, GraphInv, TypeOK
<1> QED BY <1>1, <1>3, IdleKnows, QuietStep, EarlyTyped DEF Answer, Goes, GraphInv, TypeOK

\* A pause or a cancellation is no success; what it writes over is not asked.
LEMMA WriteKeeps ==
    ASSUME GraphInv, NEW t \in Threads, Write(t)
    PROVE  GraphInv'
<1> DEFINE c == call[t]
           d == IF saved THEN [c EXCEPT !.pc = "list"] ELSE Idle
<1>1. /\ c \in Calls /\ Progress(c) /\ Late(c)
      /\ c.pc = "write" /\ c.attempt = 0 /\ c.state \in {"paused", "cancelled"}
  BY DEF GraphInv, TypeOK, Write, At, Progress
<1>2. call' = [call EXCEPT ![t] = d] /\ call'[t] = d
  BY <1>1 DEF Write, Goes, GraphInv, TypeOK
<1>3. d \in Calls /\ Progress(d) /\ Late(d)
  <2>1. CASE saved
    <3>1. d \in Calls /\ d = [c EXCEPT !.pc = "list"]
      BY <1>1, <2>1, CallFields
    <3>2. /\ d.pc = "list" /\ d.state = c.state /\ d.attempt = 0
          /\ d.node = c.node /\ d.late = c.late
      BY <1>1, <3>1 DEF Calls
    <3> HIDE DEF d
    <3> QED BY <1>1, <3>1, <3>2 DEF Progress, Late
  <2>2. CASE ~saved
    BY <2>2, IdleKnows
  <2> QED BY <2>1, <2>2
<1> HIDE DEF d
<1>4. Progress(call[t])' /\ Late(call[t])'
  BY <1>2, <1>3 DEF Write, Progress, Late, UpTo
<1>5. Grows
  BY BoundAssumption DEF Write, Grows, GraphInv, TypeOK
<1>6. status' \in RunStatuses /\ SuccessComplete'
  BY <1>1 DEF Write, SuccessComplete, RunStatuses
<1> QED BY <1>2, <1>3, <1>4, <1>5, <1>6, WritingStep, EarlyTyped DEF Write, GraphInv, TypeOK

\* A node that returns is added to those of its attempt.
LEMMA NodeKeeps ==
    ASSUME GraphInv, NEW t \in Threads, Node(t)
    PROVE  GraphInv'
<1> DEFINE c == call[t]
<1>1. /\ c \in Calls /\ Progress(c) /\ Late(c)
      /\ c.pc = "node" /\ c.attempt \in 1..AttemptBound /\ c.attempt <= Len(attempts)
      /\ c.node \in Nodes /\ c.late = 0
  <2>1. c \in Calls /\ Progress(c) /\ Late(c) /\ c.pc = "node"
    BY DEF GraphInv, TypeOK, Node, At
  <2>2. c.attempt \in 0..AttemptBound /\ c.node \in 0..Length
    BY <2>1 DEF Calls
  <2>3. c.attempt > 0 /\ c.node > 0 /\ c.attempt <= Len(attempts)
    BY <2>1 DEF Progress
  <2> QED BY <2>1, <2>2, <2>3, BoundAssumption, LengthAssumption DEF Late, Nodes
<1>2. PICK state \in {"running", "waiting", "failed"} :
        /\ call' = [call EXCEPT ![t] = [c EXCEPT !.pc = "list", !.state = state,
                                                 !.late = IF kill THEN @ + 1 ELSE @]]
        /\ ran' = IF state = "running"
                  THEN [ran EXCEPT ![c.attempt] = @ \cup {c.node}]
                  ELSE ran
  BY DEF Node, Goes
<1> DEFINE late == IF kill THEN c.late + 1 ELSE c.late
           d == [c EXCEPT !.pc = "list", !.state = state, !.late = late]
<1>3. late \in 0..1 /\ (late = 1 => kill)
  BY <1>1
<1>4. d \in Calls
  <2>1. late \in Nat /\ state \in RunStatuses
    BY <1>3 DEF RunStatuses
  <2> HIDE DEF late
  <2> QED BY <1>1, <2>1, CallFields
<1>5. /\ d.pc = "list" /\ d.state = state /\ d.attempt = c.attempt
      /\ d.node = c.node /\ d.late = late
  BY <1>1 DEF Calls
<1>6. call' = [call EXCEPT ![t] = d] /\ call'[t] = d
  BY <1>1, <1>2 DEF GraphInv, TypeOK
<1> HIDE DEF d, late
<1>7. /\ ran' \in [1..AttemptBound -> SUBSET Nodes]
      /\ \A a \in 1..AttemptBound : ran[a] \subseteq ran'[a] /\ ran'[a] \subseteq Nodes
      /\ state = "running" => c.node \in ran'[c.attempt]
  <2>1. ran \in [1..AttemptBound -> SUBSET Nodes]
    BY DEF GraphInv, TypeOK
  <2> QED BY <1>1, <1>2, <2>1
<1>8. Grows
  BY <1>7 DEF Node, Grows, GraphInv, TypeOK
<1>9. Progress(call[t])'
  <2>1. UpTo(c.node - 1) \subseteq ran'[c.attempt]
    BY <1>1, <1>7 DEF Progress
  <2>2. state = "running" => UpTo(c.node) \subseteq ran'[c.attempt]
    BY <1>1, <1>7, <2>1, LengthAssumption DEF UpTo, Nodes
  <2> QED BY <1>1, <1>2, <1>5, <1>6, <2>2 DEF Node, Progress, UpTo
<1>10. Late(call[t])'
  BY <1>3, <1>5, <1>6 DEF Node, Late
<1>11. status' \in RunStatuses /\ SuccessComplete'
  <2>1. status \in RunStatuses
    BY <1>1 DEF GraphInv, TypeOK, Unstarted
  <2> QED BY <1>8, <2>1, SuccessStays DEF Node, GraphInv, TypeOK
<1> QED BY <1>4, <1>6, <1>7, <1>8, <1>9, <1>10, <1>11, WritingStep, EarlyTyped DEF Node, GraphInv, TypeOK

\* What follows a checkpoint that was saved, and one that was rejected.
LEMMA SavedKnows ==
    ASSUME GraphInv, NEW t \in Threads, call[t].pc = "save"
    PROVE  Saved(call[t]) \in Calls /\ Progress(Saved(call[t])) /\ Late(Saved(call[t]))
<1> DEFINE b == call[t]
           d == Saved(b)
<1>1. b \in Calls /\ Progress(b) /\ Late(b)
  BY DEF GraphInv, TypeOK
<1>2. /\ b.attempt \in 0..AttemptBound /\ b.node \in 0..Length
      /\ (b.attempt > 0 => b.attempt <= Len(attempts))
  BY <1>1 DEF Calls, Progress
<1>3. CASE b.attempt = 0
  BY <1>3, IdleKnows DEF Saved
<1>4. CASE b.attempt > 0 /\ b.state # "running"
  <2>1. d = [b EXCEPT !.pc = "close"]
    BY <1>4 DEF Saved
  <2>2. d \in Calls
    BY <1>1, <2>1, CallFields
  <2>3. d.pc = "close" /\ d.state = b.state /\ d.attempt = b.attempt /\ d.node = b.node /\ d.late = b.late
    BY <1>1, <2>1 DEF Calls
  <2> HIDE DEF d
  <2>4. Progress(d) /\ Late(d)
    BY <1>1, <1>4, <2>3 DEF Progress, Late
  <2> QED BY <2>2, <2>4 DEF d
<1>5. CASE b.attempt > 0 /\ b.state = "running" /\ b.node = Length
  <2>1. d = [b EXCEPT !.pc = "list", !.state = "succeeded"]
    BY <1>2, <1>5 DEF Saved
  <2>2. d \in Calls
    <3>1. \A state \in RunStatuses : [b EXCEPT !.pc = "list", !.state = state] \in Calls
      BY <1>1, CallFields
    <3> HIDE DEF d
    <3> QED BY <2>1, <3>1 DEF RunStatuses
  <2>3. d.pc = "list" /\ d.state = "succeeded" /\ d.attempt = b.attempt /\ d.node = b.node /\ d.late = b.late
    BY <1>1, <2>1 DEF Calls
  <2>4. ran[b.attempt] = Nodes
    <3>1. UpTo(Length) = Nodes
      BY LengthAssumption DEF UpTo, Nodes
    <3>2. UpTo(b.node) \subseteq ran[b.attempt]
      BY <1>1, <1>5 DEF Progress
    <3>3. ran[b.attempt] \subseteq Nodes
      BY <1>2, <1>5, BoundAssumption DEF GraphInv, TypeOK
    <3> QED BY <1>5, <3>1, <3>2, <3>3
  <2> HIDE DEF d
  <2>5. Progress(d) /\ Late(d)
    BY <1>1, <1>5, <2>3, <2>4 DEF Progress, Late
  <2> QED BY <2>2, <2>5 DEF d
<1>6. CASE b.attempt > 0 /\ b.state = "running" /\ b.node # Length
  <2>1. d = [b EXCEPT !.pc = "check", !.node = b.node + 1]
    BY <1>2, <1>6 DEF Saved
  <2>2. b.node + 1 \in 0..Length
    BY <1>2, <1>6, LengthAssumption
  <2>3. d \in Calls
    <3>1. \A n \in 0..Length : [b EXCEPT !.pc = "check", !.node = n] \in Calls
      BY <1>1, CallFields
    <3> HIDE DEF d
    <3> QED BY <2>1, <2>2, <3>1
  <2>4. d.pc = "check" /\ d.state = "running" /\ d.attempt = b.attempt /\ d.node - 1 = b.node /\ d.late = b.late
    BY <1>1, <1>2, <1>6, <2>1, LengthAssumption DEF Calls
  <2>5. UpTo(b.node) \subseteq ran[b.attempt]
    BY <1>1, <1>6 DEF Progress
  <2> HIDE DEF d
  <2>6. Progress(d) /\ Late(d)
    BY <1>1, <1>6, <2>4, <2>5 DEF Progress, Late
  <2> QED BY <2>3, <2>6 DEF d
<1> QED BY <1>2, <1>3, <1>4, <1>5, <1>6, BoundAssumption

LEMMA RejectedKnows ==
    ASSUME GraphInv, NEW t \in Threads, call[t].pc = "save"
    PROVE  LET d == Rejected([call[t] EXCEPT !.stale = FALSE])
           IN d \in Calls /\ Progress(d) /\ Late(d)
<1> DEFINE c == [call[t] EXCEPT !.stale = FALSE]
           d == Rejected(c)
<1>1. call[t] \in Calls /\ Progress(call[t]) /\ Late(call[t])
  BY DEF GraphInv, TypeOK
<1>2. c \in Calls
  BY <1>1, CallFields
<1>3. /\ c.pc = "save" /\ c.state = call[t].state /\ c.attempt = call[t].attempt
      /\ c.node = call[t].node /\ c.late = call[t].late
  BY <1>1 DEF Calls
<1> HIDE DEF c
<1>4. Progress(c) /\ Late(c)
  BY <1>1, <1>3 DEF Progress, Late
<1>5. CASE c.attempt > 0 /\ c.state \in {"running", "succeeded"}
  <2>1. d = [c EXCEPT !.pc = "list", !.state = "failed"]
    BY <1>5 DEF Rejected
  <2> HIDE DEF d
  <2>2. d \in Calls
    <3>1. \A state \in RunStatuses : [c EXCEPT !.pc = "list", !.state = state] \in Calls
      BY <1>2, CallFields
    <3> QED BY <2>1, <3>1 DEF RunStatuses
  <2>3. d.pc = "list" /\ d.state = "failed" /\ d.attempt = c.attempt /\ d.node = c.node /\ d.late = c.late
    BY <1>2, <2>1 DEF Calls
  <2>4. Progress(d) /\ Late(d)
    BY <1>4, <1>5, <2>3 DEF Progress, Late
  <2> QED BY <2>2, <2>4 DEF c, d
<1>6. CASE ~(c.attempt > 0 /\ c.state \in {"running", "succeeded"})
  <2>1. d = Idle
    BY <1>6 DEF Rejected
  <2> HIDE DEF d
  <2> QED BY <2>1, IdleKnows DEF c, d
<1> QED BY <1>5, <1>6

LEMMA SaveKeeps ==
    ASSUME GraphInv, NEW t \in Threads, Save(t)
    PROVE  GraphInv'
<1>1. call[t] \in Calls /\ call[t].pc = "save" /\ status # "none"
  BY DEF GraphInv, TypeOK, Save, At, Unstarted
<1>2. CASE call[t].stale
  <2> DEFINE d == Rejected([call[t] EXCEPT !.stale = FALSE])
  <2>1. d \in Calls /\ Progress(d) /\ Late(d)
    BY <1>1, RejectedKnows
  <2>2. call' = [call EXCEPT ![t] = d]
    BY <1>2 DEF Save, Goes
  <2> HIDE DEF d
  <2> QED BY <1>1, <1>2, <2>1, <2>2, QuietStep, EarlyTyped DEF Save, GraphInv, TypeOK
<1>3. CASE ~call[t].stale
  <2> DEFINE d == Saved(call[t])
  <2>1. d \in Calls /\ Progress(d) /\ Late(d)
    BY <1>1, SavedKnows
  <2>2. /\ call' = [u \in Threads |-> IF u = t THEN d ELSE [call[u] EXCEPT !.stale = At(u, "save")]]
        /\ saved' = TRUE /\ UNCHANGED <<status, attempts, ran, answers, kill, switched, clashed, early>>
    BY <1>3 DEF Save
  <2> HIDE DEF d
  <2>3. call'[t] = d /\ \A u \in Threads \ {t} : call'[u] = [call[u] EXCEPT !.stale = At(u, "save")]
    BY <2>2
  <2>4. Grows
    BY <2>2, BoundAssumption DEF Grows, GraphInv, TypeOK
  <2>5. \A u \in Threads : call'[u] \in Calls /\ Progress(call[u])' /\ Late(call[u])'
    <3>1. Progress(call[t])' /\ Late(call[t])'
      BY <2>1, <2>2, <2>3 DEF Progress, Late, UpTo
    <3>2. \A u \in Threads \ {t} : call'[u] \in Calls /\ Progress(call[u])' /\ Late(call[u])'
      BY <2>2, <2>3, <2>4, OthersKeep
    <3> QED BY <2>1, <2>3, <3>1, <3>2
  <2>6. TypeOK'
    <3>1. call' \in [Threads -> Calls]
      BY <2>2, <2>5
    <3> QED BY <2>2, <3>1 DEF GraphInv, TypeOK
  <2>7. Unstarted'
    BY <1>1, <2>2 DEF Unstarted
  <2>8. SuccessComplete'
    BY <2>2, <2>4, SuccessStays DEF GraphInv, TypeOK
  <2> QED BY <2>2, <2>5, <2>6, <2>7, <2>8 DEF GraphInv
<1> QED BY <1>2, <1>3

\* The outcome of an attempt is written over whatever the run is by now; a
\* success is that of the attempt, whose nodes have all returned.
LEMMA CloseKeeps ==
    ASSUME GraphInv, NEW t \in Threads, Close(t)
    PROVE  GraphInv'
<1> DEFINE c == call[t]
           d == IF c.key = NoKey THEN Idle ELSE [c EXCEPT !.pc = "answer"]
<1>1. /\ c \in Calls /\ Progress(c) /\ Late(c) /\ c.pc = "close"
      /\ c.attempt \in 1..Len(attempts) /\ c.state \in RunStatuses
  BY DEF GraphInv, TypeOK, Close, At, Progress, Calls
<1>2. call' = [call EXCEPT ![t] = d] /\ call'[t] = d
  BY <1>1 DEF Close, Goes, GraphInv, TypeOK
<1>3. d \in Calls /\ Progress(d) /\ Late(d)
  <2>1. CASE c.key = NoKey
    BY <2>1, IdleKnows
  <2>2. CASE c.key # NoKey
    <3>1. d = [c EXCEPT !.pc = "answer"] /\ d \in Calls
      BY <1>1, <2>2, CallFields
    <3>2. /\ d.pc = "answer" /\ d.state = c.state /\ d.attempt = c.attempt
          /\ d.node = c.node /\ d.late = c.late /\ d.key = c.key
      BY <1>1, <3>1 DEF Calls
    <3> HIDE DEF d
    <3> QED BY <1>1, <2>2, <3>1, <3>2 DEF Progress, Late
  <2> QED BY <2>1, <2>2
<1> HIDE DEF d
<1>4. attempts' \in Seq(RunStatuses) /\ Len(attempts') = Len(attempts)
  BY <1>1 DEF Close, GraphInv, TypeOK
<1>5. Grows
  BY <1>4, BoundAssumption DEF Close, Grows, GraphInv, TypeOK
<1>6. Progress(call[t])' /\ Late(call[t])'
  BY <1>2, <1>3, <1>4 DEF Close, Progress, Late, UpTo
<1>7. SuccessComplete'
  <2>1. c.state = "succeeded" => ran[c.attempt] = Nodes
    BY <1>1 DEF Progress
  <2> QED BY <1>1, <1>4, <2>1 DEF Close, SuccessComplete
<1> QED BY <1>1, <1>2, <1>3, <1>4, <1>5, <1>6, <1>7, WritingStep, EarlyTyped DEF Close, GraphInv, TypeOK

\* The switch is set with no node counted, and cleared with none.
LEMMA SwitchKeeps ==
    ASSUME GraphInv, SetKill \/ ClearKill
    PROVE  GraphInv'
<1>1. UNCHANGED <<status, saved, attempts, ran, answers, clashed, early>>
  BY DEF SetKill, ClearKill
<1>2. kill' \in BOOLEAN /\ switched' \in 0..SwitchBound
  <2>1. CASE SetKill
    BY <2>1, BoundAssumption DEF SetKill, GraphInv, TypeOK
  <2>2. CASE ClearKill
    BY <2>2 DEF ClearKill, GraphInv, TypeOK
  <2> QED BY <2>1, <2>2
<1>3. \A t \in Threads : call'[t] = call[t] \/ call'[t] = [call[t] EXCEPT !.late = 0]
  BY DEF SetKill, ClearKill, GraphInv, TypeOK
<1>4. \A t \in Threads : call[t] \in Calls /\ Progress(call[t]) /\ Late(call[t])
  BY DEF GraphInv, TypeOK
<1>5. \A t \in Threads : /\ call'[t] \in Calls
                         /\ call'[t].pc = call[t].pc /\ call'[t].state = call[t].state
                         /\ call'[t].attempt = call[t].attempt /\ call'[t].node = call[t].node
                         /\ call'[t].key = call[t].key
  <2>1. \A c \in Calls : LET d == [c EXCEPT !.late = 0]
                         IN d \in Calls /\ d.pc = c.pc /\ d.state = c.state /\ d.attempt = c.attempt
                            /\ d.node = c.node /\ d.key = c.key
    BY DEF Calls
  <2> QED BY <1>3, <1>4, <2>1
<1>6. \A t \in Threads : Late(call[t])'
  <2>1. CASE SetKill
    BY <2>1, <1>4 DEF SetKill, Late
  <2>2. CASE ClearKill
    <3>1. \A t \in Threads : call'[t].late = 0
      BY <2>2, <1>4 DEF ClearKill, Calls
    <3> QED BY <3>1 DEF Late
  <2> QED BY <2>1, <2>2
<1>7. \A t \in Threads : Progress(call[t])'
  BY <1>1, <1>4, <1>5 DEF Progress, UpTo
<1>8. TypeOK'
  <2>1. call' \in [Threads -> Calls]
    BY <1>5 DEF SetKill, ClearKill, GraphInv, TypeOK
  <2> QED BY <1>1, <1>2, <2>1 DEF GraphInv, TypeOK
<1>9. Unstarted' /\ SuccessComplete' /\ Len(attempts') <= AttemptBound
  BY <1>1, <1>5 DEF GraphInv, Unstarted, SuccessComplete
<1> QED BY <1>6, <1>7, <1>8, <1>9 DEF GraphInv

-----------------------------------------------------------------------------
\* Everything a call knows of its attempt, every success and the kill switch,
\* in every reachable state, whatever the threads, nodes and bounds.
THEOREM GraphSound == Spec => []GraphInv
<1>1. GraphInv /\ [Next]_vars => GraphInv'
  <2> SUFFICES ASSUME GraphInv, [Next]_vars PROVE GraphInv'
    OBVIOUS
  <2>1. CASE UNCHANGED vars
    BY <2>1 DEF vars, GraphInv, TypeOK, Unstarted, Progress, Late, UpTo, SuccessComplete
  <2>2. ASSUME NEW t \in Threads, Run(t) PROVE GraphInv'
    BY <2>2, RunKeeps
  <2>3. ASSUME NEW t \in Threads, NEW key \in Keys, Resume(t, key) PROVE GraphInv'
    BY <2>3, ResumeKeeps
  <2>4. ASSUME NEW t \in Threads, NEW wanted \in {"paused", "cancelled"}, Ask(t, wanted) PROVE GraphInv'
    BY <2>4, AskKeeps
  <2>5. ASSUME NEW t \in Threads, Step(t) PROVE GraphInv'
    BY <2>5, WriteKeeps, CheckKeeps, NodeKeeps, ListKeeps, SaveKeeps, CloseKeeps, AnswerKeeps DEF Step
  <2>6. CASE SetKill \/ ClearKill
    BY <2>6, SwitchKeeps
  <2> QED BY <2>1, <2>2, <2>3, <2>4, <2>5, <2>6 DEF Next
<1> QED BY <1>1, InitKnows, PTL DEF Spec

\* The types of the run, its checkpoints and the calls in progress.
THEOREM TypeCorrect == Spec => []TypeOK
<1>1. GraphInv => TypeOK
  BY DEF GraphInv
<1> QED BY <1>1, GraphSound, PTL

\* A run that is succeeded went through every node of its graph in one attempt,
\* however many threads resumed, paused and cancelled it meanwhile.
THEOREM SuccessIsComplete == Spec => []SuccessComplete
<1>1. GraphInv => SuccessComplete
  BY DEF GraphInv
<1> QED BY <1>1, GraphSound, PTL

\* The kill switch lets every call in progress run one more node at most.
THEOREM KillStopsCalls == Spec => []KillStops
<1>1. GraphInv => KillStops
  <2> SUFFICES ASSUME GraphInv, NEW t \in Threads PROVE call[t].late <= 1
    BY DEF KillStops
  <2>1. call[t].late \in 0..1
    BY DEF GraphInv, Late
  <2> QED BY <2>1
<1> QED BY <1>1, GraphSound, PTL

-----------------------------------------------------------------------------
(* What happens to a run that has ended *)

\* Whoever has still to write a run that has ended had begun when it ended.
Overdue == status \in Ended => \A t \in Threads : Writing(call[t]) => t \in early

\* A call that goes on without writing has still to write only if it had before.
LEMMA OthersOverdue ==
    ASSUME GraphInv, Overdue, status' = status \/ status' \notin Ended, early' = early,
           \A t \in Threads : Writing(call'[t]) => Writing(call[t])
    PROVE  Overdue'
BY DEF Overdue, Writing

\* A call that writes has then written; those that have not are early.
LEMMA WriterOverdue ==
    ASSUME GraphInv, Overdue, NEW t \in Threads, NEW d, call' = [call EXCEPT ![t] = d],
           Writes(t), ~ Writing(d)
    PROVE  Overdue'
<1> SUFFICES ASSUME status' \in Ended, NEW u \in Threads, Writing(call'[u])
             PROVE  u \in early'
  BY DEF Overdue, Writing
<1>1. u # t /\ call'[u] = call[u]
  BY DEF GraphInv, TypeOK
<1>2. Writing(call[u])
  BY <1>1
<1> QED BY <1>1, <1>2 DEF Writes, Overdue

LEMMA StepOverdue ==
    ASSUME GraphInv, Overdue, NEW t \in Threads, Step(t)
    PROVE  Overdue'
<1> DEFINE c == call[t]
<1>1. c \in Calls /\ Progress(c) /\ call \in [Threads -> Calls]
  BY DEF GraphInv, TypeOK
<1>2. CASE Write(t)
  <2>1. PICK d : /\ call' = [call EXCEPT ![t] = d]
                 /\ d = IF saved THEN [c EXCEPT !.pc = "list"] ELSE Idle
    BY <1>2 DEF Write, Goes
  <2>2. c.attempt = 0
    BY <1>1, <1>2 DEF Progress, Write, At
  <2>3. d.attempt = 0 /\ d.pc # "write"
    BY <1>1, <2>1, <2>2 DEF Calls, Idle
  <2>4. ~ Writing(d)
    BY <2>3 DEF Writing
  <2> QED BY <1>2, <2>1, <2>4, WriterOverdue DEF Write
<1>3. CASE Close(t)
  <2>1. PICK d : /\ call' = [call EXCEPT ![t] = d]
                 /\ d = IF c.key = NoKey THEN Idle ELSE [c EXCEPT !.pc = "answer"]
    BY <1>3 DEF Close, Goes
  <2>2. d.pc \in {"idle", "answer"}
    BY <1>1, <2>1 DEF Calls, Idle
  <2>3. ~ Writing(d)
    BY <2>2 DEF Writing
  <2> QED BY <1>3, <2>1, <2>3, WriterOverdue DEF Close
<1>4. CASE Check(t) \/ Node(t) \/ List(t) \/ Answer(t)
  <2>1. /\ call'[t].attempt = c.attempt \/ call'[t].pc = "idle"
        /\ call'[t].pc # "write"
        /\ c.pc # "idle" /\ (c.pc = "answer" => call'[t].pc = "idle")
        /\ \A u \in Threads \ {t} : call'[u] = call[u]
    <3>1. \A u \in Threads \ {t} : call'[u] = call[u]
      BY <1>1, <1>4 DEF Check, Node, List, Answer, Goes
    <3>2. CASE Check(t)
      <4>1. c.pc = "check" /\ \E d : /\ call'[t] = d
                                    /\ \/ d = [c EXCEPT !.pc = "list", !.state = "failed"]
                                       \/ d = [c EXCEPT !.pc = "list"]
                                       \/ d = [c EXCEPT !.pc = "node"]
        BY <1>1, <3>2 DEF Check, At, Goes
      <4> QED BY <1>1, <3>1, <4>1 DEF Calls
    <3>3. CASE Node(t)
      <4>1. PICK state : call'[t] = [c EXCEPT !.pc = "list", !.state = state,
                                             !.late = IF kill THEN @ + 1 ELSE @]
        BY <1>1, <3>3 DEF Node, Goes
      <4>2. c.pc = "node"
        BY <3>3 DEF Node, At
      <4> QED BY <1>1, <3>1, <4>1, <4>2 DEF Calls
    <3>4. CASE List(t)
      <4>1. c.pc = "list" /\ call'[t] = [c EXCEPT !.pc = "save", !.stale = FALSE]
        BY <1>1, <3>4 DEF List, At, Goes
      <4> QED BY <1>1, <3>1, <4>1 DEF Calls
    <3>5. CASE Answer(t)
      <4>1. c.pc = "answer" /\ call'[t] = Idle
        BY <1>1, <3>5 DEF Answer, At, Goes
      <4> QED BY <3>1, <4>1 DEF Idle
    <3> QED BY <1>4, <3>2, <3>3, <3>4, <3>5
  <2>2. \A u \in Threads : Writing(call'[u]) => Writing(call[u])
    BY <2>1 DEF Writing
  <2> QED BY <1>4, <2>2, OthersOverdue DEF Check, Node, List, Answer
<1>5. CASE Save(t)
  <2>1. c.pc = "save"
    BY <1>5 DEF Save, At
  <2>2. CASE c.stale
    <3>1. PICK d : call' = [call EXCEPT ![t] = d] /\ d = Rejected([c EXCEPT !.stale = FALSE])
      BY <1>5, <2>2 DEF Save, Goes
    <3>2. d.pc # "write" /\ (d.pc = "idle" \/ d.attempt = c.attempt)
      BY <1>1, <3>1 DEF Rejected, Calls, Idle
    <3>3. \A u \in Threads : Writing(call'[u]) => Writing(call[u])
      BY <1>1, <2>1, <3>1, <3>2 DEF Writing
    <3> QED BY <1>5, <3>3, OthersOverdue DEF Save
  <2>3. CASE ~ c.stale
    <3>1. PICK d : /\ call' = [u \in Threads |-> IF u = t THEN d ELSE [call[u] EXCEPT !.stale = At(u, "save")]]
                   /\ d = Saved(c)
      BY <1>5, <2>3 DEF Save
    <3>2. d.pc # "write" /\ (d.pc = "idle" \/ d.attempt = c.attempt)
      BY <1>1, <3>1 DEF Saved, Calls, Idle
    <3>3. \A u \in Threads \ {t} : call'[u].pc = call[u].pc /\ call'[u].attempt = call[u].attempt
      BY <1>1, <3>1 DEF Calls
    <3>4. \A u \in Threads : Writing(call'[u]) => Writing(call[u])
      BY <1>1, <2>1, <3>1, <3>2, <3>3 DEF Writing
    <3> QED BY <1>5, <3>4, OthersOverdue DEF Save
  <2> QED BY <2>2, <2>3
<1> QED BY <1>2, <1>3, <1>4, <1>5 DEF Step

\* In every reachable state, for any number of threads.
THEOREM EndedOverdue == Spec => []Overdue
<1>1. Init => Overdue
  BY DEF Init, Overdue, Ended
<1>2. GraphInv /\ Overdue /\ [Next]_vars => Overdue'
  <2> SUFFICES ASSUME GraphInv, Overdue, [Next]_vars PROVE Overdue'
    OBVIOUS
  <2>1. CASE UNCHANGED vars
    BY <2>1 DEF vars, Overdue, Writing
  <2>2. ASSUME NEW t \in Threads, Run(t) PROVE Overdue'
    BY <2>2 DEF Run, Overdue, Ended
  <2>3. ASSUME NEW t \in Threads, NEW key \in Keys, Resume(t, key) PROVE Overdue'
    BY <2>3 DEF Resume, Resumable, Overdue, Ended
  <2>4. ASSUME NEW t \in Threads, NEW wanted \in {"paused", "cancelled"}, Ask(t, wanted) PROVE Overdue'
    BY <2>4 DEF Ask, Overdue, Ended
  <2>5. ASSUME NEW t \in Threads, Step(t) PROVE Overdue'
    BY <2>5, StepOverdue
  <2>6. CASE SetKill \/ ClearKill
    <3>1. \A t \in Threads : call'[t].pc = call[t].pc /\ call'[t].attempt = call[t].attempt
      BY <2>6 DEF SetKill, ClearKill, GraphInv, TypeOK, Calls
    <3> QED BY <2>6, <3>1, OthersOverdue DEF SetKill, ClearKill, Writing
  <2> QED BY <2>1, <2>2, <2>3, <2>4, <2>5, <2>6 DEF Next
<1> QED BY <1>1, <1>2, GraphSound, PTL DEF Spec

\* A run that has ended is written over only by calls that had begun when it
\* ended, by each of them once, however many there are.
THEOREM EndedOverwritten == Spec => OnlyEarlyOverwrites
<1>1. GraphInv /\ Overdue /\ [Next]_vars
      => [Overwrites => \E t \in early : call'[t] # call[t]]_vars
  <2> SUFFICES ASSUME GraphInv, Overdue, Next, Overwrites
               PROVE  \E t \in early : call'[t] # call[t]
    BY DEF vars, Overwrites
  <2>1. status \in Ended
    BY DEF Overwrites
  <2>2. PICK t \in Threads : Write(t) \/ Node(t) \/ Close(t)
    BY <2>1 DEF Overwrites, Next, Run, Resume, Resumable, Ask, Step, Check, List, Save, Answer,
                SetKill, ClearKill, Ended
  <2>3. call[t] \in Calls /\ Progress(call[t]) /\ call \in [Threads -> Calls]
    BY DEF GraphInv, TypeOK
  <2>4. Writing(call[t])
    BY <2>2, <2>3 DEF Write, Node, Close, At, Writing, Progress
  <2>5. call'[t].pc # call[t].pc
    <3>1. CASE Write(t)
      <4>1. call[t].pc = "write" /\ (call'[t] = [call[t] EXCEPT !.pc = "list"] \/ call'[t] = Idle)
        BY <2>3, <3>1 DEF Write, At, Goes
      <4> QED BY <2>3, <4>1 DEF Calls, Idle
    <3>2. CASE Node(t)
      <4>1. PICK state : call'[t] = [call[t] EXCEPT !.pc = "list", !.state = state,
                                                   !.late = IF kill THEN @ + 1 ELSE @]
        BY <2>3, <3>2 DEF Node, Goes
      <4>2. call[t].pc = "node"
        BY <3>2 DEF Node, At
      <4> QED BY <2>3, <4>1, <4>2 DEF Calls
    <3>3. CASE Close(t)
      <4>1. call[t].pc = "close" /\ (call'[t] = [call[t] EXCEPT !.pc = "answer"] \/ call'[t] = Idle)
        BY <2>3, <3>3 DEF Close, At, Goes
      <4> QED BY <2>3, <4>1 DEF Calls, Idle
    <3> QED BY <2>2, <3>1, <3>2, <3>3
  <2> QED BY <2>1, <2>4, <2>5 DEF Overdue
<1> QED BY <1>1, GraphSound, EndedOverdue, PTL DEF Spec, OnlyEarlyOverwrites

=============================================================================

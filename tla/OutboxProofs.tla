----------------------------- MODULE OutboxProofs -----------------------------
(***************************************************************************)
(* Proofs about Outbox for every set of events, dispatchers and callers    *)
(* and every attempt limit, lease, backoff and batch size.                 *)
(***************************************************************************)
EXTENDS Outbox, SequenceTheorems, FiniteSetTheorems, TLAPS

USE DEF Statuses, Ended, Answers

Dispatchers == [pc : {"idle", "claim", "publish", "mark", "down"},
                batch : Seq(Claims), answer : Answers]

\* A dispatcher holds events exactly while it publishes or marks.
Holding(w) == At(w, "publish") \/ At(w, "mark")

BatchShape == \A w \in Workers : disp[w].batch # <<>> <=> Holding(w)

\* What Proceed does to the dispatcher that runs it.
LEMMA ProceedEffect ==
    ASSUME TypeOK, NEW w \in Workers, disp[w].batch # <<>>, Proceed(w)
    PROVE  /\ disp' \in [Workers -> Dispatchers]
           /\ \A v \in Workers \ {w} : disp'[v] = disp[v]
           /\ disp'[w].pc \in {"idle", "publish"}
           /\ disp'[w].pc = "publish" <=> disp'[w].batch # <<>>
           /\ Len(disp'[w].batch) = Len(disp[w].batch) - 1
           /\ \A i \in 1..Len(disp'[w].batch) :
                /\ i + 1 \in 1..Len(disp[w].batch)
                /\ disp'[w].batch[i] = disp[w].batch[i + 1]
<1> DEFINE b == disp[w].batch
           new == [pc |-> IF Len(b) = 1 THEN "idle" ELSE "publish",
                   batch |-> Tail(b), answer |-> "none"]
<1>1. b \in Seq(Claims) /\ b # <<>>
  BY DEF TypeOK
<1>2. /\ Tail(b) \in Seq(Claims)
      /\ Len(Tail(b)) = Len(b) - 1
      /\ \A i \in 1..Len(Tail(b)) : Tail(b)[i] = b[i + 1]
  BY <1>1, HeadTailProperties
<1>3. Len(b) \in Nat \ {0}
  BY <1>1, EmptySeq
<1>4. Tail(b) # <<>> <=> Len(b) # 1
  <2>1. Len(Tail(b)) = 0 <=> Tail(b) = <<>>
    BY <1>2, EmptySeq
  <2> QED BY <1>2, <1>3, <2>1
<1>5. disp' = [disp EXCEPT ![w] = new]
  BY DEF Proceed
<1>6. new \in Dispatchers
  <2> DEFINE t == Tail(b)
  <2>1. t \in Seq(Claims)
    BY <1>2
  <2> HIDE DEF t
  <2>2. [pc |-> IF Len(b) = 1 THEN "idle" ELSE "publish", batch |-> t, answer |-> "none"]
          \in Dispatchers
    BY <2>1 DEF Dispatchers
  <2> QED BY <2>2 DEF t
<1>7. disp'[w] = new /\ \A v \in Workers \ {w} : disp'[v] = disp[v]
  BY <1>5 DEF TypeOK
<1>8. disp' \in [Workers -> Dispatchers]
  BY <1>5, <1>6 DEF TypeOK, Dispatchers
<1> QED BY <1>2, <1>3, <1>4, <1>7, <1>8

\* Claim locks the rows of a set of claimable events.
LEMMA ClaimLocks ==
    ASSUME NEW w \in Workers, NEW n \in 1..BatchSize, Claim(w, n)
    PROVE  \E S \in SUBSET Events :
            /\ \A e \in S : Claimable(e)
            /\ event' = [e \in Events |-> IF e \in S THEN Locked(e, w) ELSE event[e]]
<1>1. PICK S \in Batches(n) :
        event' = [e \in Events |-> IF e \in S THEN Locked(e, w) ELSE event[e]]
  BY DEF Claim
<1>2. S \in SUBSET Events /\ \A e \in S : Claimable(e)
  BY DEF Batches
<1> QED BY <1>1, <1>2

\* What Claim does: the rows of a set of claimable events are locked, and the
\* dispatcher has them in some order, each with its new attempt.
LEMMA ClaimEffect ==
    ASSUME TypeOK, NEW w \in Workers, NEW n \in 1..BatchSize, Claim(w, n)
    PROVE  \E S \in SUBSET Events :
            /\ \A e \in S : Claimable(e)
            /\ event' = [e \in Events |-> IF e \in S THEN Locked(e, w) ELSE event[e]]
            /\ disp' \in [Workers -> Dispatchers]
            /\ \A v \in Workers \ {w} : disp'[v] = disp[v]
            /\ disp'[w].pc \in {"idle", "publish"}
            /\ disp'[w].pc = "publish" <=> disp'[w].batch # <<>>
            /\ \A e \in S : \E i \in 1..Len(disp'[w].batch) : disp'[w].batch[i].event = e
            /\ \A i \in 1..Len(disp'[w].batch) :
                /\ disp'[w].batch[i].event \in S
                /\ disp'[w].batch[i].attempt = event[disp'[w].batch[i].event].attempt + 1
            /\ \A i, j \in 1..Len(disp'[w].batch) :
                disp'[w].batch[i].event = disp'[w].batch[j].event => i = j
<1>1. PICK S \in Batches(n) :
        /\ event' = [e \in Events |-> IF e \in S THEN Locked(e, w) ELSE event[e]]
        /\ \E f \in Orders(S) :
            disp' = [disp EXCEPT ![w] =
                [pc |-> IF S = {} THEN "idle" ELSE "publish",
                 batch |-> [i \in 1..Cardinality(S) |->
                    [event |-> f[i], attempt |-> event[f[i]].attempt + 1]],
                 answer |-> "none"]]
  BY DEF Claim
<1>2. S \in SUBSET Events /\ \A e \in S : Claimable(e)
  BY DEF Batches
<1>3. IsFiniteSet(S) /\ Cardinality(S) \in Nat
  BY <1>2, EventAssumption, FS_Subset, FS_CardinalityType
<1>4. Cardinality(S) = 0 <=> S = {}
  BY <1>3, FS_EmptySet
<1>5. PICK f \in Orders(S) :
        disp' = [disp EXCEPT ![w] =
            [pc |-> IF S = {} THEN "idle" ELSE "publish",
             batch |-> [i \in 1..Cardinality(S) |->
                [event |-> f[i], attempt |-> event[f[i]].attempt + 1]],
             answer |-> "none"]]
  BY <1>1
<1> DEFINE N == Cardinality(S)
           b == [i \in 1..N |-> [event |-> f[i], attempt |-> event[f[i]].attempt + 1]]
<1>6. /\ f \in [1..N -> S]
      /\ \A i, j \in 1..N : f[i] = f[j] => i = j
  BY DEF Orders
<1>7. \A i \in 1..N : f[i] \in Events /\ event[f[i]].attempt + 1 \in Nat
  <2>1. \A e \in Events : event[e].attempt \in Nat
    BY DEF TypeOK, Rows
  <2> HIDE DEF N
  <2> QED BY <1>2, <1>6, <2>1
<1>8. b \in [1..N -> Claims]
  BY <1>7 DEF Claims
<1>9. \A i \in 1..N : b[i].event = f[i] /\ b[i].attempt = event[f[i]].attempt + 1
  BY <1>6
<1>10. disp' = [disp EXCEPT ![w] =
        [pc |-> IF S = {} THEN "idle" ELSE "publish", batch |-> b, answer |-> "none"]]
  BY <1>5
<1> HIDE DEF b
<1>11. b \in Seq(Claims) /\ Len(b) = N
  <2>1. b \in Seq(Claims)
    BY <1>3, <1>8, SeqDef
  <2> QED BY <1>3, <1>8, <2>1, LenProperties
<1>12. b # <<>> <=> S # {}
  <2>1. Len(b) = 0 <=> b = <<>>
    BY <1>11, EmptySeq
  <2> QED BY <1>4, <1>11, <2>1
<1>13. \A e \in S : \E i \in 1..N : f[i] = e
  <2>1. f \in Injection(1..N, S)
    BY <1>6 DEF Injection, IsInjective
  <2>2. Cardinality(1..N) = N
    BY <1>3, FS_Interval
  <2>3. f \in Surjection(1..N, S)
    BY <1>3, <2>1, <2>2, FS_Injection
  <2> QED BY <2>3 DEF Surjection
<1>14. /\ disp'[w].pc = IF S = {} THEN "idle" ELSE "publish"
       /\ disp'[w].batch = b
       /\ \A v \in Workers \ {w} : disp'[v] = disp[v]
  BY <1>10 DEF TypeOK
<1>15. disp' \in [Workers -> Dispatchers]
  BY <1>10, <1>11 DEF TypeOK, Dispatchers
<1>16. \A i \in 1..N : b[i].event \in S
  BY <1>6, <1>9
<1>17. \A i \in 1..N : b[i].attempt = event[b[i].event].attempt + 1
  BY <1>9
<1>18. \A i, j \in 1..N : b[i].event = b[j].event => i = j
  BY <1>6, <1>9
<1>19. \A e \in S : \E i \in 1..N : b[i].event = e
  BY <1>9, <1>13
<1>20. S \in SUBSET Events
  BY <1>2
<1> USE <1>20
<1> WITNESS S \in SUBSET Events
<1> QED BY <1>1, <1>2, <1>11, <1>12, <1>14, <1>15, <1>16, <1>17, <1>18, <1>19

\* The rows that the operations write are rows.
LEMMA RowTypes ==
    ASSUME TypeOK, NEW e \in Events
    PROVE  /\ NoRow \in Rows
           /\ \A p \in Payloads :
                [event[e] EXCEPT !.status = "pending", !.payload = p] \in Rows
           /\ [event[e] EXCEPT !.status = "pending", !.left = 0, !.by = NoWorker] \in Rows
           /\ \A w \in Workers : Locked(e, w) \in Rows
           /\ \A answer \in Answers, wait \in Nat : Marked(e, answer, wait) \in Rows
           /\ [event[e] EXCEPT !.wait = Dec(@), !.left = Dec(@)] \in Rows
<1>1. event[e] \in Rows
  BY DEF TypeOK
<1>2. NoRow \in Rows
  BY DEF NoRow, Rows
<1>3. \A p \in Payloads : [event[e] EXCEPT !.status = "pending", !.payload = p] \in Rows
  BY <1>1 DEF Rows
<1>4. [event[e] EXCEPT !.status = "pending", !.left = 0, !.by = NoWorker] \in Rows
  BY <1>1 DEF Rows
<1>5. ASSUME NEW w \in Workers
      PROVE  Locked(e, w) \in Rows
  <2>1. event[e].attempt + 1 \in Nat /\ LeaseTicks \in Nat
    BY <1>1, LeaseAssumption DEF Rows
  <2> QED BY <1>1, <2>1 DEF Rows, Locked
<1>6. ASSUME NEW answer \in Answers, NEW wait \in Nat
      PROVE  Marked(e, answer, wait) \in Rows
  BY <1>1 DEF Rows, Marked
<1>7. [event[e] EXCEPT !.wait = Dec(@), !.left = Dec(@)] \in Rows
  <2>1. Dec(event[e].wait) \in Nat /\ Dec(event[e].left) \in Nat
    BY <1>1 DEF Rows, Dec
  <2> QED BY <1>1, <2>1 DEF Rows
<1> QED BY <1>2, <1>3, <1>4, <1>5, <1>6, <1>7

\* A locked row.
LEMMA LockedFields ==
    ASSUME TypeOK, NEW e \in Events, NEW w \in Workers
    PROVE  /\ Locked(e, w).status = "publishing"
           /\ Locked(e, w).by = w
           /\ Locked(e, w).left = LeaseTicks
           /\ Locked(e, w).attempt = event[e].attempt + 1
           /\ event[e].attempt \in Nat
<1>1. event[e] \in Rows
  BY DEF TypeOK
<1> QED BY <1>1 DEF Locked, Rows

\* The event a dispatcher publishes or marks.
LEMMA MineType ==
    ASSUME TypeOK, NEW w \in Workers, disp[w].batch # <<>>
    PROVE  /\ Mine(w) = disp[w].batch[1]
           /\ 1 \in 1..Len(disp[w].batch)
           /\ Mine(w).event \in Events
           /\ Mine(w).attempt \in Nat
<1>1. disp[w].batch \in Seq(Claims)
  BY DEF TypeOK
<1>2. Len(disp[w].batch) \in Nat \ {0}
  BY <1>1, EmptySeq
<1>3. Mine(w) = disp[w].batch[1] /\ disp[w].batch[1] \in Claims
  BY <1>1, <1>2 DEF Mine
<1> QED BY <1>2, <1>3 DEF Claims

\* Sending adds the attempt to those that reached the receiver.
LEMMA ReachesEffect ==
    ASSUME TypeOK, NEW w \in Workers, disp[w].batch # <<>>, Reaches(w)
    PROVE  /\ sent' \in [Events -> SUBSET Nat]
           /\ sent'[Mine(w).event] = sent[Mine(w).event] \cup {Mine(w).attempt}
           /\ \A e \in Events \ {Mine(w).event} : sent'[e] = sent[e]
<1> DEFINE m == Mine(w).event
           n == Mine(w).attempt
<1>1. m \in Events /\ n \in Nat
  BY MineType
<1>2. sent' = [sent EXCEPT ![m] = sent[m] \cup {n}]
  BY DEF Reaches
<1> HIDE DEF m, n
<1>3. sent[m] \cup {n} \in SUBSET Nat
  BY <1>1 DEF TypeOK
<1>4. /\ sent' \in [Events -> SUBSET Nat]
      /\ sent'[m] = sent[m] \cup {n}
      /\ \A e \in Events \ {m} : sent'[e] = sent[e]
  BY <1>1, <1>2, <1>3 DEF TypeOK
<1> QED BY <1>4 DEF m, n

\* Every step keeps the types, and that a dispatcher holds events exactly while
\* it publishes or marks.
LEMMA TypeStep ==
    ASSUME TypeOK, BatchShape, [Next]_vars
    PROVE  TypeOK' /\ BatchShape'
<1> USE DEF At, Holding
<1>1. ASSUME NEW c \in Callers, NEW e \in Events, NEW p \in Payloads, AskCommit(c, e, p)
      PROVE  TypeOK' /\ BatchShape'
  BY <1>1, BoundAssumption DEF AskCommit, TypeOK, BatchShape
<1>2. ASSUME NEW r \in asked, DoCommit(r)
      PROVE  TypeOK' /\ BatchShape'
  <2>1. r.event \in Events /\ r.payload \in Payloads
    BY DEF TypeOK
  <2>2. event' \in [Events -> Rows]
    <3>1. [event[r.event] EXCEPT !.status = "pending", !.payload = r.payload] \in Rows
      BY <2>1, RowTypes
    <3> QED BY <1>2, <2>1, <3>1 DEF DoCommit, TypeOK
  <2>3. writes' \in [Events -> Nat]
    BY <1>2, <2>1 DEF DoCommit, TypeOK
  <2>4. asked' \subseteq asked
    BY <1>2 DEF DoCommit
  <2> QED BY <1>2, <2>2, <2>3, <2>4 DEF DoCommit, TypeOK, BatchShape
<1>3. ASSUME NEW w \in Workers, RetryDue(w)
      PROVE  TypeOK' /\ BatchShape'
  <2>1. event' \in [Events -> Rows]
    BY <1>3, RowTypes DEF RetryDue, TypeOK
  <2>2. disp' \in [Workers -> Dispatchers]
    BY <1>3 DEF RetryDue, TypeOK, Dispatchers
  <2>3. BatchShape'
    BY <1>3 DEF RetryDue, TypeOK, BatchShape
  <2> QED BY <1>3, <2>1, <2>2, <2>3 DEF RetryDue, TypeOK, Dispatchers
<1>4. ASSUME NEW w \in Workers, NEW n \in 1..BatchSize, Claim(w, n)
      PROVE  TypeOK' /\ BatchShape'
  <2>1. PICK S \in SUBSET Events :
          /\ event' = [e \in Events |-> IF e \in S THEN Locked(e, w) ELSE event[e]]
          /\ disp' \in [Workers -> Dispatchers]
          /\ \A v \in Workers \ {w} : disp'[v] = disp[v]
          /\ disp'[w].pc \in {"idle", "publish"}
          /\ disp'[w].pc = "publish" <=> disp'[w].batch # <<>>
    BY <1>4, ClaimEffect
  <2>2. \A e \in Events : Locked(e, w) \in Rows /\ event[e] \in Rows
    BY RowTypes DEF TypeOK
  <2>3. event' \in [Events -> Rows]
    BY <2>1, <2>2
  <2>4. BatchShape'
    BY <2>1 DEF BatchShape
  <2> QED BY <1>4, <2>1, <2>3, <2>4 DEF Claim, TypeOK, Dispatchers
<1>5. ASSUME NEW w \in Workers, NEW outcome \in Outcomes, Publish(w, outcome)
      PROVE  TypeOK' /\ BatchShape'
  <2>1. disp[w].batch # <<>>
    BY <1>5 DEF Publish, BatchShape
  <2>2. outcome \in Answers
    BY <1>5, OutcomeAssumption DEF Publish
  <2>3. disp' \in [Workers -> Dispatchers]
    <3>1. disp' = [disp EXCEPT ![w].pc = "mark", ![w].answer = outcome]
      BY <1>5 DEF Publish
    <3>2. disp \in [Workers -> Dispatchers]
      BY DEF TypeOK, Dispatchers
    <3>3. [disp[w] EXCEPT !.pc = "mark", !.answer = outcome] \in Dispatchers
      BY <2>2, <3>2 DEF Dispatchers
    <3>4. disp' = [disp EXCEPT ![w] = [disp[w] EXCEPT !.pc = "mark", !.answer = outcome]]
      BY <3>1, <3>2
    <3> QED BY <3>2, <3>3, <3>4
  <2>4. sent' \in [Events -> SUBSET Nat]
    BY <1>5, <2>1, ReachesEffect DEF Publish, TypeOK
  <2>5. BatchShape'
    BY <1>5 DEF Publish, TypeOK, BatchShape
  <2> QED BY <1>5, <2>3, <2>4, <2>5 DEF Publish, TypeOK, Dispatchers
<1>6. ASSUME NEW w \in Workers, PublishUnknown(w)
      PROVE  TypeOK' /\ BatchShape'
  <2>1. disp[w].batch # <<>>
    BY <1>6 DEF PublishUnknown, BatchShape
  <2>2. /\ disp' \in [Workers -> Dispatchers]
        /\ \A v \in Workers \ {w} : disp'[v] = disp[v]
        /\ disp'[w].pc \in {"idle", "publish"}
        /\ disp'[w].pc = "publish" <=> disp'[w].batch # <<>>
    BY <1>6, <2>1, ProceedEffect DEF PublishUnknown
  <2>3. sent' \in [Events -> SUBSET Nat]
    BY <1>6, <2>1, ReachesEffect DEF PublishUnknown, TypeOK
  <2>4. doubted' \subseteq Events /\ trouble' \in Nat
    BY <1>6, <2>1, MineType DEF PublishUnknown, TypeOK
  <2>5. BatchShape'
    BY <2>2 DEF BatchShape
  <2> QED BY <1>6, <2>2, <2>3, <2>4, <2>5 DEF PublishUnknown, TypeOK, Dispatchers
<1>7. ASSUME NEW w \in Workers, Mark(w)
      PROVE  TypeOK' /\ BatchShape'
  <2>1. disp[w].batch # <<>>
    BY <1>7 DEF Mark, BatchShape
  <2>2. /\ disp' \in [Workers -> Dispatchers]
        /\ \A v \in Workers \ {w} : disp'[v] = disp[v]
        /\ disp'[w].pc \in {"idle", "publish"}
        /\ disp'[w].pc = "publish" <=> disp'[w].batch # <<>>
    BY <1>7, <2>1, ProceedEffect DEF Mark
  <2>3. event' \in [Events -> Rows]
    <3>1. PICK wait \in 0..Backoff(event[Mine(w).event].attempt) :
            event' = [event EXCEPT ![Mine(w).event] =
                        Marked(Mine(w).event, disp[w].answer, wait)]
      BY <1>7 DEF Mark
    <3>2. disp[w].answer \in Answers /\ wait \in Nat
      BY <3>1 DEF TypeOK
    <3>3. Marked(Mine(w).event, disp[w].answer, wait) \in Rows
      BY <2>1, <3>2, MineType, RowTypes
    <3> QED BY <2>1, <3>1, <3>3, MineType DEF TypeOK
  <2>4. BatchShape'
    BY <2>2 DEF BatchShape
  <2> QED BY <1>7, <2>2, <2>3, <2>4 DEF Mark, TypeOK, Dispatchers
<1>8. ASSUME NEW w \in Workers, MarkLost(w) \/ Crash(w) \/ Restart(w)
      PROVE  TypeOK' /\ BatchShape'
  <2>1. <<>> \in Seq(Claims)
    OBVIOUS
  <2>2. PICK pc \in {"idle", "down"} :
          disp' = [disp EXCEPT ![w] = [pc |-> pc, batch |-> <<>>, answer |-> "none"]]
    BY <1>8 DEF MarkLost, Crash, Restart, Idle
  <2>3. [pc |-> pc, batch |-> <<>>, answer |-> "none"] \in Dispatchers
    BY <2>1 DEF Dispatchers
  <2>4. disp' \in [Workers -> Dispatchers]
    BY <2>2, <2>3 DEF TypeOK, Dispatchers
  <2>6. BatchShape'
    BY <2>2 DEF TypeOK, BatchShape
  <2>5. trouble' \in Nat
    BY <1>8 DEF MarkLost, Crash, Restart, TypeOK
  <2> QED BY <1>8, <2>4, <2>5, <2>6 DEF MarkLost, Crash, Restart, TypeOK, Dispatchers
<1>9. CASE Tick
  <2>1. event' \in [Events -> Rows]
    <3>1. \A e \in Events : [event[e] EXCEPT !.wait = Dec(@), !.left = Dec(@)] \in Rows
      BY RowTypes
    <3>2. event' = [e \in Events |-> [event[e] EXCEPT !.wait = Dec(@), !.left = Dec(@)]]
      BY <1>9 DEF Tick
    <3> QED BY <3>1, <3>2
  <2>2. trouble' \in Nat
    <3>1. trouble' \in {trouble, trouble + 1}
      BY <1>9, Zenon DEF Tick
    <3> QED BY <3>1 DEF TypeOK
  <2>3. BatchShape'
    BY <1>9 DEF Tick, BatchShape
  <2> QED BY <1>9, <2>1, <2>2, <2>3 DEF Tick, TypeOK
<1>10. CASE UNCHANGED vars
  BY <1>10 DEF vars, TypeOK, BatchShape
<1> QED BY <1>1, <1>2, <1>3, <1>4, <1>5, <1>6, <1>7, <1>8, <1>9, <1>10 DEF Next, Dispatch

\* The initial state has the types.
LEMMA InitTypes == Init => TypeOK /\ BatchShape
<1> SUFFICES ASSUME Init PROVE TypeOK /\ BatchShape
  OBVIOUS
<1>1. <<>> \in Seq(Claims)
  OBVIOUS
<1>2. Idle \in Dispatchers /\ Idle.batch = <<>> /\ Idle.pc = "idle"
  BY <1>1 DEF Idle, Dispatchers
<1>3. NoRow \in Rows
  BY DEF NoRow, Rows
<1> QED BY <1>2, <1>3 DEF Init, TypeOK, Dispatchers, BatchShape, Holding, At

\* The seven variables keep their types: every transaction writes rows of the
\* declared statuses, and a batch is a sequence of claims.
THEOREM TypeCorrect == Spec => []TypeOK
<1>1. Init => TypeOK /\ BatchShape
  BY InitTypes
<1>2. TypeOK /\ BatchShape /\ [Next]_vars => (TypeOK /\ BatchShape)'
  BY TypeStep
<1> QED BY <1>1, <1>2, PTL DEF Spec

-----------------------------------------------------------------------------
(* The inductive invariant *)

Entries(w) == 1..Len(disp[w].batch)
Ev(w, i) == disp[w].batch[i].event
No(w, i) == disp[w].batch[i].attempt

\* Every attempt in somebody's hands, and every one sent, has been handed out.
Issued ==
    /\ \A w \in Workers : \A i \in Entries(w) : No(w, i) \in 1..event[Ev(w, i)].attempt
    /\ \A e \in Events : sent[e] \subseteq 1..event[e].attempt

\* No event is twice in a batch.
BatchDistinct ==
    \A w \in Workers : \A i, j \in Entries(w) : Ev(w, i) = Ev(w, j) => i = j

\* A positive answer is waiting to be recorded for an attempt that was sent.
AnswerSent ==
    \A w \in Workers :
        At(w, "mark") /\ disp[w].answer = "published" => No(w, 1) \in sent[Ev(w, 1)]

\* Only events that have been handed out are in flight or ended.
HandedOut ==
    \A e \in Events :
        event[e].status \in {"publishing", "published", "failed", "dead_letter"}
            => event[e].attempt > 0

\* The dispatcher's locks are as Claim has left them.
Fresh(w) ==
    \A i \in Entries(w) :
        /\ event[Ev(w, i)].status = "publishing"
        /\ event[Ev(w, i)].by = w
        /\ event[Ev(w, i)].left = LeaseTicks

\* The last attempt that the trouble so far allows is either to be had or in
\* the hands of a dispatcher that has not let time pass.
BudgetKept ==
    \A e \in Events :
        /\ event[e].attempt <= MaxAttempts + trouble
        /\ event[e].status \in {"none", "pending", "failed"}
            => event[e].attempt < MaxAttempts + trouble
        /\ event[e].status = "publishing" /\ event[e].attempt = MaxAttempts + trouble
            => \E w \in Workers : Fresh(w) /\ \E i \in Entries(w) : Ev(w, i) = e

\* What is in flight or ended waits for nothing, and what ended has no lock.
Settled ==
    \A e \in Events :
        /\ event[e].status \in Ended \cup {"publishing"} => event[e].wait = 0
        /\ event[e].status \in Ended => event[e].left = 0

OutboxInv ==
    /\ TypeOK
    /\ BatchShape
    /\ Issued
    /\ BatchDistinct
    /\ AttemptsUnique
    /\ AnswerSent
    /\ PublishedSent
    /\ HandedOut
    /\ Settled
    /\ BudgetKept

Hands == Issued /\ BatchDistinct /\ AttemptsUnique /\ AnswerSent

\* Two places in the dispatchers' hands never hold the same attempt of an event.
LEMMA EntriesUnique ==
    ASSUME TypeOK, AttemptsUnique,
           NEW v \in Workers, NEW w \in Workers, NEW i \in Entries(v), NEW j \in Entries(w),
           Ev(v, i) = Ev(w, j), No(v, i) = No(w, j)
    PROVE  v = w /\ i = j
<1>1. disp[v].batch[i] \in Claims /\ disp[w].batch[j] \in Claims
  BY ElementOfSeq DEF TypeOK, Entries
<1>2. disp[v].batch[i] = disp[w].batch[j]
  BY <1>1 DEF Claims, Ev, No
<1> QED BY <1>2 DEF AttemptsUnique, Entries

\* The types of the entries of a batch.
LEMMA EntryTypes ==
    ASSUME TypeOK, NEW w \in Workers
    PROVE  /\ Len(disp[w].batch) \in Nat
           /\ \A i \in Entries(w) : Ev(w, i) \in Events /\ No(w, i) \in Nat
           /\ disp[w].batch # <<>> => 1 \in Entries(w)
<1>1. disp[w].batch \in Seq(Claims)
  BY DEF TypeOK
<1>2. \A i \in Entries(w) : disp[w].batch[i] \in Claims
  BY <1>1, ElementOfSeq DEF Entries
<1> QED BY <1>1, <1>2, EmptySeq DEF Claims, Ev, No, Entries

\* What leaves the attempts, the sent ones and the batches alone, or drops a
\* batch, keeps what is known about them.
LEMMA HandsKept ==
    ASSUME OutboxInv, TypeOK', BatchShape', sent' = sent,
           \A e \in Events : event'[e].attempt = event[e].attempt,
           \A w \in Workers :
                /\ disp'[w].batch \in {disp[w].batch, <<>>}
                /\ At(w, "publish")' => At(w, "publish")
                /\ At(w, "mark")' => At(w, "mark") /\ disp'[w].answer = disp[w].answer
    PROVE  Hands'
<1> USE DEF OutboxInv
<1>1. ASSUME NEW w \in Workers, NEW i \in Entries(w)'
      PROVE  disp'[w].batch = disp[w].batch /\ i \in Entries(w)
  <2>1. Len(<<>>) = 0 /\ 1..0 = {}
    OBVIOUS
  <2> QED BY <1>1, <2>1 DEF Entries
<1>2. Issued'
  <2>1. \A w \in Workers : \A i \in Entries(w)' :
          (No(w, i) \in 1..event[Ev(w, i)].attempt)'
    BY <1>1, EntryTypes DEF Issued, Ev, No
  <2> QED BY <2>1 DEF Issued
<1>3. BatchDistinct'
  BY <1>1 DEF BatchDistinct, Ev
<1>4. AttemptsUnique'
  <2> SUFFICES ASSUME NEW v \in Workers, NEW w \in Workers,
                      NEW i \in Entries(v)', NEW j \in Entries(w)'
               PROVE  /\ disp'[v].batch[i] = disp'[w].batch[j] => v = w /\ i = j
                      /\ At(v, "publish")' \/ i > 1
                          => disp'[v].batch[i].attempt \notin sent'[disp'[v].batch[i].event]
    BY DEF AttemptsUnique, Entries
  <2>1. /\ disp'[v].batch = disp[v].batch /\ i \in Entries(v)
        /\ disp'[w].batch = disp[w].batch /\ j \in Entries(w)
    BY <1>1
  <2> QED BY <2>1 DEF AttemptsUnique, Entries
<1>5. AnswerSent'
  BY DEF AnswerSent, BatchShape, Holding, Ev, No, At
<1> QED BY <1>2, <1>3, <1>4, <1>5 DEF Hands

\* A claim hands out new attempts.
LEMMA HandsClaim ==
    ASSUME OutboxInv, TypeOK', BatchShape', NEW w \in Workers, NEW n \in 1..BatchSize, Claim(w, n)
    PROVE  Hands'
<1> USE DEF OutboxInv
<1>1. PICK S \in SUBSET Events :
        /\ event' = [e \in Events |-> IF e \in S THEN Locked(e, w) ELSE event[e]]
        /\ \A v \in Workers \ {w} : disp'[v] = disp[v]
        /\ disp'[w].pc \in {"idle", "publish"}
        /\ \A i \in 1..Len(disp'[w].batch) :
            /\ disp'[w].batch[i].event \in S
            /\ disp'[w].batch[i].attempt = event[disp'[w].batch[i].event].attempt + 1
        /\ \A i, j \in 1..Len(disp'[w].batch) :
            disp'[w].batch[i].event = disp'[w].batch[j].event => i = j
  BY ClaimEffect
<1>2. \A e \in Events : event[e].attempt \in Nat
  BY DEF TypeOK, Rows
<1>3. \A e \in Events : event'[e].attempt = IF e \in S THEN event[e].attempt + 1
                                            ELSE event[e].attempt
  <2> SUFFICES ASSUME NEW e \in Events
               PROVE  event'[e].attempt = IF e \in S THEN event[e].attempt + 1
                                          ELSE event[e].attempt
    OBVIOUS
  <2> QED BY <1>1, LockedFields
<1>4. sent' = sent
  BY DEF Claim
<1>5. ASSUME NEW i \in Entries(w)'
      PROVE  /\ Ev(w, i)' \in S
             /\ No(w, i)' = event[Ev(w, i)'].attempt + 1
  BY <1>1, <1>5 DEF Entries, Ev, No
<1>6. ASSUME NEW v \in Workers \ {w}, NEW i \in Entries(v)'
      PROVE  /\ disp'[v] = disp[v]
             /\ i \in Entries(v)
             /\ Ev(v, i) \in Events /\ No(v, i) \in 1..event[Ev(v, i)].attempt
  BY <1>1, <1>6, EntryTypes DEF Entries, Issued
<1>7. Issued'
  <2>1. ASSUME NEW v \in Workers, NEW i \in Entries(v)'
        PROVE  (No(v, i) \in 1..event[Ev(v, i)].attempt)'
    <3>1. CASE v = w
      <4>1. Ev(w, i)' \in S /\ No(w, i)' = event[Ev(w, i)'].attempt + 1
        BY <1>5, <2>1, <3>1
      <4> QED BY <1>2, <1>3, <3>1, <4>1
    <3>2. CASE v # w
      <4>1. Ev(v, i)' = Ev(v, i) /\ No(v, i)' = No(v, i)
        BY <1>6, <2>1, <3>2 DEF Ev, No
      <4> QED BY <1>2, <1>3, <1>6, <2>1, <3>2, <4>1
    <3> QED BY <3>1, <3>2
  <2>2. ASSUME NEW e \in Events
        PROVE  sent'[e] \subseteq 1..event'[e].attempt
    BY <1>2, <1>3, <1>4 DEF Issued
  <2> QED BY <2>1, <2>2 DEF Issued
<1>8. BatchDistinct'
  <2>1. ASSUME NEW v \in Workers, NEW i \in Entries(v)', NEW j \in Entries(v)',
               Ev(v, i)' = Ev(v, j)'
        PROVE  i = j
    <3>1. CASE v = w
      BY <1>1, <2>1, <3>1 DEF Entries, Ev
    <3>2. CASE v # w
      <4>1. disp'[v] = disp[v] /\ i \in Entries(v) /\ j \in Entries(v)
        BY <1>6, <2>1, <3>2
      <4>2. Ev(v, i) = Ev(v, j)
        BY <2>1, <4>1 DEF Ev
      <4> QED BY <4>1, <4>2 DEF BatchDistinct
    <3> QED BY <3>1, <3>2
  <2> QED BY <2>1 DEF BatchDistinct
<1>9. AttemptsUnique'
  <2>1. ASSUME NEW v \in Workers, NEW u \in Workers,
               NEW i \in Entries(v)', NEW j \in Entries(u)',
               disp'[v].batch[i] = disp'[u].batch[j]
        PROVE  v = u /\ i = j
    <3>1. Ev(v, i)' = Ev(u, j)' /\ No(v, i)' = No(u, j)'
      BY <2>1 DEF Ev, No
    <3>2. CASE v = w /\ u = w
      BY <1>8, <2>1, <3>1, <3>2 DEF BatchDistinct
    <3>3. CASE v = w /\ u # w
      <4>1. Ev(u, j)' = Ev(u, j) /\ No(u, j)' = No(u, j)
        BY <1>6, <2>1, <3>3 DEF Ev, No
      <4> QED BY <1>2, <1>5, <1>6, <2>1, <3>1, <3>3, <4>1
    <3>4. CASE v # w /\ u = w
      <4>1. Ev(v, i)' = Ev(v, i) /\ No(v, i)' = No(v, i)
        BY <1>6, <2>1, <3>4 DEF Ev, No
      <4>2. No(v, i) \in 1..event[Ev(v, i)].attempt /\ event[Ev(v, i)].attempt \in Nat
        BY <1>2, <1>6, <2>1, <3>4
      <4>3. No(u, j)' = event[Ev(u, j)'].attempt + 1
        BY <1>5, <2>1, <3>4
      <4>4. No(v, i) = event[Ev(v, i)].attempt + 1
        BY <3>1, <4>1, <4>3
      <4> QED BY <4>2, <4>4
    <3>5. CASE v # w /\ u # w
      <4>1. /\ disp'[v] = disp[v] /\ i \in Entries(v)
            /\ disp'[u] = disp[u] /\ j \in Entries(u)
        BY <1>6, <2>1, <3>5
      <4> QED BY <2>1, <4>1 DEF AttemptsUnique, Entries
    <3> QED BY <3>2, <3>3, <3>4, <3>5
  <2>2. ASSUME NEW v \in Workers, NEW i \in Entries(v)', At(v, "publish")' \/ i > 1
        PROVE  disp'[v].batch[i].attempt \notin sent'[disp'[v].batch[i].event]
    <3>1. CASE v = w
      <4>1. Ev(w, i)' \in S /\ No(w, i)' = event[Ev(w, i)'].attempt + 1
        BY <1>5, <2>2, <3>1
      <4>2. sent[Ev(w, i)'] \subseteq 1..event[Ev(w, i)'].attempt
        BY <4>1 DEF Issued
      <4>3. No(w, i)' \notin sent'[Ev(w, i)']
        BY <1>2, <1>4, <4>1, <4>2
      <4> QED BY <3>1, <4>3 DEF Ev, No
    <3>2. CASE v # w
      BY <1>4, <1>6, <2>2, <3>2 DEF AttemptsUnique, Entries, At
    <3> QED BY <3>1, <3>2
  <2> QED BY <2>1, <2>2 DEF AttemptsUnique, Entries
<1>10. AnswerSent'
  BY <1>1, <1>4 DEF AnswerSent, At, Ev, No
<1> QED BY <1>7, <1>8, <1>9, <1>10 DEF Hands

\* Sending an attempt of one's own, if it happens, touches no other attempt in
\* anybody's hands.
LEMMA HandsSend ==
    ASSUME OutboxInv, TypeOK', BatchShape', NEW w \in Workers, disp[w].batch # <<>>,
           Reaches(w) \/ UNCHANGED sent,
           \A e \in Events : event'[e].attempt = event[e].attempt
    PROVE  /\ \A e \in Events : sent[e] \subseteq sent'[e] /\ sent'[e] \subseteq 1..event'[e].attempt
           /\ \A v \in Workers : \A i \in Entries(v) :
                /\ No(v, i) \notin sent[Ev(v, i)]
                /\ v # w \/ i # 1
                => No(v, i) \notin sent'[Ev(v, i)]
<1> USE DEF OutboxInv
<1>1. /\ Mine(w).event = Ev(w, 1) /\ Mine(w).attempt = No(w, 1) /\ 1 \in Entries(w)
      /\ Mine(w).event \in Events
  BY MineType DEF Ev, No, Entries
<1>2. No(w, 1) \in 1..event[Ev(w, 1)].attempt
  BY <1>1 DEF Issued
<1>3. CASE UNCHANGED sent
  BY <1>3 DEF Issued
<1>4. CASE Reaches(w)
  <2>1. /\ sent'[Ev(w, 1)] = sent[Ev(w, 1)] \cup {No(w, 1)}
        /\ \A e \in Events \ {Ev(w, 1)} : sent'[e] = sent[e]
    BY <1>1, <1>4, ReachesEffect
  <2>2. ASSUME NEW e \in Events
        PROVE  sent[e] \subseteq sent'[e] /\ sent'[e] \subseteq 1..event'[e].attempt
    BY <1>1, <1>2, <2>1 DEF Issued
  <2>3. ASSUME NEW v \in Workers, NEW i \in Entries(v),
               No(v, i) \notin sent[Ev(v, i)], v # w \/ i # 1
        PROVE  No(v, i) \notin sent'[Ev(v, i)]
    <3>1. Ev(v, i) \in Events
      BY EntryTypes
    <3>2. ~(Ev(v, i) = Ev(w, 1) /\ No(v, i) = No(w, 1))
      BY <1>1, <2>3, EntriesUnique
    <3> QED BY <2>1, <2>3, <3>1, <3>2
  <2> QED BY <2>2, <2>3
<1> QED BY <1>3, <1>4

\* A publication keeps the batches and turns its answer over to the mark.
LEMMA HandsPublish ==
    ASSUME OutboxInv, TypeOK', BatchShape', NEW w \in Workers, NEW outcome \in Outcomes,
           Publish(w, outcome)
    PROVE  Hands'
<1> USE DEF OutboxInv
<1>1. disp[w].batch # <<>>
  BY DEF Publish, BatchShape, Holding
<1>2. /\ disp' = [disp EXCEPT ![w].pc = "mark", ![w].answer = outcome]
      /\ event' = event
      /\ outcome # "published" \/ Reaches(w)
      /\ Reaches(w) \/ UNCHANGED sent
  BY DEF Publish
<1>3. \A v \in Workers : /\ disp'[v].batch = disp[v].batch
                         /\ v # w => disp'[v] = disp[v]
  BY <1>2 DEF TypeOK
<1>4. disp'[w].pc = "mark" /\ disp'[w].answer = outcome
  BY <1>2 DEF TypeOK
<1>5. /\ \A e \in Events : sent[e] \subseteq sent'[e] /\ sent'[e] \subseteq 1..event'[e].attempt
      /\ \A v \in Workers : \A i \in Entries(v) :
           /\ No(v, i) \notin sent[Ev(v, i)]
           /\ v # w \/ i # 1
           => No(v, i) \notin sent'[Ev(v, i)]
  BY <1>1, <1>2, HandsSend
<1>6. Issued'
  BY <1>2, <1>3, <1>5 DEF Issued, Ev, No, Entries
<1>7. BatchDistinct'
  BY <1>3 DEF BatchDistinct, Ev, Entries
<1>8. AttemptsUnique'
  <2>1. ASSUME NEW v \in Workers, NEW i \in Entries(v)', At(v, "publish")' \/ i > 1
        PROVE  disp'[v].batch[i].attempt \notin sent'[disp'[v].batch[i].event]
    <3>1. i \in Entries(v) /\ (v # w \/ i # 1) /\ (At(v, "publish") \/ i > 1)
      BY <1>3, <1>4, <2>1 DEF Entries, At
    <3>2. No(v, i) \notin sent[Ev(v, i)]
      BY <3>1 DEF AttemptsUnique, Entries, Ev, No
    <3> QED BY <1>3, <1>5, <3>1, <3>2 DEF Ev, No
  <2>2. ASSUME NEW v \in Workers, NEW u \in Workers,
               NEW i \in Entries(v)', NEW j \in Entries(u)',
               disp'[v].batch[i] = disp'[u].batch[j]
        PROVE  v = u /\ i = j
    <3>1. i \in Entries(v) /\ j \in Entries(u) /\ disp[v].batch[i] = disp[u].batch[j]
      BY <1>3, <2>2 DEF Entries
    <3> QED BY <3>1 DEF AttemptsUnique, Entries
  <2> QED BY <2>1, <2>2 DEF AttemptsUnique, Entries
<1>9. AnswerSent'
  <2>1. ASSUME NEW v \in Workers, At(v, "mark")', disp'[v].answer = "published"
        PROVE  No(v, 1)' \in sent'[Ev(v, 1)']
    <3>1. CASE v = w
      <4>1. Mine(w).event = Ev(w, 1) /\ Mine(w).attempt = No(w, 1)
        BY <1>1, MineType DEF Ev, No
      <4>2. No(w, 1) \in sent'[Ev(w, 1)]
        BY <1>1, <1>2, <1>4, <2>1, <3>1, <4>1, ReachesEffect
      <4> QED BY <1>3, <3>1, <4>2 DEF Ev, No
    <3>2. CASE v # w
      <4>1. No(v, 1) \in sent[Ev(v, 1)]
        BY <1>3, <2>1, <3>2 DEF AnswerSent, At
      <4>2. Ev(v, 1) \in Events
        BY <1>3, <2>1, <3>2, EntryTypes DEF At, BatchShape, Holding
      <4> QED BY <1>3, <1>5, <4>1, <4>2 DEF Ev, No
    <3> QED BY <3>1, <3>2
  <2> QED BY <2>1 DEF AnswerSent
<1> QED BY <1>6, <1>7, <1>8, <1>9 DEF Hands

\* Going on to the next event of the batch leaves the rest of it as it was.
LEMMA HandsProceed ==
    ASSUME OutboxInv, TypeOK', BatchShape', NEW w \in Workers, disp[w].batch # <<>>,
           Proceed(w), Reaches(w) \/ UNCHANGED sent,
           \A e \in Events : event'[e].attempt = event[e].attempt
    PROVE  Hands'
<1> USE DEF OutboxInv
<1>1. /\ \A v \in Workers \ {w} : disp'[v] = disp[v]
      /\ disp'[w].pc \in {"idle", "publish"}
      /\ \A i \in 1..Len(disp'[w].batch) :
           /\ i + 1 \in 1..Len(disp[w].batch)
           /\ disp'[w].batch[i] = disp[w].batch[i + 1]
  BY ProceedEffect
<1>2. /\ \A e \in Events : sent[e] \subseteq sent'[e] /\ sent'[e] \subseteq 1..event'[e].attempt
      /\ \A v \in Workers : \A i \in Entries(v) :
           /\ No(v, i) \notin sent[Ev(v, i)]
           /\ v # w \/ i # 1
           => No(v, i) \notin sent'[Ev(v, i)]
  BY HandsSend
<1> DEFINE was(v, i) == IF v = w THEN i + 1 ELSE i
<1>3. ASSUME NEW v \in Workers, NEW i \in Entries(v)'
      PROVE  /\ i \in Nat /\ i > 0
             /\ was(v, i) \in Entries(v)
             /\ disp'[v].batch[i] = disp[v].batch[was(v, i)]
             /\ v # w \/ was(v, i) > 1
  BY <1>1, <1>3 DEF Entries
<1>4. ASSUME NEW v \in Workers, NEW u \in Workers, NEW i \in Nat, NEW j \in Nat,
             v = u, was(v, i) = was(u, j)
      PROVE  i = j
  BY <1>4
<1> HIDE DEF was
<1>5. \A v \in Workers : \A i \in Entries(v)' :
        Ev(v, i)' = Ev(v, was(v, i)) /\ No(v, i)' = No(v, was(v, i))
  BY <1>3 DEF Ev, No
<1>6. Issued'
  <2>1. ASSUME NEW v \in Workers, NEW i \in Entries(v)'
        PROVE  (No(v, i) \in 1..event[Ev(v, i)].attempt)'
    <3>1. Ev(v, was(v, i)) \in Events
      BY <1>3, <2>1, EntryTypes
    <3> QED BY <1>3, <1>5, <2>1, <3>1 DEF Issued
  <2> QED BY <1>2, <2>1 DEF Issued
<1>7. ASSUME NEW v \in Workers, NEW u \in Workers, NEW i \in Entries(v)', NEW j \in Entries(u)',
             disp'[v].batch[i] = disp'[u].batch[j]
      PROVE  v = u /\ i = j
  <2>1. disp[v].batch[was(v, i)] = disp[u].batch[was(u, j)]
    BY <1>3, <1>7
  <2>2. v = u /\ was(v, i) = was(u, j)
    BY <1>3, <1>7, <2>1 DEF AttemptsUnique, Entries
  <2> QED BY <1>3, <1>4, <1>7, <2>2
<1>8. BatchDistinct'
  <2>1. ASSUME NEW v \in Workers, NEW i \in Entries(v)', NEW j \in Entries(v)',
               Ev(v, i)' = Ev(v, j)'
        PROVE  i = j
    <3>1. was(v, i) = was(v, j)
      BY <1>3, <1>5, <2>1 DEF BatchDistinct
    <3> QED BY <1>3, <1>4, <2>1, <3>1
  <2> QED BY <2>1 DEF BatchDistinct
<1>9. AttemptsUnique'
  <2>1. ASSUME NEW v \in Workers, NEW i \in Entries(v)', At(v, "publish")' \/ i > 1
        PROVE  disp'[v].batch[i].attempt \notin sent'[disp'[v].batch[i].event]
    <3>1. /\ was(v, i) \in Entries(v)
          /\ At(v, "publish") \/ was(v, i) > 1
          /\ v # w \/ was(v, i) # 1
      <4>1. CASE v = w
        BY <1>3, <2>1, <4>1
      <4>2. CASE v # w
        BY <1>1, <1>3, <2>1, <4>2 DEF was, At
      <4> QED BY <4>1, <4>2
    <3>2. No(v, was(v, i)) \notin sent[Ev(v, was(v, i))]
      BY <3>1 DEF AttemptsUnique, Entries, Ev, No
    <3>3. No(v, was(v, i)) \notin sent'[Ev(v, was(v, i))]
      BY <1>2, <3>1, <3>2
    <3> QED BY <1>5, <2>1, <3>3 DEF Ev, No
  <2> QED BY <1>7, <2>1 DEF AttemptsUnique, Entries
<1>10. AnswerSent'
  <2>1. ASSUME NEW v \in Workers, At(v, "mark")', disp'[v].answer = "published"
        PROVE  No(v, 1)' \in sent'[Ev(v, 1)']
    <3>1. v # w /\ disp'[v] = disp[v]
      BY <1>1, <2>1 DEF At
    <3>2. No(v, 1) \in sent[Ev(v, 1)] /\ Ev(v, 1) \in Events
      BY <2>1, <3>1, EntryTypes DEF AnswerSent, At, BatchShape, Holding
    <3> QED BY <1>2, <3>1, <3>2 DEF Ev, No
  <2> QED BY <2>1 DEF AnswerSent
<1> QED BY <1>6, <1>8, <1>9, <1>10 DEF Hands

\* What a mark writes: the row of its own event, which it owned.
LEMMA MarkEffect ==
    ASSUME OutboxInv, NEW w \in Workers, Mark(w)
    PROVE  LET m == Ev(w, 1)
           IN  /\ m \in Events /\ 1 \in Entries(w)
               /\ event[m].status = "publishing" /\ event[m].by = w
               /\ \A e \in Events \ {m} : event'[e] = event[e]
               /\ event'[m].attempt = event[m].attempt
               /\ event'[m].status \in {"published", "failed", "dead_letter"}
               /\ event'[m].status = "published" => disp[w].answer = "published"
               /\ event'[m].status = "failed" => event[m].attempt < MaxAttempts
               /\ event'[m].status \in Ended => event'[m].wait = 0 /\ event'[m].left = 0
<1> DEFINE m == Mine(w).event
<1>1. disp[w].batch # <<>>
  BY DEF Mark, OutboxInv, BatchShape, Holding
<1>2. m = Ev(w, 1) /\ m \in Events /\ 1 \in Entries(w)
  BY <1>1, MineType DEF Ev, Entries, OutboxInv
<1>3. event[m].status = "publishing" /\ event[m].by = w
  BY DEF Mark, Owns
<1>4. PICK wait \in 0..Backoff(event[m].attempt) :
        event' = [event EXCEPT ![m] = Marked(m, disp[w].answer, wait)]
  BY DEF Mark
<1>5. event \in [Events -> Rows] /\ event[m] \in Rows
  BY <1>2 DEF OutboxInv, TypeOK
<1> HIDE DEF m
<1>6. /\ \A e \in Events \ {m} : event'[e] = event[e]
      /\ event'[m] = Marked(m, disp[w].answer, wait)
  BY <1>2, <1>4, <1>5
<1>7. event[m].attempt \in Nat
  BY <1>5 DEF Rows
<1>8. /\ Marked(m, disp[w].answer, wait).attempt = event[m].attempt
      /\ Marked(m, disp[w].answer, wait).status =
            IF disp[w].answer = "published" THEN "published"
            ELSE IF disp[w].answer = "rejected" \/ event[m].attempt >= MaxAttempts
                 THEN "dead_letter" ELSE "failed"
      /\ Marked(m, disp[w].answer, wait).left = 0
  BY <1>5 DEF Marked, Rows
<1>9. event'[m].status \in Ended => event'[m].wait = 0
  BY <1>2, <1>3, <1>5, <1>6, AttemptAssumption DEF OutboxInv, Settled, Marked, Rows
<1> QED BY <1>2, <1>3, <1>6, <1>7, <1>8, <1>9, AttemptAssumption

\* What commits, retry_due and the clock do to a row.
LEMMA RowEffects ==
    ASSUME TypeOK, NEW e \in Events
    PROVE  /\ \A r \in asked : DoCommit(r) =>
                \/ event'[e] = event[e]
                \/ /\ event[e].status = "none" /\ event'[e].status = "pending"
                   /\ event'[e].attempt = event[e].attempt
           /\ \A w \in Workers : RetryDue(w) =>
                \/ event'[e] = event[e]
                \/ /\ event[e].status = "failed" /\ event'[e].status = "pending"
                   /\ event'[e].attempt = event[e].attempt
           /\ Tick =>
                /\ event'[e].status = event[e].status
                /\ event'[e].attempt = event[e].attempt
<1>1. event \in [Events -> Rows] /\ event[e] \in Rows
  BY DEF TypeOK
<1>2. ASSUME NEW r \in asked, DoCommit(r)
      PROVE  \/ event'[e] = event[e]
             \/ /\ event[e].status = "none" /\ event'[e].status = "pending"
                /\ event'[e].attempt = event[e].attempt
  <2> DEFINE new == [event[e] EXCEPT !.status = "pending", !.payload = r.payload]
  <2>1. r.event \in Events
    BY DEF TypeOK
  <2>2. event'[e] = event[e] \/ (event[e].status = "none" /\ event'[e] = new)
    BY <1>1, <1>2, <2>1 DEF DoCommit
  <2>3. new.status = "pending" /\ new.attempt = event[e].attempt
    BY <1>1 DEF Rows
  <2> QED BY <2>2, <2>3
<1>3. ASSUME NEW w \in Workers, RetryDue(w)
      PROVE  \/ event'[e] = event[e]
             \/ /\ event[e].status = "failed" /\ event'[e].status = "pending"
                /\ event'[e].attempt = event[e].attempt
  <2> DEFINE new == [event[e] EXCEPT !.status = "pending", !.left = 0, !.by = NoWorker]
  <2>1. event'[e] = event[e] \/ (event[e].status = "failed" /\ event'[e] = new)
    BY <1>3 DEF RetryDue
  <2>2. new.status = "pending" /\ new.attempt = event[e].attempt
    BY <1>1 DEF Rows
  <2> QED BY <2>1, <2>2
<1>4. ASSUME Tick
      PROVE  /\ event'[e].status = event[e].status
             /\ event'[e].attempt = event[e].attempt
  <2>1. event'[e] = [event[e] EXCEPT !.wait = Dec(@), !.left = Dec(@)]
    BY <1>4 DEF Tick
  <2> QED BY <1>1, <2>1 DEF Rows
<1> QED BY <1>2, <1>3, <1>4

\* Every step keeps what is known of the attempts in the dispatchers' hands.
LEMMA HandsStep ==
    ASSUME OutboxInv, [Next]_vars
    PROVE  Hands'
<1>0. TypeOK' /\ BatchShape' /\ TypeOK /\ BatchShape
  BY TypeStep DEF OutboxInv
<1>1. ASSUME NEW c \in Callers, NEW e \in Events, NEW p \in Payloads, AskCommit(c, e, p)
      PROVE  Hands'
  BY <1>0, <1>1, HandsKept DEF AskCommit, At
<1>2. ASSUME NEW r \in asked, DoCommit(r)
      PROVE  Hands'
  <2>1. \A e \in Events : event'[e].attempt = event[e].attempt
    BY <1>0, <1>2, RowEffects
  <2> QED BY <1>0, <1>2, <2>1, HandsKept DEF DoCommit, At
<1>3. ASSUME NEW w \in Workers, RetryDue(w)
      PROVE  Hands'
  <2>1. \A e \in Events : event'[e].attempt = event[e].attempt
    BY <1>0, <1>3, RowEffects
  <2>2. \A v \in Workers :
            /\ disp'[v].batch = disp[v].batch
            /\ At(v, "publish")' => At(v, "publish")
            /\ At(v, "mark")' => At(v, "mark") /\ disp'[v].answer = disp[v].answer
    <3>1. disp' = [disp EXCEPT ![w].pc = "claim"]
      BY <1>3 DEF RetryDue
    <3>2. disp'[w].batch = disp[w].batch /\ disp'[w].pc = "claim"
      BY <1>0, <3>1 DEF TypeOK
    <3>3. \A v \in Workers \ {w} : disp'[v] = disp[v]
      BY <1>0, <3>1 DEF TypeOK
    <3> QED BY <3>2, <3>3 DEF At
  <2> QED BY <1>0, <1>3, <2>1, <2>2, HandsKept DEF RetryDue
<1>4. ASSUME NEW w \in Workers, NEW n \in 1..BatchSize, Claim(w, n)
      PROVE  Hands'
  BY <1>0, <1>4, HandsClaim
<1>5. ASSUME NEW w \in Workers, NEW outcome \in Outcomes, Publish(w, outcome)
      PROVE  Hands'
  BY <1>0, <1>5, HandsPublish
<1>6. ASSUME NEW w \in Workers, PublishUnknown(w)
      PROVE  Hands'
  BY <1>0, <1>6, HandsProceed DEF PublishUnknown, BatchShape, Holding
<1>7. ASSUME NEW w \in Workers, Mark(w)
      PROVE  Hands'
  <2>1. \A e \in Events : event'[e].attempt = event[e].attempt
    BY <1>7, MarkEffect
  <2> QED BY <1>0, <1>7, <2>1, HandsProceed DEF Mark, BatchShape, Holding
<1>8. ASSUME NEW w \in Workers, MarkLost(w) \/ Crash(w) \/ Restart(w)
      PROVE  Hands'
  <2>1. PICK pc \in {"idle", "down"} :
          disp' = [disp EXCEPT ![w] = [pc |-> pc, batch |-> <<>>, answer |-> "none"]]
    BY <1>8 DEF MarkLost, Crash, Restart, Idle
  <2>2. \A v \in Workers :
            /\ disp'[v].batch \in {disp[v].batch, <<>>}
            /\ At(v, "publish")' => At(v, "publish")
            /\ At(v, "mark")' => At(v, "mark") /\ disp'[v].answer = disp[v].answer
    BY <1>0, <2>1 DEF TypeOK, At
  <2>3. event' = event /\ sent' = sent
    BY <1>8 DEF MarkLost, Crash, Restart
  <2> QED BY <1>0, <2>2, <2>3, HandsKept
<1>9. CASE Tick
  <2>1. \A e \in Events : event'[e].attempt = event[e].attempt
    BY <1>0, <1>9, RowEffects
  <2> QED BY <1>0, <1>9, <2>1, HandsKept DEF Tick, At
<1>10. CASE UNCHANGED vars
  BY <1>0, <1>10, HandsKept DEF vars, At
<1> QED BY <1>1, <1>2, <1>3, <1>4, <1>5, <1>6, <1>7, <1>8, <1>9, <1>10 DEF Next, Dispatch

\* Every step keeps that published events were sent, and that only what has
\* been handed out is in flight or ended.
LEMMA StatusStep ==
    ASSUME OutboxInv, [Next]_vars
    PROVE  PublishedSent' /\ HandedOut'
<1> USE DEF OutboxInv
<1>1. ASSUME NEW c \in Callers, NEW e \in Events, NEW p \in Payloads, AskCommit(c, e, p)
      PROVE  PublishedSent' /\ HandedOut'
  BY <1>1 DEF AskCommit, PublishedSent, HandedOut
<1>2. ASSUME NEW r \in asked, DoCommit(r)
      PROVE  PublishedSent' /\ HandedOut'
  <2>1. sent' = sent
    BY <1>2 DEF DoCommit
  <2> QED BY <1>2, <2>1, RowEffects DEF PublishedSent, HandedOut
<1>3. ASSUME NEW w \in Workers, RetryDue(w)
      PROVE  PublishedSent' /\ HandedOut'
  <2>1. sent' = sent
    BY <1>3 DEF RetryDue
  <2> QED BY <1>3, <2>1, RowEffects DEF PublishedSent, HandedOut
<1>4. ASSUME NEW w \in Workers, NEW n \in 1..BatchSize, Claim(w, n)
      PROVE  PublishedSent' /\ HandedOut'
  <2>1. PICK S \in SUBSET Events :
          /\ \A e \in S : Claimable(e)
          /\ event' = [e \in Events |-> IF e \in S THEN Locked(e, w) ELSE event[e]]
    BY <1>4, ClaimLocks
  <2>2. ASSUME NEW e \in Events
        PROVE  Locked(e, w).status = "publishing" /\ Locked(e, w).attempt > 0
    BY LockedFields
  <2>3. sent' = sent
    BY <1>4 DEF Claim
  <2> QED BY <2>1, <2>2, <2>3 DEF PublishedSent, HandedOut
<1>5. ASSUME NEW w \in Workers,
             (\E outcome \in Outcomes : Publish(w, outcome)) \/ PublishUnknown(w)
      PROVE  PublishedSent' /\ HandedOut'
  <2>1. disp[w].batch # <<>>
    BY <1>5 DEF Publish, PublishUnknown, BatchShape, Holding
  <2>2. event' = event /\ (Reaches(w) \/ UNCHANGED sent)
    BY <1>5 DEF Publish, PublishUnknown
  <2>3. \A e \in Events : sent[e] \subseteq sent'[e]
    BY <2>1, <2>2, ReachesEffect
  <2> QED BY <2>2, <2>3 DEF PublishedSent, HandedOut
<1>6. ASSUME NEW w \in Workers, Mark(w)
      PROVE  PublishedSent' /\ HandedOut'
  <2>1. sent' = sent /\ At(w, "mark")
    BY <1>6 DEF Mark
  <2>2. disp[w].answer = "published" => sent[Ev(w, 1)] # {}
    BY <2>1 DEF AnswerSent
  <2> QED BY <1>6, <2>1, <2>2, MarkEffect DEF PublishedSent, HandedOut
<1>7. ASSUME NEW w \in Workers, MarkLost(w) \/ Crash(w) \/ Restart(w)
      PROVE  PublishedSent' /\ HandedOut'
  BY <1>7 DEF MarkLost, Crash, Restart, PublishedSent, HandedOut
<1>8. CASE Tick
  <2>1. sent' = sent
    BY <1>8 DEF Tick
  <2> QED BY <1>8, <2>1, RowEffects DEF PublishedSent, HandedOut
<1>9. CASE UNCHANGED vars
  BY <1>9 DEF vars, PublishedSent, HandedOut
<1> QED BY <1>1, <1>2, <1>3, <1>4, <1>5, <1>6, <1>7, <1>8, <1>9 DEF Next, Dispatch

\* Every step keeps ended rows settled.
LEMMA SettledStep ==
    ASSUME OutboxInv, [Next]_vars
    PROVE  Settled'
<1> USE DEF OutboxInv
<1>1. CASE event' = event
  BY <1>1 DEF Settled
<1>2. ASSUME NEW r \in asked, DoCommit(r)
      PROVE  Settled'
  BY <1>2, RowEffects DEF Settled
<1>3. ASSUME NEW w \in Workers, RetryDue(w)
      PROVE  Settled'
  BY <1>3, RowEffects DEF Settled
<1>4. ASSUME NEW w \in Workers, NEW n \in 1..BatchSize, Claim(w, n)
      PROVE  Settled'
  <2>1. PICK S \in SUBSET Events :
          /\ \A e \in S : Claimable(e)
          /\ event' = [e \in Events |-> IF e \in S THEN Locked(e, w) ELSE event[e]]
    BY <1>4, ClaimLocks
  <2>2. ASSUME NEW e \in S
        PROVE  event'[e].status = "publishing" /\ event'[e].wait = 0
    <3>1. event[e] \in Rows /\ event[e].wait = 0
      BY <2>1 DEF TypeOK, Claimable, Settled
    <3>2. Locked(e, w).wait = event[e].wait
      BY <3>1 DEF Locked, Rows
    <3> QED BY <2>1, <3>1, <3>2, LockedFields
  <2> QED BY <2>1, <2>2 DEF Settled
<1>5. ASSUME NEW w \in Workers, Mark(w)
      PROVE  Settled'
  BY <1>5, MarkEffect DEF Settled
<1>6. CASE Tick
  <2> SUFFICES ASSUME NEW e \in Events
               PROVE  /\ event'[e].status = event[e].status
                      /\ event[e].wait = 0 => event'[e].wait = 0
                      /\ event[e].left = 0 => event'[e].left = 0
    BY DEF Settled
  <2>1. event'[e] = [event[e] EXCEPT !.wait = Dec(event[e].wait), !.left = Dec(event[e].left)]
    BY <1>6 DEF Tick
  <2>2. event[e] \in Rows
    BY DEF TypeOK
  <2> QED BY <2>1, <2>2 DEF Rows, Dec
<1>7. ASSUME NEW w \in Workers,
             \/ \E outcome \in Outcomes : Publish(w, outcome)
             \/ PublishUnknown(w) \/ MarkLost(w) \/ Crash(w) \/ Restart(w)
      PROVE  event' = event
  BY <1>7 DEF Publish, PublishUnknown, MarkLost, Crash, Restart
<1>8. ASSUME NEW c \in Callers, NEW e \in Events, NEW p \in Payloads, AskCommit(c, e, p)
      PROVE  event' = event
  BY <1>8 DEF AskCommit
<1>9. UNCHANGED vars => event' = event
  BY DEF vars
<1> QED BY <1>1, <1>2, <1>3, <1>4, <1>5, <1>6, <1>7, <1>8, <1>9 DEF Next, Dispatch

\* When the trouble grows and no attempt is added, the budget is kept.
LEMMA BudgetGrows ==
    ASSUME TypeOK, BudgetKept, trouble' = trouble + 1,
           \A e \in Events : event'[e].attempt = event[e].attempt
    PROVE  BudgetKept'
<1>1. trouble \in Nat /\ MaxAttempts \in Nat /\ \A e \in Events : event[e].attempt \in Nat
  BY AttemptAssumption DEF TypeOK, Rows
<1>2. ASSUME NEW e \in Events
      PROVE  event'[e].attempt < MaxAttempts + trouble'
  BY <1>1 DEF BudgetKept
<1> QED BY <1>1, <1>2 DEF BudgetKept

\* What leaves the events in flight and the batches alone, or drops a batch
\* that is not fresh any more, keeps the budget.
LEMMA BudgetSame ==
    ASSUME TypeOK, BudgetKept, trouble' = trouble,
           \A e \in Events :
                \/ event'[e] = event[e]
                \/ /\ event'[e].attempt = event[e].attempt
                   /\ event'[e].status \in {"none", "pending", "failed"}
                   /\ event[e].status \in {"none", "pending", "failed"},
           \A w \in Workers : Fresh(w) => disp'[w].batch = disp[w].batch
                                          \/ disp[w].batch = <<>>
    PROVE  BudgetKept'
<1> SUFFICES ASSUME NEW e \in Events
             PROVE  /\ event'[e].attempt <= MaxAttempts + trouble
                    /\ event'[e].status \in {"none", "pending", "failed"}
                        => event'[e].attempt < MaxAttempts + trouble
                    /\ event'[e].status = "publishing"
                       /\ event'[e].attempt = MaxAttempts + trouble
                        => \E w \in Workers :
                             Fresh(w)' /\ \E i \in Entries(w)' : Ev(w, i)' = e
  BY DEF BudgetKept
<1>1. event'[e].attempt = event[e].attempt
  OBVIOUS
<1>2. event'[e].status \in {"none", "pending", "failed"}
        => event[e].status \in {"none", "pending", "failed"}
  OBVIOUS
<1>3. ASSUME event'[e].status = "publishing", event'[e].attempt = MaxAttempts + trouble
      PROVE  \E w \in Workers : Fresh(w)' /\ \E i \in Entries(w)' : Ev(w, i)' = e
  <2>1. event'[e] = event[e]
    BY <1>3
  <2>2. PICK w \in Workers : Fresh(w) /\ \E i \in Entries(w) : Ev(w, i) = e
    BY <1>3, <2>1 DEF BudgetKept
  <2>3. disp'[w].batch = disp[w].batch
    <3>1. Len(<<>>) = 0 /\ 1..0 = {}
      OBVIOUS
    <3> QED BY <2>2, <3>1 DEF Entries
  <2>4. Fresh(w)'
    <3>1. ASSUME NEW i \in Entries(w)
          PROVE  event'[Ev(w, i)] = event[Ev(w, i)]
      <4>1. Ev(w, i) \in Events
        BY EntryTypes
      <4> QED BY <2>2, <4>1 DEF Fresh
    <3>2. Entries(w)' = Entries(w) /\ \A i \in Entries(w) : Ev(w, i)' = Ev(w, i)
      BY <2>3 DEF Entries, Ev
    <3> QED BY <2>2, <3>1, <3>2 DEF Fresh
  <2> QED BY <2>2, <2>3, <2>4 DEF Entries, Ev
<1> QED BY <1>1, <1>2, <1>3 DEF BudgetKept

\* A claim replaces no attempt that is still in fresh hands.
LEMMA BudgetClaim ==
    ASSUME OutboxInv, NEW w \in Workers, NEW n \in 1..BatchSize, Claim(w, n)
    PROVE  BudgetKept'
<1> USE DEF OutboxInv
<1>1. PICK S \in SUBSET Events :
        /\ \A e \in S : Claimable(e)
        /\ event' = [e \in Events |-> IF e \in S THEN Locked(e, w) ELSE event[e]]
        /\ \A v \in Workers \ {w} : disp'[v] = disp[v]
        /\ \A e \in S : \E i \in 1..Len(disp'[w].batch) : disp'[w].batch[i].event = e
        /\ \A i \in 1..Len(disp'[w].batch) : disp'[w].batch[i].event \in S
  BY ClaimEffect
<1>2. trouble' = trouble /\ At(w, "claim")
  BY DEF Claim
<1>3. trouble \in Nat /\ \A e \in Events : event[e].attempt \in Nat
  BY DEF TypeOK, Rows
<1>4. \A e \in S : /\ event'[e].status = "publishing" /\ event'[e].by = w
                   /\ event'[e].left = LeaseTicks
                   /\ event'[e].attempt = event[e].attempt + 1
  BY <1>1, LockedFields
<1>5. ASSUME NEW v \in Workers, Fresh(v), NEW i \in Entries(v)
      PROVE  Ev(v, i) \in Events \ S
  <2>1. Ev(v, i) \in Events
    BY EntryTypes
  <2> QED BY <1>1, <1>5, <2>1, LeaseAssumption DEF Fresh, Claimable
<1>6. ASSUME NEW e \in S
      PROVE  event[e].attempt < MaxAttempts + trouble
  <2>1. ~\E v \in Workers : Fresh(v) /\ \E i \in Entries(v) : Ev(v, i) = e
    BY <1>5
  <2>2. event[e].status \in {"pending", "publishing"}
    BY <1>1 DEF Claimable
  <2> QED BY <1>3, <2>1, <2>2, AttemptAssumption DEF BudgetKept
<1>7. Fresh(w)'
  BY <1>1, <1>4 DEF Fresh, Entries, Ev
<1> SUFFICES ASSUME NEW e \in Events
             PROVE  /\ event'[e].attempt <= MaxAttempts + trouble
                    /\ event'[e].status \in {"none", "pending", "failed"}
                        => event'[e].attempt < MaxAttempts + trouble
                    /\ event'[e].status = "publishing"
                       /\ event'[e].attempt = MaxAttempts + trouble
                        => \E v \in Workers :
                             Fresh(v)' /\ \E i \in Entries(v)' : Ev(v, i)' = e
  BY <1>2 DEF BudgetKept
<1>8. CASE e \in S
  <2>1. \E i \in Entries(w)' : Ev(w, i)' = e
    BY <1>1, <1>8 DEF Entries, Ev
  <2> QED BY <1>3, <1>4, <1>6, <1>7, <1>8, <2>1, AttemptAssumption
<1>9. CASE e \notin S
  <2>1. event'[e] = event[e]
    BY <1>1, <1>9
  <2>2. ASSUME event[e].status = "publishing", event[e].attempt = MaxAttempts + trouble
        PROVE  \E v \in Workers : Fresh(v)' /\ \E i \in Entries(v)' : Ev(v, i)' = e
    <3>1. PICK v \in Workers : Fresh(v) /\ \E i \in Entries(v) : Ev(v, i) = e
      BY <2>2 DEF BudgetKept
    <3>2. v # w
      <4>1. disp[w].batch = <<>>
        BY <1>2 DEF BatchShape, Holding, At
      <4>2. Len(<<>>) = 0 /\ 1..0 = {}
        OBVIOUS
      <4> QED BY <3>1, <4>1, <4>2 DEF Entries
    <3>3. disp'[v] = disp[v]
      BY <1>1, <3>2
    <3>4. \A i \in Entries(v) : event'[Ev(v, i)] = event[Ev(v, i)]
      BY <1>1, <1>5, <3>1
    <3>5. Entries(v)' = Entries(v) /\ \A i \in Entries(v) : Ev(v, i)' = Ev(v, i)
      BY <3>3 DEF Entries, Ev
    <3>6. Fresh(v)'
      BY <3>1, <3>4, <3>5 DEF Fresh
    <3> QED BY <3>1, <3>5, <3>6
  <2> QED BY <2>1, <2>2 DEF BudgetKept
<1> QED BY <1>8, <1>9

\* A mark ends or reopens one event of its batch and leaves the others fresh.
LEMMA BudgetMark ==
    ASSUME OutboxInv, NEW w \in Workers, Mark(w)
    PROVE  BudgetKept'
<1> USE DEF OutboxInv
<1> DEFINE m == Ev(w, 1)
<1>1. /\ m \in Events /\ 1 \in Entries(w)
      /\ event[m].status = "publishing" /\ event[m].by = w
      /\ \A e \in Events \ {m} : event'[e] = event[e]
      /\ event'[m].attempt = event[m].attempt
      /\ event'[m].status \in {"published", "failed", "dead_letter"}
      /\ event'[m].status = "failed" => event[m].attempt < MaxAttempts
  BY MarkEffect
<1>2. trouble' = trouble
  BY DEF Mark
<1>3. trouble \in Nat /\ \A e \in Events : event[e].attempt \in Nat
  BY DEF TypeOK, Rows
<1>4. /\ \A v \in Workers \ {w} : disp'[v] = disp[v]
      /\ Len(disp'[w].batch) = Len(disp[w].batch) - 1
      /\ \A i \in 1..Len(disp'[w].batch) :
           /\ i + 1 \in 1..Len(disp[w].batch)
           /\ disp'[w].batch[i] = disp[w].batch[i + 1]
  BY ProceedEffect DEF Mark, BatchShape, Holding
<1> HIDE DEF m
<1>5. ASSUME NEW e \in Events \ {m}, event[e].status = "publishing",
             event[e].attempt = MaxAttempts + trouble
      PROVE  \E v \in Workers : Fresh(v)' /\ \E i \in Entries(v)' : Ev(v, i)' = e
  <2>1. PICK v \in Workers : Fresh(v) /\ \E i \in Entries(v) : Ev(v, i) = e
    BY <1>5 DEF BudgetKept
  <2>2. PICK i \in Entries(v) : Ev(v, i) = e
    BY <2>1
  <2>3. CASE v = w
    <3>1. i # 1
      BY <1>5, <2>2, <2>3 DEF m
    <3>2. i - 1 \in Entries(w)' /\ Ev(w, i - 1)' = e
      <4>1. i \in 1..Len(disp[w].batch) /\ Len(disp[w].batch) \in Nat
        BY <2>2, <2>3, EntryTypes DEF Entries
      <4>2. i - 1 \in 1..Len(disp'[w].batch)
        BY <1>4, <3>1, <4>1
      <4> QED BY <1>4, <2>2, <2>3, <4>1, <4>2 DEF Entries, Ev
    <3>3. ASSUME NEW j \in Entries(w)'
          PROVE  /\ j + 1 \in Entries(w) /\ Ev(w, j)' = Ev(w, j + 1)
                 /\ Ev(w, j + 1) \in Events \ {m}
      <4>1. j + 1 \in Entries(w) /\ Ev(w, j)' = Ev(w, j + 1)
        BY <1>4, <3>3 DEF Entries, Ev
      <4>2. Ev(w, j + 1) # m
        BY <1>1, <3>3, <4>1 DEF BatchDistinct, m, Entries
      <4> QED BY <4>1, <4>2, EntryTypes
    <3>4. Fresh(w)'
      BY <1>1, <2>1, <2>3, <3>3 DEF Fresh
    <3> QED BY <3>2, <3>4
  <2>4. CASE v # w
    <3>1. \A j \in Entries(v) : Ev(v, j) \in Events \ {m}
      BY <1>1, <2>1, <2>4, EntryTypes DEF Fresh
    <3>2. disp'[v] = disp[v]
      BY <1>4, <2>4
    <3>3. Fresh(v)'
      BY <1>1, <2>1, <3>1, <3>2 DEF Fresh, Entries, Ev
    <3> QED BY <2>2, <3>2, <3>3 DEF Entries, Ev
  <2> QED BY <2>3, <2>4
<1>6. ASSUME NEW e \in Events
      PROVE  /\ event'[e].attempt <= MaxAttempts + trouble
             /\ event'[e].status \in {"none", "pending", "failed"}
                 => event'[e].attempt < MaxAttempts + trouble
             /\ event'[e].status = "publishing" /\ event'[e].attempt = MaxAttempts + trouble
                 => \E v \in Workers : Fresh(v)' /\ \E i \in Entries(v)' : Ev(v, i)' = e
  <2>1. CASE e = m
    BY <1>1, <1>3, <2>1, AttemptAssumption DEF BudgetKept
  <2>2. CASE e # m
    BY <1>1, <1>5, <2>2 DEF BudgetKept
  <2> QED BY <2>1, <2>2
<1> QED BY <1>2, <1>6 DEF BudgetKept

\* Every step keeps the budget of attempts.
LEMMA BudgetStep ==
    ASSUME OutboxInv, [Next]_vars
    PROVE  BudgetKept'
<1>0. TypeOK /\ BatchShape /\ BudgetKept
  BY DEF OutboxInv
<1>1. ASSUME NEW c \in Callers, NEW e \in Events, NEW p \in Payloads, AskCommit(c, e, p)
      PROVE  BudgetKept'
  <2>1. event' = event /\ disp' = disp
    BY <1>1 DEF AskCommit
  <2>2. trouble' = trouble \/ trouble' = trouble + 1
    BY <1>1, Zenon DEF AskCommit
  <2> QED BY <1>0, <2>1, <2>2, BudgetGrows, BudgetSame
<1>2. ASSUME NEW r \in asked, DoCommit(r)
      PROVE  BudgetKept'
  <2>1. disp' = disp /\ trouble' = trouble
    BY <1>2 DEF DoCommit
  <2> QED BY <1>0, <1>2, <2>1, RowEffects, BudgetSame
<1>3. ASSUME NEW w \in Workers, RetryDue(w)
      PROVE  BudgetKept'
  <2>1. trouble' = trouble
    BY <1>3 DEF RetryDue
  <2>2. \A v \in Workers : disp'[v].batch = disp[v].batch
    BY <1>0, <1>3 DEF RetryDue, TypeOK
  <2> QED BY <1>0, <1>3, <2>1, <2>2, RowEffects, BudgetSame
<1>4. ASSUME NEW w \in Workers, NEW n \in 1..BatchSize, Claim(w, n)
      PROVE  BudgetKept'
  BY <1>4, BudgetClaim
<1>5. ASSUME NEW w \in Workers, NEW outcome \in Outcomes, Publish(w, outcome)
      PROVE  BudgetKept'
  <2>1. event' = event /\ trouble' = trouble
    BY <1>5 DEF Publish
  <2>2. \A v \in Workers : disp'[v].batch = disp[v].batch
    BY <1>0, <1>5 DEF Publish, TypeOK
  <2> QED BY <1>0, <2>1, <2>2, BudgetSame
<1>6. ASSUME NEW w \in Workers, PublishUnknown(w) \/ Crash(w)
      PROVE  BudgetKept'
  <2>1. event' = event /\ trouble' = trouble + 1
    BY <1>6 DEF PublishUnknown, Crash
  <2> QED BY <1>0, <2>1, BudgetGrows
<1>7. ASSUME NEW w \in Workers, Mark(w)
      PROVE  BudgetKept'
  BY <1>7, BudgetMark
<1>8. ASSUME NEW w \in Workers, MarkLost(w)
      PROVE  BudgetKept'
  <2>1. event' = event /\ trouble' = trouble
    BY <1>8 DEF MarkLost
  <2>2. \A v \in Workers \ {w} : disp'[v] = disp[v]
    BY <1>0, <1>8 DEF MarkLost, TypeOK
  <2>3. ~Fresh(w)
    <3>1. disp[w].batch # <<>>
      BY <1>0, <1>8 DEF MarkLost, BatchShape, Holding
    <3>2. Mine(w).event = Ev(w, 1) /\ 1 \in Entries(w)
      BY <1>0, <3>1, MineType DEF Ev, Entries
    <3> QED BY <1>8, <3>2 DEF MarkLost, Owns, Fresh
  <2> QED BY <1>0, <2>1, <2>2, <2>3, BudgetSame
<1>9. ASSUME NEW w \in Workers, Restart(w)
      PROVE  BudgetKept'
  <2>1. event' = event /\ trouble' = trouble
    BY <1>9 DEF Restart
  <2>2. \A v \in Workers \ {w} : disp'[v] = disp[v]
    BY <1>0, <1>9 DEF Restart, TypeOK
  <2>3. disp[w].batch = <<>>
    BY <1>0, <1>9 DEF Restart, BatchShape, Holding, At
  <2> QED BY <1>0, <2>1, <2>2, <2>3, BudgetSame
<1>10. CASE Tick
  <2>1. \A e \in Events : /\ event'[e].status = event[e].status
                          /\ event'[e].attempt = event[e].attempt
    BY <1>0, <1>10, RowEffects
  <2>2. CASE \E w \in Workers : disp[w].batch # <<>>
    <3>1. trouble' = trouble + 1
      BY <1>10, <2>2, Zenon DEF Tick
    <3> QED BY <1>0, <2>1, <3>1, BudgetGrows
  <2>3. CASE ~\E w \in Workers : disp[w].batch # <<>>
    <3>1. trouble' = trouble
      BY <1>10, <2>3, Zenon DEF Tick
    <3>2. \A w \in Workers : Entries(w) = {}
      <4>1. Len(<<>>) = 0 /\ 1..0 = {}
        OBVIOUS
      <4> QED BY <2>3, <4>1 DEF Entries
    <3>3. \A e \in Events : ~(event[e].status = "publishing"
                              /\ event[e].attempt = MaxAttempts + trouble)
      BY <1>0, <3>2 DEF BudgetKept
    <3> QED BY <1>0, <2>1, <3>1, <3>3 DEF BudgetKept
  <2> QED BY <2>2, <2>3
<1>11. CASE UNCHANGED vars
  BY <1>0, <1>11, BudgetSame DEF vars
<1> QED BY <1>1, <1>2, <1>3, <1>4, <1>5, <1>6, <1>7, <1>8, <1>9, <1>10, <1>11 DEF Next, Dispatch

-----------------------------------------------------------------------------
(* The theorems *)

\* OutboxInv is inductive: it holds of an empty table and every operation,
\* crash and tick keeps it.
THEOREM OutboxInvariant == Spec => []OutboxInv
<1>1. Init => OutboxInv
  <2> SUFFICES ASSUME Init PROVE OutboxInv
    OBVIOUS
  <2>1. TypeOK /\ BatchShape
    BY InitTypes
  <2>2. \A w \in Workers : disp[w].batch = <<>> /\ disp[w].pc = "idle"
    BY DEF Init, Idle
  <2>3. \A w \in Workers : Entries(w) = {} /\ 1..Len(disp[w].batch) = {}
    <3>1. Len(<<>>) = 0 /\ 1..0 = {}
      OBVIOUS
    <3> QED BY <2>2, <3>1 DEF Entries
  <2>4. \A e \in Events : event[e].status = "none" /\ event[e].attempt = 0 /\ sent[e] = {}
    BY DEF Init, NoRow
  <2>5. trouble = 0
    BY DEF Init
  <2> QED BY <2>1, <2>2, <2>3, <2>4, <2>5, AttemptAssumption
          DEF OutboxInv, Issued, BatchDistinct, AttemptsUnique, AnswerSent, PublishedSent,
              HandedOut, Settled, BudgetKept, At
<1>2. OutboxInv /\ [Next]_vars => OutboxInv'
  BY TypeStep, HandsStep, StatusStep, SettledStep, BudgetStep DEF OutboxInv, Hands
<1> QED BY <1>1, <1>2, PTL DEF Spec

\* An event marked published has reached the receiver, whatever crashes, lost
\* leases and late marks there were.
THEOREM PublishedSentAlways == Spec => []PublishedSent
<1>1. OutboxInv => PublishedSent
  BY DEF OutboxInv
<1> QED BY <1>1, OutboxInvariant, PTL

\* An attempt is a permission to send once, and nobody else has it.
THEOREM AttemptsUniqueAlways == Spec => []AttemptsUnique
<1>1. OutboxInv => AttemptsUnique
  BY DEF OutboxInv
<1> QED BY <1>1, OutboxInvariant, PTL

\* An event is handed out beyond max_attempts only as often as crashes, unknown
\* results and slow dispatchers have left attempts unmarked.
THEOREM AttemptsBoundedAlways == Spec => []AttemptsBounded
<1>1. OutboxInv => AttemptsBounded
  BY DEF OutboxInv, BudgetKept, AttemptsBounded
<1> QED BY <1>1, OutboxInvariant, PTL

\* What ended is not written again, by a late mark least of all.
THEOREM EndedFrozenAlways == Spec => EndedFrozen
<1>1. OutboxInv /\ [Next]_vars =>
        \A e \in Events : event[e].status \in Ended => event'[e] = event[e]
  <2> SUFFICES ASSUME OutboxInv, [Next]_vars, NEW e \in Events, event[e].status \in Ended
               PROVE  event'[e] = event[e]
    OBVIOUS
  <2>0. TypeOK
    BY DEF OutboxInv
  <2>1. ASSUME NEW r \in asked, DoCommit(r)
        PROVE  event'[e] = event[e]
    BY <2>0, <2>1, RowEffects
  <2>2. ASSUME NEW w \in Workers, RetryDue(w)
        PROVE  event'[e] = event[e]
    BY <2>0, <2>2, RowEffects
  <2>3. ASSUME NEW w \in Workers, NEW n \in 1..BatchSize, Claim(w, n)
        PROVE  event'[e] = event[e]
    BY <2>3, ClaimLocks DEF Claimable, Ended
  <2>4. ASSUME NEW w \in Workers, Mark(w)
        PROVE  event'[e] = event[e]
    BY <2>4, MarkEffect
  <2>5. CASE Tick
    <3>1. event'[e] = [event[e] EXCEPT !.wait = Dec(event[e].wait), !.left = Dec(event[e].left)]
      BY <2>5 DEF Tick
    <3>2. event[e] \in Rows /\ event[e].wait = 0 /\ event[e].left = 0
      BY DEF OutboxInv, TypeOK, Settled
    <3>3. event'[e] = [event[e] EXCEPT !.wait = 0, !.left = 0]
      BY <3>1, <3>2 DEF Dec
    <3>4. \A r \in Rows : r.wait = 0 /\ r.left = 0 => [r EXCEPT !.wait = 0, !.left = 0] = r
      BY DEF Rows
    <3> QED BY <3>2, <3>3, <3>4
  <2>6. ASSUME NEW w \in Workers,
               \/ \E outcome \in Outcomes : Publish(w, outcome)
               \/ PublishUnknown(w) \/ MarkLost(w) \/ Crash(w) \/ Restart(w)
        PROVE  event'[e] = event[e]
    BY <2>6 DEF Publish, PublishUnknown, MarkLost, Crash, Restart
  <2>7. ASSUME NEW c \in Callers, NEW f \in Events, NEW p \in Payloads, AskCommit(c, f, p)
        PROVE  event'[e] = event[e]
    BY <2>7 DEF AskCommit
  <2>8. CASE UNCHANGED vars
    BY <2>8 DEF vars
  <2> QED BY <2>1, <2>2, <2>3, <2>4, <2>5, <2>6, <2>7, <2>8 DEF Next, Dispatch
<1> QED BY <1>1, OutboxInvariant, PTL DEF Spec, EndedFrozen

-----------------------------------------------------------------------------
(* State changes and their events *)

\* The callers that have passed the duplicate check of an event.
Askers(e) == {r.caller : r \in {q \in asked : q.event = e}}

\* A caller asks once at a time; nothing is written before the event exists, and
\* after that every write was paid for by a caller that had asked before.
CommitInv ==
    /\ \A r, s \in asked : r.caller = s.caller => r = s
    /\ \A e \in Events :
         IF event[e].status = "none" THEN writes[e] = 0
         ELSE writes[e] > 0 /\ writes[e] + Cardinality(Askers(e)) <= Cardinality(Callers)

LEMMA AskersFinite ==
    ASSUME TypeOK, NEW e
    PROVE  /\ Askers(e) \subseteq Callers
           /\ IsFiniteSet(Askers(e))
           /\ Cardinality(Askers(e)) \in Nat /\ Cardinality(Callers) \in Nat
           /\ Cardinality(Askers(e)) <= Cardinality(Callers)
<1>1. Askers(e) \subseteq Callers
  BY DEF Askers, TypeOK
<1> QED BY <1>1, CallerAssumption, FS_Subset, FS_CardinalityType

\* A commit takes its caller off those that have asked.
LEMMA CommitSpendsAsker ==
    ASSUME TypeOK, CommitInv, NEW r \in asked, DoCommit(r)
    PROVE  /\ r.event \in Events
           /\ Cardinality(Askers(r.event))' = Cardinality(Askers(r.event)) - 1
           /\ \A e \in Events \ {r.event} : Askers(e)' = Askers(e)
<1>1. asked' = asked \ {r} /\ r.event \in Events
  BY DEF DoCommit, TypeOK
<1>2. Askers(r.event)' = Askers(r.event) \ {r.caller} /\ r.caller \in Askers(r.event)
  BY <1>1 DEF Askers, CommitInv
<1>3. \A e \in Events \ {r.event} : Askers(e)' = Askers(e)
  BY <1>1 DEF Askers
<1>4. Cardinality(Askers(r.event) \ {r.caller}) = Cardinality(Askers(r.event)) - 1
  BY <1>2, AskersFinite, FS_RemoveElement
<1> QED BY <1>1, <1>2, <1>3, <1>4

\* What dispatchers and the clock do is nothing to commits.
LEMMA ElsewhereCommits ==
    ASSUME TypeOK, CommitInv, UNCHANGED <<asked, writes>>,
           \A e \in Events : (event'[e].status = "none") <=> (event[e].status = "none")
    PROVE  CommitInv'
BY DEF CommitInv, Askers

LEMMA CommitStep ==
    ASSUME OutboxInv, CommitInv, [Next]_vars
    PROVE  CommitInv'
<1>0. TypeOK
  BY DEF OutboxInv
<1>1. ASSUME NEW c \in Callers, NEW e \in Events, NEW p \in Payloads, AskCommit(c, e, p)
      PROVE  CommitInv'
  <2>1. /\ asked' = asked \cup {[caller |-> c, event |-> e, payload |-> p]}
        /\ event' = event /\ writes' = writes /\ event[e].status = "none"
        /\ \A r \in asked : r.caller # c
    BY <1>1 DEF AskCommit
  <2>2. \A r, s \in asked' : r.caller = s.caller => r = s
    BY <2>1 DEF CommitInv
  <2>3. \A f \in Events \ {e} : Askers(f)' = Askers(f)
    BY <2>1 DEF Askers
  <2> QED BY <2>1, <2>2, <2>3 DEF CommitInv
<1>2. ASSUME NEW r \in asked, DoCommit(r)
      PROVE  CommitInv'
  <2>1. /\ r.event \in Events
        /\ Cardinality(Askers(r.event))' = Cardinality(Askers(r.event)) - 1
        /\ \A e \in Events \ {r.event} : Askers(e)' = Askers(e)
    BY <1>0, <1>2, CommitSpendsAsker
  <2>2. \A q, s \in asked' : q.caller = s.caller => q = s
    BY <1>2 DEF DoCommit, CommitInv
  <2>3. \A e \in Events \ {r.event} : event'[e] = event[e] /\ writes'[e] = writes[e]
    BY <1>0, <1>2, <2>1 DEF DoCommit, TypeOK
  <2>4. Cardinality(Askers(r.event)) \in Nat /\ Cardinality(Callers) \in Nat
        /\ Cardinality(Askers(r.event)) <= Cardinality(Callers)
    BY <1>0, AskersFinite
  <2>5. writes[r.event] \in Nat /\ event[r.event] \in Rows
    BY <1>0, <2>1 DEF TypeOK
  <2>6. IF event'[r.event].status = "none" THEN writes'[r.event] = 0
        ELSE /\ writes'[r.event] > 0
             /\ writes'[r.event] + Cardinality(Askers(r.event))' <= Cardinality(Callers)
    <3>1. CASE UNCHANGED <<writes, event>>
      BY <2>1, <2>4, <2>5, <3>1 DEF CommitInv
    <3>2. CASE /\ writes' = [writes EXCEPT ![r.event] = @ + 1]
               /\ event' = [event EXCEPT ![r.event] =
                     IF @.status = "none"
                     THEN [@ EXCEPT !.status = "pending", !.payload = r.payload] ELSE @]
      <4>1. writes'[r.event] = writes[r.event] + 1
        BY <1>0, <2>1, <3>2 DEF TypeOK
      <4>2. event'[r.event].status # "none"
        BY <1>0, <2>1, <2>5, <3>2 DEF TypeOK, Rows
      <4> QED BY <2>1, <2>4, <2>5, <4>1, <4>2 DEF CommitInv
    <3> QED BY <1>2, <3>1, <3>2 DEF DoCommit
  <2> QED BY <2>1, <2>2, <2>3, <2>6 DEF CommitInv
<1>3. ASSUME NEW w \in Workers, RetryDue(w)
      PROVE  CommitInv'
  <2>1. \A e \in Events : (event'[e].status = "none") <=> (event[e].status = "none")
    BY <1>0, <1>3, RowEffects
  <2> QED BY <1>0, <1>3, <2>1, ElsewhereCommits DEF RetryDue
<1>4. ASSUME NEW w \in Workers, NEW n \in 1..BatchSize, Claim(w, n)
      PROVE  CommitInv'
  <2>1. \A e \in Events : (event'[e].status = "none") <=> (event[e].status = "none")
    BY <1>0, <1>4, ClaimLocks, LockedFields DEF Claimable
  <2> QED BY <1>0, <1>4, <2>1, ElsewhereCommits DEF Claim
<1>5. ASSUME NEW w \in Workers, Mark(w)
      PROVE  CommitInv'
  <2>1. \A e \in Events : (event'[e].status = "none") <=> (event[e].status = "none")
    BY <1>5, MarkEffect
  <2> QED BY <1>0, <1>5, <2>1, ElsewhereCommits DEF Mark
<1>6. CASE Tick
  <2>1. \A e \in Events : (event'[e].status = "none") <=> (event[e].status = "none")
    BY <1>0, <1>6, RowEffects
  <2> QED BY <1>0, <1>6, <2>1, ElsewhereCommits DEF Tick
<1>7. ASSUME NEW w \in Workers,
             \/ \E outcome \in Outcomes : Publish(w, outcome)
             \/ PublishUnknown(w) \/ MarkLost(w) \/ Crash(w) \/ Restart(w)
      PROVE  CommitInv'
  BY <1>0, <1>7, ElsewhereCommits DEF Publish, PublishUnknown, MarkLost, Crash, Restart
<1>8. CASE UNCHANGED vars
  BY <1>0, <1>8, ElsewhereCommits DEF vars
<1> QED BY <1>1, <1>2, <1>3, <1>4, <1>5, <1>6, <1>7, <1>8 DEF Next, Dispatch

\* A state change and its event are committed together or not at all, and a
\* duplicate writes again only for a caller that had asked before the first.
THEOREM WrittenWithEvent == Spec => []WriteWithEvent
<1>1. Init => CommitInv
  BY DEF Init, CommitInv, NoRow
<1>2. OutboxInv /\ CommitInv => WriteWithEvent
  <2> SUFFICES ASSUME OutboxInv, CommitInv, NEW e \in Events, event[e].status # "none"
               PROVE  writes[e] \in 1..Cardinality(Callers)
    BY DEF WriteWithEvent, CommitInv
  <2>1. writes[e] \in Nat
    BY DEF OutboxInv, TypeOK
  <2>2. writes[e] > 0 /\ writes[e] + Cardinality(Askers(e)) <= Cardinality(Callers)
    BY DEF CommitInv
  <2>3. Cardinality(Askers(e)) \in Nat /\ Cardinality(Callers) \in Nat
    BY AskersFinite DEF OutboxInv
  <2> QED BY <2>1, <2>2, <2>3
<1>3. OutboxInv /\ CommitInv /\ [Next]_vars => CommitInv'
  BY CommitStep
<1> QED BY <1>1, <1>2, <1>3, OutboxInvariant, PTL DEF Spec

-----------------------------------------------------------------------------
(* The refinement *)

Phase == [e \in Events |-> PhaseOf(event[e].status)]
Tries == [e \in Events |-> event[e].attempt]

\* A step that keeps phases, attempts and what was sent is a stutter of the
\* contract.
LEMMA ContractStutter ==
    ASSUME \A e \in Events : /\ PhaseOf(event'[e].status) = PhaseOf(event[e].status)
                             /\ event'[e].attempt = event[e].attempt,
           sent' = sent
    PROVE  UNCHANGED <<Phase, Tries, sent>>
BY DEF Phase, Tries

\* Sending, where it happens, is the contract's.
LEMMA ContractSend ==
    ASSUME OutboxInv, NEW w \in Workers, At(w, "publish"), event' = event,
           Reaches(w) \/ UNCHANGED sent
    PROVE  [Contract!Next]_<<Phase, Tries, sent>>
<1> DEFINE m == Mine(w).event
           n == Mine(w).attempt
<1>1. disp[w].batch # <<>> /\ TypeOK
  BY DEF OutboxInv, BatchShape, Holding
<1>2. m = Ev(w, 1) /\ n = No(w, 1) /\ 1 \in Entries(w) /\ m \in Events
  BY <1>1, MineType DEF Ev, No, Entries
<1>3. n \in 1..event[m].attempt
  BY <1>2 DEF OutboxInv, Issued
<1>4. n \notin sent[m]
  BY <1>2 DEF OutboxInv, AttemptsUnique, Entries, Ev, No
<1>5. CASE Reaches(w)
  <2>1. sent' = [sent EXCEPT ![m] = sent[m] \cup {n}]
    BY <1>5 DEF Reaches
  <2> HIDE DEF m, n
  <2>2. Contract!Send(m, n)
    BY <1>2, <1>3, <1>4, <2>1 DEF Contract!Send
  <2>3. \E e \in Events : \E k \in 1..event[e].attempt : Contract!Send(e, k)
    BY <1>2, <1>3, <2>2
  <2> QED BY <2>3 DEF Contract!Next
<1>6. CASE UNCHANGED sent
  BY <1>6, ContractStutter
<1> QED BY <1>5, <1>6

\* Every step of the outbox is a step of the contract or none.
LEMMA ContractStep ==
    ASSUME OutboxInv, [Next]_vars
    PROVE  [Contract!Next]_<<Phase, Tries, sent>>
<1>0. TypeOK /\ BatchShape
  BY DEF OutboxInv
<1>1. ASSUME NEW r \in asked, DoCommit(r)
      PROVE  [Contract!Next]_<<Phase, Tries, sent>>
  <2>1. r.event \in Events /\ sent' = sent
    BY <1>0, <1>1 DEF DoCommit, TypeOK
  <2>2. \A e \in Events \ {r.event} : event'[e] = event[e]
    BY <1>0, <1>1, <2>1 DEF DoCommit, TypeOK
  <2>3. CASE event'[r.event] = event[r.event]
    BY <2>1, <2>2, <2>3, ContractStutter
  <2>4. CASE event'[r.event] # event[r.event]
    <3>1. /\ event[r.event].status = "none" /\ event'[r.event].status = "pending"
          /\ event'[r.event].attempt = event[r.event].attempt
      BY <1>0, <1>1, <2>1, <2>4, RowEffects
    <3>2. Tries' = Tries
      BY <2>2, <3>1 DEF Tries
    <3>3. Phase[r.event] = "none" /\ Phase' = [Phase EXCEPT ![r.event] = "open"]
      <4>1. PhaseOf("none") = "none" /\ PhaseOf("pending") = "open"
        BY DEF PhaseOf
      <4>2. /\ Phase[r.event] = "none" /\ Phase'[r.event] = "open"
            /\ \A e \in Events \ {r.event} : Phase'[e] = Phase[e]
        BY <2>1, <2>2, <3>1, <4>1 DEF Phase
      <4> QED BY <2>1, <4>2 DEF Phase
    <3> QED BY <2>1, <3>2, <3>3 DEF Contract!Next, Contract!Commit, Phase, Tries
  <2> QED BY <2>3, <2>4
<1>2. ASSUME NEW w \in Workers, RetryDue(w)
      PROVE  [Contract!Next]_<<Phase, Tries, sent>>
  <2>1. sent' = sent
    BY <1>2 DEF RetryDue
  <2> QED BY <1>0, <1>2, <2>1, RowEffects, ContractStutter DEF PhaseOf
<1>3. ASSUME NEW w \in Workers, NEW n \in 1..BatchSize, Claim(w, n)
      PROVE  [Contract!Next]_<<Phase, Tries, sent>>
  <2>1. PICK S \in SUBSET Events :
          /\ \A e \in S : Claimable(e)
          /\ event' = [e \in Events |-> IF e \in S THEN Locked(e, w) ELSE event[e]]
    BY <1>3, ClaimLocks
  <2>2. \A e \in S : Phase[e] = "open" /\ Phase'[e] = "open"
    BY <1>0, <2>1, LockedFields DEF Claimable, Phase, PhaseOf
  <2>3. Phase' = Phase
    BY <2>1, <2>2 DEF Phase
  <2>4. Tries' = [e \in Events |-> IF e \in S THEN Tries[e] + 1 ELSE Tries[e]]
    BY <1>0, <2>1, LockedFields DEF Tries
  <2>5. sent' = sent
    BY <1>3 DEF Claim
  <2> QED BY <2>2, <2>3, <2>4, <2>5 DEF Contract!Next, Contract!Try, Phase, Tries
<1>4. ASSUME NEW w \in Workers,
             (\E outcome \in Outcomes : Publish(w, outcome)) \/ PublishUnknown(w)
      PROVE  [Contract!Next]_<<Phase, Tries, sent>>
  <2>1. At(w, "publish") /\ event' = event /\ (Reaches(w) \/ UNCHANGED sent)
    BY <1>4 DEF Publish, PublishUnknown
  <2> QED BY <2>1, ContractSend
<1>5. ASSUME NEW w \in Workers, Mark(w)
      PROVE  [Contract!Next]_<<Phase, Tries, sent>>
  <2> DEFINE m == Ev(w, 1)
  <2>1. /\ m \in Events
        /\ event[m].status = "publishing"
        /\ \A e \in Events \ {m} : event'[e] = event[e]
        /\ event'[m].attempt = event[m].attempt
        /\ event'[m].status \in {"published", "failed", "dead_letter"}
        /\ event'[m].status = "published" => disp[w].answer = "published"
    BY <1>5, MarkEffect
  <2>2. sent' = sent /\ At(w, "mark")
    BY <1>5 DEF Mark
  <2>3. event'[m].status = "published" => sent[m] # {}
    BY <2>1, <2>2 DEF OutboxInv, AnswerSent
  <2>4. event[m].attempt > 0
    BY <2>1 DEF OutboxInv, HandedOut
  <2> HIDE DEF m
  <2>5. CASE event'[m].status = "failed"
    <3>1. \A e \in Events : /\ PhaseOf(event'[e].status) = PhaseOf(event[e].status)
                            /\ event'[e].attempt = event[e].attempt
      BY <2>1, <2>5 DEF PhaseOf
    <3> QED BY <2>2, <3>1, ContractStutter
  <2>6. CASE event'[m].status # "failed"
    <3> DEFINE p == PhaseOf(event'[m].status)
    <3>1. p \in {"published", "dead"} /\ (p = "published" => sent[m] # {})
      BY <2>1, <2>3, <2>6 DEF PhaseOf
    <3>2. Phase[m] = "open"
      BY <2>1 DEF Phase, PhaseOf
    <3>3. Phase' = [Phase EXCEPT ![m] = p]
      BY <2>1 DEF Phase
    <3>4. Tries' = Tries /\ Tries[m] > 0
      BY <2>1, <2>4 DEF Tries
    <3> HIDE DEF p
    <3>5. Contract!End(m, p)
      BY <2>1, <2>2, <3>1, <3>2, <3>3, <3>4 DEF Contract!End, Phase, Tries
    <3>6. p \in Contract!Phases
      BY <3>1 DEF Contract!Phases
    <3> QED BY <2>1, <3>5, <3>6 DEF Contract!Next
  <2> QED BY <2>5, <2>6
<1>6. ASSUME NEW w \in Workers, MarkLost(w) \/ Crash(w) \/ Restart(w)
      PROVE  [Contract!Next]_<<Phase, Tries, sent>>
  BY <1>6, ContractStutter DEF MarkLost, Crash, Restart
<1>7. ASSUME NEW c \in Callers, NEW e \in Events, NEW p \in Payloads, AskCommit(c, e, p)
      PROVE  [Contract!Next]_<<Phase, Tries, sent>>
  BY <1>7, ContractStutter DEF AskCommit
<1>8. CASE Tick
  <2>1. sent' = sent
    BY <1>8 DEF Tick
  <2> QED BY <1>0, <1>8, <2>1, RowEffects, ContractStutter
<1>9. CASE UNCHANGED vars
  BY <1>9, ContractStutter DEF vars
<1> QED BY <1>1, <1>2, <1>3, <1>4, <1>5, <1>6, <1>7, <1>8, <1>9 DEF Next, Dispatch

\* The outbox implements its contract: an event is handed out in numbered
\* attempts while it is open, each sends it at most once, and it ends published
\* only if one of them has.
THEOREM OutboxImplementsContract == Spec => ContractHolds
<1>1. Init => Contract!Init
  BY DEF Init, NoRow, PhaseOf, Contract!Init
<1>2. OutboxInv /\ [Next]_vars => [Contract!Next]_<<Phase, Tries, sent>>
  BY ContractStep
<1>3. Contract!Spec <=> Contract!Init /\ [][Contract!Next]_<<Phase, Tries, sent>>
  BY DEF Contract!Spec, Phase, Tries
<1> QED BY <1>1, <1>2, <1>3, OutboxInvariant, PTL DEF Spec, ContractHolds
================================================================================

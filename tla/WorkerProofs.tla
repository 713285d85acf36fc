--------------------------- MODULE WorkerProofs ---------------------------
(***************************************************************************)
(* Proofs about TaskQueue, for every set of rows, workers and codes and    *)
(* every attempt, lease and delay bound; and about WorkerRuntime, for any  *)
(* rows, processes and bounds. The second rest on the first: every step of *)
(* a worker is a step of the queue, so its invariants hold, and its row    *)
(* steps say what a step may do to a row.                                  *)
(***************************************************************************)
EXTENDS WorkerRuntime, FiniteSetTheorems, SequenceTheorems, TLAPS

USE DEF Statuses, Held, Ready, Terminal, ErrorClasses

\* The null lease and a fresh row are well typed.
LEMMA NullRows ==
    /\ NoLease \in Leases
    /\ AbsentJob \in Jobs
    /\ \A a \in Aggregates, f \in Keys \cup {NoKey}, wait \in Nat : NewJob(a, f, wait) \in Jobs
BY AggregateAssumption DEF NoLease, Leases, AbsentJob, NewJob, Jobs

\* A recorded failure keeps every table in its type, wherever it comes from.
LEMMA RecordTypes ==
    ASSUME TypeOK, NEW k \in Keys, NEW class \in ErrorClasses, NEW code \in Codes,
           NEW attempt \in Nat, NEW delay \in Nat,
           Record(k, class, code, attempt, delay)
    PROVE  /\ job' \in [Keys -> Jobs]
           /\ lease' \in [Keys -> Leases]
           /\ failures' \in [Keys -> Seq(Facts)]
           /\ review' \in [Aggregates -> {"none", "queued", "done"}]
<1>1. CASE Recorded(k, attempt, code)
  BY <1>1 DEF Record, TypeOK
<1>2. CASE ~Recorded(k, attempt, code)
  <2> DEFINE row == [job[k] EXCEPT !.status = StatusAfter(class, attempt),
                                   !.attempt = attempt,
                                   !.wait = IF StatusAfter(class, attempt) = "retry_scheduled"
                                            THEN delay ELSE 0,
                                   !.left = 0, !.by = NoWorker]
  <2>a. job[k] \in Jobs
    BY DEF TypeOK
  <2>b. StatusAfter(class, attempt) \in Statuses
    BY DEF StatusAfter
  <2>c. row \in Jobs
    BY <2>a, <2>b DEF Jobs
  <2>d. job' = [job EXCEPT ![k] = row] /\ lease' = [lease EXCEPT ![k] = NoLease]
    BY <1>2 DEF Record
  <2> HIDE DEF row
  <2>1. job' \in [Keys -> Jobs]
    BY <2>c, <2>d DEF TypeOK
  <2>2. lease' \in [Keys -> Leases]
    BY <2>d, NullRows DEF TypeOK
  <2>3. [attempt |-> attempt, class |-> class, code |-> code] \in Facts
    BY DEF Facts
  <2>e. failures[k] \in Seq(Facts)
    BY DEF TypeOK
  <2>f. Append(failures[k], [attempt |-> attempt, class |-> class, code |-> code]) \in Seq(Facts)
    BY <2>3, <2>e
  <2>4. failures' \in [Keys -> Seq(Facts)]
    BY <1>2, <2>f DEF Record, TypeOK
  <2>5. review' \in [Aggregates -> {"none", "queued", "done"}]
    BY <1>2 DEF Record, TypeOK, OpenReview
  <2> QED BY <2>1, <2>2, <2>4, <2>5
<1> QED BY <1>1, <1>2

\* Fresh tables have the declared types, and every action writes rows of the
\* declared shape into them.
LEMMA InitTypes == Init => TypeOK
<1> SUFFICES ASSUME Init PROVE TypeOK
  OBVIOUS
<1>1. <<>> \in Seq(Facts)
  OBVIOUS
<1> QED BY <1>1, NullRows DEF Init, TypeOK

LEMMA TypeStep == TypeOK /\ [Next]_vars => TypeOK'
<1> SUFFICES ASSUME TypeOK, [Next]_vars PROVE TypeOK'
  OBVIOUS
<1>1. ASSUME NEW k \in Keys, NEW a \in Aggregates, NEW wait \in 0..MaxWait,
             Enqueue(k, a, wait)
      PROVE  TypeOK'
  BY <1>1, MaxWaitAssumption DEF Enqueue, TypeOK, Jobs, NewJob
<1>2. ASSUME NEW w \in Workers, NEW n \in 1..BatchSize, Claim(w, n)
      PROVE  TypeOK'
  <2>1. PICK S \in Batches(n) :
          /\ job' = [k \in Keys |-> IF Exhausted(k) THEN Retired(k)
                                    ELSE IF k \in S THEN Leased(k, w) ELSE job[k]]
          /\ issued' = [k \in Keys |-> IF k \in S THEN issued[k] + 1 ELSE issued[k]]
          /\ lease' = [k \in Keys |->
                          IF Exhausted(k) THEN NoLease
                          ELSE IF k \in S
                          THEN [by |-> w, token |-> issued[k] + 1, left |-> LeaseTicks,
                                version |-> lease[k].version + 1]
                          ELSE lease[k]]
    BY <1>2 DEF Claim
  <2>a. \A k \in Keys : Retired(k) \in Jobs /\ Leased(k, w) \in Jobs
    <3> SUFFICES ASSUME NEW k \in Keys PROVE Retired(k) \in Jobs /\ Leased(k, w) \in Jobs
      OBVIOUS
    <3>1. job[k] \in Jobs
      BY DEF TypeOK
    <3>2. job[k].attempt + 1 \in Nat
      BY <3>1 DEF Jobs
    <3>3. Retired(k) \in Jobs
      BY <3>1 DEF Jobs, Retired
    <3>4. Leased(k, w) \in Jobs
      BY <3>1, <3>2, LeaseTicksAssumption DEF Jobs, Leased
    <3> QED BY <3>3, <3>4
  <2>2. job' \in [Keys -> Jobs]
    BY <2>1, <2>a DEF TypeOK
  <2>b. \A k \in Keys : [by |-> w, token |-> issued[k] + 1, left |-> LeaseTicks,
                         version |-> lease[k].version + 1] \in Leases
    BY LeaseTicksAssumption DEF TypeOK, Leases
  <2>3. lease' \in [Keys -> Leases]
    BY <2>1, <2>b, NullRows DEF TypeOK
  <2>4. issued' \in [Keys -> Nat]
    BY <2>1 DEF TypeOK
  <2> QED BY <1>2, <2>2, <2>3, <2>4 DEF Claim, TypeOK
<1>3. ASSUME NEW k \in Keys, NEW w \in Workers, NEW t \in 1..issued[k],
             HolderStep(k, w, t)
      PROVE  TypeOK'
  <2>a. job[k] \in Jobs /\ lease[k] \in Leases
    BY DEF TypeOK
  <2>1. CASE Heartbeat(k, w, t)
    <3>1. /\ [job[k] EXCEPT !.left = LeaseTicks] \in Jobs
          /\ [lease[k] EXCEPT !.left = LeaseTicks] \in Leases
      BY <2>a, LeaseTicksAssumption DEF Jobs, Leases
    <3>2. /\ job' = [job EXCEPT ![k] = [job[k] EXCEPT !.left = LeaseTicks]]
          /\ lease' = [lease EXCEPT ![k] = [lease[k] EXCEPT !.left = LeaseTicks]]
      BY <2>1 DEF Heartbeat
    <3> QED BY <2>1, <3>1, <3>2 DEF Heartbeat, TypeOK
  <2>2. CASE Start(k, w, t)
    <3>1. [job[k] EXCEPT !.status = "running"] \in Jobs
      BY <2>a DEF Jobs
    <3>2. job' = [job EXCEPT ![k] = [job[k] EXCEPT !.status = "running"]]
      BY <2>2 DEF Start
    <3> QED BY <2>2, <3>1, <3>2 DEF Start, TypeOK
  <2>3. CASE Complete(k, w, t)
    <3>1. [job[k] EXCEPT !.status = "succeeded", !.left = 0, !.by = NoWorker] \in Jobs
      BY <2>a DEF Jobs
    <3> QED BY <2>3, <3>1, NullRows DEF Complete, TypeOK
  <2>4. ASSUME NEW class \in ErrorClasses, NEW code \in Codes, NEW delay \in Delays,
               Fail(k, w, t, class, code, delay)
        PROVE  TypeOK'
    <3>1. delay \in Nat /\ job[k].attempt \in Nat
      BY MaxWaitAssumption DEF Delays, TypeOK, Jobs
    <3> QED BY <2>4, <3>1, RecordTypes DEF Fail, TypeOK
  <2> QED BY <1>3, <2>1, <2>2, <2>3, <2>4 DEF HolderStep
<1>4. ASSUME OperatorStep PROVE TypeOK'
  <2>1. ASSUME NEW k \in Keys, NEW class \in ErrorClasses, NEW code \in Codes,
               NEW delay \in Delays,
               NEW attempt \in {job[k].attempt, job[k].attempt + 1},
               Report(k, class, code, attempt, delay)
        PROVE  TypeOK'
    <3>1. delay \in Nat /\ attempt \in Nat
      BY MaxWaitAssumption DEF Delays, TypeOK, Jobs
    <3> QED BY <2>1, <3>1, RecordTypes DEF Report, TypeOK
  <2>2. ASSUME NEW k \in Keys, AskRetry(k) PROVE TypeOK'
    BY <2>2 DEF AskRetry, TypeOK, Asks, Jobs
  <2>3. ASSUME NEW r \in asked, NEW delay \in Delays, DoRetry(r, delay)
        PROVE  TypeOK'
    <3>1. r.key \in Keys /\ r.attempt \in Nat /\ delay \in Nat
      BY MaxWaitAssumption DEF Delays, TypeOK, Asks
    <3>2. CASE UNCHANGED <<job, lease, failures, review>>
      BY <2>3, <3>2 DEF DoRetry, TypeOK
    <3>3. CASE Record(r.key, "transient", ManualRetryCode, r.attempt, delay)
      BY <2>3, <3>1, <3>3, CodeAssumption, RecordTypes DEF DoRetry, TypeOK
    <3> QED BY <2>3, <3>2, <3>3 DEF DoRetry
  <2>4. ASSUME NEW k \in Keys, NEW new \in Keys, RequeueDead(k, new) \/ Replay(k, new)
        PROVE  TypeOK'
    <3>1. NewJob(job[k].agg, k, 0) \in Jobs
      BY NullRows DEF TypeOK, Jobs
    <3>2. Copy(k, new)
      BY <2>4 DEF RequeueDead, Replay
    <3> QED BY <3>1, <3>2 DEF Copy, TypeOK
  <2> QED BY <1>4, <2>1, <2>2, <2>3, <2>4 DEF OperatorStep
<1>5. ASSUME NEW a \in Aggregates, CompleteReview(a) PROVE TypeOK'
  BY <1>5 DEF CompleteReview, TypeOK
<1>6. CASE SetPaused
  BY <1>6 DEF SetPaused, TypeOK
<1>7. CASE Tick
  <2>1. \A n \in Nat : Dec(n) \in Nat
    BY DEF Dec
  <2>2. \A k \in Keys : /\ [job[k] EXCEPT !.wait = Dec(@), !.left = Dec(@)] \in Jobs
                        /\ [lease[k] EXCEPT !.left = Dec(@)] \in Leases
    <3> SUFFICES ASSUME NEW k \in Keys
                 PROVE  /\ [job[k] EXCEPT !.wait = Dec(@), !.left = Dec(@)] \in Jobs
                        /\ [lease[k] EXCEPT !.left = Dec(@)] \in Leases
      OBVIOUS
    <3>1. job[k] \in Jobs /\ lease[k] \in Leases
      BY DEF TypeOK
    <3> QED BY <2>1, <3>1 DEF Jobs, Leases
  <2> QED BY <1>7, <2>2 DEF Tick, TypeOK
<1>8. CASE UNCHANGED vars
  BY <1>8 DEF vars, TypeOK
<1> QED BY <1>1, <1>2, <1>3, <1>4, <1>5, <1>6, <1>7, <1>8 DEF Next

\* The seven variables keep their types.
THEOREM TypeCorrect == Spec => []TypeOK
BY InitTypes, TypeStep, PTL DEF Spec

-----------------------------------------------------------------------------
(***************************************************************************)
(* One row at a time.  Whatever the step, a row and its lease, token       *)
(* counter and facts change in one of eight ways; the invariants below     *)
(* speak of one row each and are proved over these.                        *)
(***************************************************************************)
RowSame(k) ==
    /\ job'[k] = job[k]
    /\ lease'[k] = lease[k]
    /\ issued'[k] = issued[k]
    /\ failures'[k] = failures[k]

RowCreated(k) ==
    /\ job[k].status = "absent"
    /\ \E a \in Aggregates, f \in Keys \cup {NoKey}, wait \in Nat :
           job'[k] = NewJob(a, f, wait)
    /\ lease'[k] = lease[k]
    /\ issued'[k] = issued[k]
    /\ failures'[k] = failures[k]

RowLeased(k) ==
    /\ Claimable(k)
    /\ \E w \in Workers :
        /\ job'[k] = Leased(k, w)
        /\ lease'[k] = [by |-> w, token |-> issued[k] + 1, left |-> LeaseTicks,
                        version |-> lease[k].version + 1]
    /\ issued'[k] = issued[k] + 1
    /\ failures'[k] = failures[k]

RowRetired(k) ==
    /\ Exhausted(k)
    /\ job'[k] = Retired(k)
    /\ lease'[k] = NoLease
    /\ issued'[k] = issued[k]
    /\ failures'[k] = failures[k]

RowHeld(k) ==
    /\ job[k].status \in Held
    /\ \/ /\ job'[k] = [job[k] EXCEPT !.left = LeaseTicks]
          /\ lease'[k] = [lease[k] EXCEPT !.left = LeaseTicks]
       \/ /\ job'[k] = [job[k] EXCEPT !.status = "running"]
          /\ lease'[k] = lease[k]
       \/ /\ job'[k] = [job[k] EXCEPT !.status = "succeeded", !.left = 0, !.by = NoWorker]
          /\ lease'[k] = NoLease
    /\ issued'[k] = issued[k]
    /\ failures'[k] = failures[k]

FailedAs(k, class, code, attempt, delay) ==
    /\ job[k].status \notin Terminal \cup {"absent"}
    /\ attempt \in {job[k].attempt, job[k].attempt + 1}
    /\ job[k].status \in Held => attempt = job[k].attempt
    /\ failures'[k] = Append(failures[k],
            [attempt |-> attempt, class |-> class, code |-> code])
    /\ job'[k] = [job[k] EXCEPT
            !.status = StatusAfter(class, attempt), !.attempt = attempt,
            !.wait = IF StatusAfter(class, attempt) = "retry_scheduled" THEN delay ELSE 0,
            !.left = 0, !.by = NoWorker]
    /\ lease'[k] = NoLease
    /\ issued'[k] = issued[k]

RowFailed(k) ==
    \E class \in ErrorClasses, code \in Codes, attempt \in Nat, delay \in Nat :
        FailedAs(k, class, code, attempt, delay)

RowAged(k) ==
    /\ job'[k] = [job[k] EXCEPT !.wait = Dec(@), !.left = Dec(@)]
    /\ lease'[k] = [lease[k] EXCEPT !.left = Dec(@)]
    /\ issued'[k] = issued[k]
    /\ failures'[k] = failures[k]

RowStep(k) ==
    \/ RowSame(k) \/ RowCreated(k) \/ RowLeased(k) \/ RowRetired(k)
    \/ RowHeld(k) \/ RowFailed(k) \/ RowAged(k)

\* Recording a failure changes the row it is about, and no other.
LEMMA RecordRows ==
    ASSUME TypeOK, NEW k \in Keys, NEW class \in ErrorClasses, NEW code \in Codes,
           NEW attempt \in Nat, NEW delay \in Nat,
           Record(k, class, code, attempt, delay), UNCHANGED issued,
           job[k].status \in Held => attempt = job[k].attempt
    PROVE  \A i \in Keys : RowSame(i) \/ RowFailed(i)
<1> SUFFICES ASSUME NEW i \in Keys PROVE RowSame(i) \/ RowFailed(i)
  OBVIOUS
<1>1. CASE Recorded(k, attempt, code)
  BY <1>1 DEF Record, RowSame
<1>2. CASE ~Recorded(k, attempt, code) /\ i # k
  BY <1>2 DEF Record, RowSame, TypeOK
<1>3. CASE ~Recorded(k, attempt, code) /\ i = k
  <2> DEFINE row == [job[k] EXCEPT !.status = StatusAfter(class, attempt),
                                   !.attempt = attempt,
                                   !.wait = IF StatusAfter(class, attempt) = "retry_scheduled"
                                            THEN delay ELSE 0,
                                   !.left = 0, !.by = NoWorker]
  <2>1. /\ job' = [job EXCEPT ![k] = row]
        /\ lease' = [lease EXCEPT ![k] = NoLease]
        /\ failures' = [failures EXCEPT ![k] = Append(failures[k],
                [attempt |-> attempt, class |-> class, code |-> code])]
    BY <1>3 DEF Record
  <2> HIDE DEF row
  <2>2. /\ job'[k] = row
        /\ lease'[k] = NoLease
        /\ failures'[k] = Append(failures[k],
                [attempt |-> attempt, class |-> class, code |-> code])
    BY <2>1 DEF TypeOK
  <2>3. /\ job[k].status \notin Terminal \cup {"absent"}
        /\ attempt \in {job[k].attempt, job[k].attempt + 1}
    BY DEF Record
  <2>4. FailedAs(k, class, code, attempt, delay)
    BY <2>2, <2>3 DEF row, FailedAs
  <2> QED BY <1>3, <2>4 DEF RowFailed
<1> QED BY <1>1, <1>2, <1>3

\* Every step of the queue is a row step of every row.
LEMMA RowSteps == TypeOK /\ [Next]_vars => \A i \in Keys : RowStep(i)
<1> SUFFICES ASSUME TypeOK, [Next]_vars PROVE \A i \in Keys : RowStep(i)
  OBVIOUS
<1>1. ASSUME NEW k \in Keys, NEW a \in Aggregates, NEW wait \in 0..MaxWait,
             Enqueue(k, a, wait)
      PROVE  \A i \in Keys : RowStep(i)
  <2>1. RowCreated(k)
    <3>1. /\ job[k].status = "absent"
          /\ job'[k] = NewJob(a, NoKey, wait)
          /\ wait \in Nat
      BY <1>1, MaxWaitAssumption DEF Enqueue, TypeOK
    <3> QED BY <1>1, <3>1 DEF Enqueue, RowCreated
  <2>2. \A i \in Keys \ {k} : RowSame(i)
    BY <1>1 DEF Enqueue, TypeOK, RowSame
  <2> QED BY <2>1, <2>2 DEF RowStep
<1>2. ASSUME NEW w \in Workers, NEW n \in 1..BatchSize, Claim(w, n)
      PROVE  \A i \in Keys : RowStep(i)
  <2>1. PICK S \in Batches(n) :
          /\ job' = [k \in Keys |-> IF Exhausted(k) THEN Retired(k)
                                    ELSE IF k \in S THEN Leased(k, w) ELSE job[k]]
          /\ issued' = [k \in Keys |-> IF k \in S THEN issued[k] + 1 ELSE issued[k]]
          /\ lease' = [k \in Keys |->
                          IF Exhausted(k) THEN NoLease
                          ELSE IF k \in S
                          THEN [by |-> w, token |-> issued[k] + 1, left |-> LeaseTicks,
                                version |-> lease[k].version + 1]
                          ELSE lease[k]]
    BY <1>2 DEF Claim
  <2>2. \A i \in S : Claimable(i)
    BY DEF Batches
  <2>3. \A i \in S : ~Exhausted(i)
    BY <2>2 DEF Claimable, Exhausted, Expired
  <2>4. failures' = failures
    BY <1>2 DEF Claim
  <2>5. \A i \in Keys : Exhausted(i) => RowRetired(i)
    BY <2>1, <2>3, <2>4 DEF RowRetired
  <2>6. \A i \in Keys : i \in S => RowLeased(i)
    BY <2>1, <2>2, <2>3, <2>4 DEF RowLeased
  <2>7. \A i \in Keys : ~Exhausted(i) /\ i \notin S => RowSame(i)
    BY <2>1, <2>4 DEF RowSame
  <2> QED BY <2>5, <2>6, <2>7 DEF RowStep
<1>3. ASSUME NEW k \in Keys, NEW w \in Workers, NEW t \in 1..issued[k],
             HolderStep(k, w, t)
      PROVE  \A i \in Keys : RowStep(i)
  <2>1. CASE Heartbeat(k, w, t)
    <3>1. RowHeld(k)
      BY <2>1 DEF Heartbeat, ValidLease, RowHeld, TypeOK
    <3>2. \A i \in Keys \ {k} : RowSame(i)
      BY <2>1 DEF Heartbeat, RowSame, TypeOK
    <3> QED BY <3>1, <3>2 DEF RowStep
  <2>2. CASE Start(k, w, t)
    <3>1. RowHeld(k)
      BY <2>2 DEF Start, RowHeld, TypeOK
    <3>2. \A i \in Keys \ {k} : RowSame(i)
      BY <2>2 DEF Start, RowSame, TypeOK
    <3> QED BY <3>1, <3>2 DEF RowStep
  <2>3. CASE Complete(k, w, t)
    <3>1. RowHeld(k)
      BY <2>3 DEF Complete, ValidLease, RowHeld, TypeOK
    <3>2. \A i \in Keys \ {k} : RowSame(i)
      BY <2>3 DEF Complete, RowSame, TypeOK
    <3> QED BY <3>1, <3>2 DEF RowStep
  <2>4. ASSUME NEW class \in ErrorClasses, NEW code \in Codes, NEW delay \in Delays,
               Fail(k, w, t, class, code, delay)
        PROVE  \A i \in Keys : RowStep(i)
    <3>1. delay \in Nat /\ job[k].attempt \in Nat
      BY MaxWaitAssumption DEF Delays, TypeOK, Jobs
    <3> QED BY <2>4, <3>1, RecordRows DEF Fail, RowStep
  <2> QED BY <1>3, <2>1, <2>2, <2>3, <2>4 DEF HolderStep
<1>4. ASSUME OperatorStep PROVE \A i \in Keys : RowStep(i)
  <2>1. ASSUME NEW k \in Keys, NEW class \in ErrorClasses, NEW code \in Codes,
               NEW delay \in Delays,
               NEW attempt \in {job[k].attempt, job[k].attempt + 1},
               Report(k, class, code, attempt, delay)
        PROVE  \A i \in Keys : RowStep(i)
    <3>1. delay \in Nat /\ attempt \in Nat
      BY MaxWaitAssumption DEF Delays, TypeOK, Jobs
    <3> QED BY <2>1, <3>1, RecordRows DEF Report, RowStep
  <2>2. ASSUME NEW k \in Keys, AskRetry(k) PROVE \A i \in Keys : RowStep(i)
    BY <2>2 DEF AskRetry, RowStep, RowSame
  <2>3. ASSUME NEW r \in asked, NEW delay \in Delays, DoRetry(r, delay)
        PROVE  \A i \in Keys : RowStep(i)
    <3>1. r.key \in Keys /\ r.attempt \in Nat /\ delay \in Nat
      BY MaxWaitAssumption DEF Delays, TypeOK, Asks
    <3>2. CASE UNCHANGED <<job, lease, failures, review>>
      BY <2>3, <3>2 DEF DoRetry, RowStep, RowSame
    <3>3. CASE /\ job[r.key].status \notin Held
               /\ Record(r.key, "transient", ManualRetryCode, r.attempt, delay)
      BY <2>3, <3>1, <3>3, CodeAssumption, RecordRows DEF DoRetry, RowStep
    <3> QED BY <2>3, <3>2, <3>3 DEF DoRetry
  <2>4. ASSUME NEW k \in Keys, NEW new \in Keys, RequeueDead(k, new) \/ Replay(k, new)
        PROVE  \A i \in Keys : RowStep(i)
    <3>1. Copy(k, new)
      BY <2>4 DEF RequeueDead, Replay
    <3>2. job[k].agg \in Aggregates
      BY DEF TypeOK, Jobs
    <3>3. RowCreated(new)
      BY <3>1, <3>2 DEF Copy, TypeOK, RowCreated
    <3>4. \A i \in Keys \ {new} : RowSame(i)
      BY <3>1 DEF Copy, TypeOK, RowSame
    <3> QED BY <3>3, <3>4 DEF RowStep
  <2> QED BY <1>4, <2>1, <2>2, <2>3, <2>4 DEF OperatorStep
<1>5. ASSUME NEW a \in Aggregates, CompleteReview(a) PROVE \A i \in Keys : RowStep(i)
  BY <1>5 DEF CompleteReview, RowStep, RowSame
<1>6. CASE SetPaused
  BY <1>6 DEF SetPaused, RowStep, RowSame
<1>7. CASE Tick
  BY <1>7 DEF Tick, RowStep, RowAged
<1>8. CASE UNCHANGED vars
  BY <1>8 DEF vars, RowStep, RowSame
<1> QED BY <1>1, <1>2, <1>3, <1>4, <1>5, <1>6, <1>7, <1>8 DEF Next

-----------------------------------------------------------------------------
(***************************************************************************)
(* The inductive invariant.  AttemptBudget and FactsBehindAttempt need to  *)
(* know that an unused key carries no tokens and no facts, and             *)
(* TerminalFrozen that a row waits only while it is ready.                 *)
(***************************************************************************)
Blank(k) == job[k].status = "absent" => issued[k] = 0 /\ failures[k] = <<>>

Due(k) == job[k].status \notin Ready => job[k].wait = 0

QueueInv ==
    /\ TypeOK
    /\ LeaseAgreement
    /\ AttemptBudget
    /\ FactsBehindAttempt
    /\ \A k \in Keys : Blank(k) /\ Due(k)

\* A row step keeps the job row and the lease row in agreement.
LEMMA LeaseAgreesStep ==
    ASSUME TypeOK, NEW k \in Keys, LeaseAgrees(k), RowStep(k)
    PROVE  LeaseAgrees(k)'
<1>0. job[k] \in Jobs /\ lease[k] \in Leases /\ issued[k] \in Nat
  BY DEF TypeOK
<1>1. CASE RowSame(k)
  BY <1>1 DEF RowSame, LeaseAgrees
<1>2. CASE RowCreated(k)
  BY <1>2 DEF RowCreated, NewJob, LeaseAgrees
<1>3. CASE RowLeased(k)
  BY <1>0, <1>3 DEF RowLeased, Leased, Jobs, LeaseAgrees
<1>4. CASE RowRetired(k)
  BY <1>0, <1>4 DEF RowRetired, Retired, Jobs, LeaseAgrees
<1>5. CASE RowHeld(k)
  <2>1. job[k].status \in Held /\ issued'[k] = issued[k]
    BY <1>5 DEF RowHeld
  <2>2. CASE /\ job'[k] = [job[k] EXCEPT !.left = LeaseTicks]
             /\ lease'[k] = [lease[k] EXCEPT !.left = LeaseTicks]
    BY <1>0, <2>1, <2>2 DEF Jobs, Leases, LeaseAgrees
  <2>3. CASE /\ job'[k] = [job[k] EXCEPT !.status = "running"]
             /\ lease'[k] = lease[k]
    BY <1>0, <2>1, <2>3 DEF Jobs, Held, LeaseAgrees
  <2>4. CASE /\ job'[k] = [job[k] EXCEPT !.status = "succeeded", !.left = 0, !.by = NoWorker]
             /\ lease'[k] = NoLease
    BY <1>0, <2>4 DEF Jobs, Held, LeaseAgrees
  <2> QED BY <1>5, <2>2, <2>3, <2>4 DEF RowHeld
<1>6. CASE RowFailed(k)
  BY <1>0, <1>6 DEF RowFailed, FailedAs, StatusAfter, Jobs, LeaseAgrees
<1>7. CASE RowAged(k)
  BY <1>0, <1>7 DEF RowAged, Dec, Jobs, Leases, NoLease, LeaseAgrees
<1> QED BY <1>1, <1>2, <1>3, <1>4, <1>5, <1>6, <1>7 DEF RowStep

\* A row step keeps the row within its attempt budget: leasing uses up an
\* attempt the row had, and nothing makes it ready again without one left.
LEMMA WithinBudgetStep ==
    ASSUME TypeOK, NEW k \in Keys, WithinBudget(k), Blank(k), RowStep(k)
    PROVE  WithinBudget(k)'
<1>0. job[k] \in Jobs /\ issued[k] \in Nat /\ job[k].attempt \in Nat
  BY DEF TypeOK, Jobs
<1>1. CASE RowSame(k)
  BY <1>1 DEF RowSame, WithinBudget
<1>2. CASE RowCreated(k)
  BY <1>2, MaxAttemptsAssumption DEF RowCreated, NewJob, Blank, WithinBudget
<1>3. CASE RowLeased(k)
  <2>1. job[k].attempt < MaxAttempts
    BY <1>0, <1>3, MaxAttemptsAssumption
    DEF RowLeased, Claimable, Exhausted, WithinBudget
  <2>2. job'[k].attempt = job[k].attempt + 1 /\ job'[k].status = "leased"
    BY <1>0, <1>3 DEF RowLeased, Leased, Jobs
  <2> QED BY <1>0, <1>3, <2>1, <2>2, MaxAttemptsAssumption DEF RowLeased, WithinBudget
<1>4. CASE RowRetired(k)
  BY <1>0, <1>4 DEF RowRetired, Retired, Jobs, WithinBudget
<1>5. CASE RowHeld(k)
  BY <1>0, <1>5 DEF RowHeld, Jobs, WithinBudget
<1>6. CASE RowFailed(k)
  BY <1>0, <1>6, MaxAttemptsAssumption
  DEF RowFailed, FailedAs, StatusAfter, Jobs, WithinBudget
<1>7. CASE RowAged(k)
  BY <1>0, <1>7 DEF RowAged, Jobs, WithinBudget
<1> QED BY <1>1, <1>2, <1>3, <1>4, <1>5, <1>6, <1>7 DEF RowStep

\* A row step keeps the facts of a row behind its attempt and in order.
LEMMA FactsBehindStep ==
    ASSUME TypeOK, NEW k \in Keys, FactsBehind(k), Blank(k), RowStep(k)
    PROVE  FactsBehind(k)'
<1>0. /\ job[k] \in Jobs
      /\ job[k].attempt \in Nat
      /\ failures[k] \in Seq(Facts)
      /\ \A i \in 1..Len(failures[k]) : failures[k][i].attempt \in Nat
  <2>1. job[k] \in Jobs /\ failures[k] \in Seq(Facts)
    BY DEF TypeOK
  <2>2. \A i \in 1..Len(failures[k]) : failures[k][i] \in Facts
    BY <2>1
  <2> QED BY <2>1, <2>2 DEF Jobs, Facts
<1>1. CASE RowSame(k)
  BY <1>1 DEF RowSame, FactsBehind
<1>2. CASE RowCreated(k)
  BY <1>2 DEF RowCreated, Blank, FactsBehind
<1>3. CASE RowLeased(k)
  <2>1. job'[k].attempt = job[k].attempt + 1
    BY <1>0, <1>3 DEF RowLeased, Leased, Jobs
  <2> QED BY <1>0, <1>3, <2>1 DEF RowLeased, FactsBehind
<1>4. CASE RowRetired(k)
  BY <1>0, <1>4 DEF RowRetired, Retired, Jobs, FactsBehind
<1>5. CASE RowHeld(k)
  BY <1>0, <1>5 DEF RowHeld, Jobs, FactsBehind
<1>6. CASE RowFailed(k)
  <2>1. PICK class \in ErrorClasses, code \in Codes, attempt \in Nat, delay \in Nat :
          FailedAs(k, class, code, attempt, delay)
    BY <1>6 DEF RowFailed
  <2> DEFINE fact == [attempt |-> attempt, class |-> class, code |-> code]
  <2>2. job'[k].status \notin Held /\ job'[k].attempt = attempt
    BY <1>0, <2>1 DEF FailedAs, StatusAfter, Jobs
  <2>3. attempt >= job[k].attempt
    BY <1>0, <2>1 DEF FailedAs
  <2>4. failures'[k] = Append(failures[k], fact) /\ fact.attempt = attempt
    BY <2>1 DEF FailedAs
  <2>5. fact \in Facts
    BY DEF Facts
  <2> HIDE DEF fact
  <2>6. /\ Len(failures'[k]) = Len(failures[k]) + 1
        /\ \A i \in 1..Len(failures[k]) : failures'[k][i] = failures[k][i]
        /\ failures'[k][Len(failures[k]) + 1] = fact
    BY <1>0, <2>4, <2>5
  <2>7. \A i \in 1..Len(failures'[k]) : failures'[k][i].attempt <= attempt
    BY <1>0, <2>3, <2>4, <2>6 DEF FactsBehind
  <2>8. \A i \in 1..Len(failures'[k]) : \A j \in i..Len(failures'[k]) :
          failures'[k][i].attempt <= failures'[k][j].attempt
    <3> SUFFICES ASSUME NEW i \in 1..Len(failures'[k]), NEW j \in i..Len(failures'[k])
                 PROVE  failures'[k][i].attempt <= failures'[k][j].attempt
      OBVIOUS
    <3>1. CASE j = Len(failures[k]) + 1
      BY <2>4, <2>6, <2>7, <3>1
    <3>2. CASE j # Len(failures[k]) + 1
      <4>1. i \in 1..Len(failures[k]) /\ j \in i..Len(failures[k]) /\ j \in 1..Len(failures[k])
        BY <1>0, <2>6, <3>2
      <4> QED BY <2>6, <4>1 DEF FactsBehind
    <3> QED BY <3>1, <3>2
  <2> QED BY <2>2, <2>7, <2>8 DEF FactsBehind
<1>7. CASE RowAged(k)
  BY <1>0, <1>7 DEF RowAged, Jobs, FactsBehind
<1> QED BY <1>1, <1>2, <1>3, <1>4, <1>5, <1>6, <1>7 DEF RowStep

\* No row step puts a token or a fact on an unused key.
LEMMA BlankStep ==
    ASSUME TypeOK, NEW k \in Keys, Blank(k), RowStep(k)
    PROVE  Blank(k)'
<1>0. job[k] \in Jobs
  BY DEF TypeOK
<1>1. CASE RowSame(k)
  BY <1>1 DEF RowSame, Blank
<1>2. CASE RowCreated(k)
  BY <1>2 DEF RowCreated, NewJob, Blank
<1>3. CASE RowLeased(k)
  BY <1>0, <1>3 DEF RowLeased, Leased, Jobs, Blank
<1>4. CASE RowRetired(k)
  BY <1>0, <1>4 DEF RowRetired, Retired, Jobs, Blank
<1>5. CASE RowHeld(k)
  BY <1>0, <1>5 DEF RowHeld, Jobs, Blank
<1>6. CASE RowFailed(k)
  BY <1>0, <1>6 DEF RowFailed, FailedAs, StatusAfter, Jobs, Blank
<1>7. CASE RowAged(k)
  BY <1>0, <1>7 DEF RowAged, Jobs, Blank
<1> QED BY <1>1, <1>2, <1>3, <1>4, <1>5, <1>6, <1>7 DEF RowStep

\* A row step leaves a delay on no row but a ready one.
LEMMA DueStep ==
    ASSUME TypeOK, NEW k \in Keys, Due(k), RowStep(k)
    PROVE  Due(k)'
<1>0. job[k] \in Jobs
  BY DEF TypeOK
<1>1. CASE RowSame(k)
  BY <1>1 DEF RowSame, Due
<1>2. CASE RowCreated(k)
  BY <1>2 DEF RowCreated, NewJob, Due
<1>3. CASE RowLeased(k)
  BY <1>0, <1>3 DEF RowLeased, Leased, Claimable, Expired, Jobs, Due
<1>4. CASE RowRetired(k)
  BY <1>0, <1>4 DEF RowRetired, Retired, Exhausted, Expired, Jobs, Due
<1>5. CASE RowHeld(k)
  BY <1>0, <1>5 DEF RowHeld, Jobs, Due
<1>6. CASE RowFailed(k)
  BY <1>0, <1>6 DEF RowFailed, FailedAs, StatusAfter, Jobs, Due
<1>7. CASE RowAged(k)
  BY <1>0, <1>7 DEF RowAged, Dec, Jobs, Due
<1> QED BY <1>1, <1>2, <1>3, <1>4, <1>5, <1>6, <1>7 DEF RowStep

\* The invariant is inductive.
LEMMA InitQueue == Init => QueueInv
<1> SUFFICES ASSUME Init, NEW k \in Keys
             PROVE  /\ LeaseAgrees(k) /\ WithinBudget(k) /\ FactsBehind(k)
                    /\ Blank(k) /\ Due(k)
  BY InitTypes DEF QueueInv, LeaseAgreement, AttemptBudget, FactsBehindAttempt
<1>1. /\ job[k] = AbsentJob
      /\ lease[k] = NoLease
      /\ issued[k] = 0
      /\ failures[k] = <<>>
  BY DEF Init
<1>2. /\ AbsentJob.status = "absent"
      /\ AbsentJob.attempt = 0
      /\ AbsentJob.by = NoWorker
      /\ AbsentJob.left = 0
      /\ AbsentJob.wait = 0
  BY DEF AbsentJob, NewJob
<1> QED BY <1>1, <1>2 DEF LeaseAgrees, WithinBudget, FactsBehind, Blank, Due

LEMMA QueueStep == QueueInv /\ [Next]_vars => QueueInv'
<1> SUFFICES ASSUME QueueInv, [Next]_vars, NEW k \in Keys
             PROVE  (/\ LeaseAgrees(k) /\ WithinBudget(k) /\ FactsBehind(k)
                     /\ Blank(k) /\ Due(k))'
  BY TypeStep DEF QueueInv, LeaseAgreement, AttemptBudget, FactsBehindAttempt
<1>1. /\ TypeOK /\ RowStep(k)
      /\ LeaseAgrees(k) /\ WithinBudget(k) /\ FactsBehind(k) /\ Blank(k) /\ Due(k)
  BY RowSteps DEF QueueInv, LeaseAgreement, AttemptBudget, FactsBehindAttempt
<1> QED BY <1>1, LeaseAgreesStep, WithinBudgetStep, FactsBehindStep, BlankStep, DueStep

\* The invariant holds of the queue.
THEOREM QueueInvariant == Spec => []QueueInv
BY InitQueue, QueueStep, PTL DEF Spec

\* At every moment the lease table and the job table tell the same story, and
\* the only token a holder command accepts is the last one issued.
THEOREM LeasesAgree == Spec => []LeaseAgreement
BY QueueInvariant, PTL DEF QueueInv

\* No row is ever claimable without an attempt left, whatever workers and
\* operators do.
THEOREM BudgetKept == Spec => []AttemptBudget
BY QueueInvariant, PTL DEF QueueInv

\* A holder's failure is never swallowed as a duplicate.
THEOREM FactsInOrder == Spec => []FactsBehindAttempt
BY QueueInvariant, PTL DEF QueueInv

-----------------------------------------------------------------------------
(* What a step may never do *)

\* A row step leaves a row that has succeeded or been dead-lettered as it was.
LEMMA TerminalStep ==
    ASSUME QueueInv, QueueInv', [Next]_vars, NEW k \in Keys, job[k].status \in Terminal
    PROVE  job'[k] = job[k]
<1>1. job[k] \in Jobs /\ job'[k] \in Jobs /\ RowStep(k) /\ TypeOK
  BY RowSteps DEF QueueInv, TypeOK
<1>2. ~RowCreated(k) /\ ~RowLeased(k) /\ ~RowRetired(k) /\ ~RowHeld(k) /\ ~RowFailed(k)
  BY DEF RowCreated, RowLeased, Claimable, Expired, RowRetired, Exhausted, RowHeld,
         RowFailed, FailedAs
<1>3. CASE RowSame(k)
  BY <1>3 DEF RowSame
<1>4. CASE RowAged(k)
  \* A terminal row has no lease time left to age, and is due already.
  <2>1. job[k].left = 0 /\ job[k].wait = 0
    BY DEF QueueInv, LeaseAgreement, LeaseAgrees, Due
  <2>2. job'[k] = [job[k] EXCEPT !.wait = 0, !.left = 0]
    BY <1>4, <2>1 DEF RowAged, Dec
  <2>3. \A r \in Jobs : r.wait = 0 /\ r.left = 0 => [r EXCEPT !.wait = 0, !.left = 0] = r
    BY DEF Jobs
  <2> QED BY <1>1, <2>1, <2>2, <2>3
<1> QED BY <1>1, <1>2, <1>3, <1>4 DEF RowStep

\* A row that has succeeded or been dead-lettered is never written again.
THEOREM TerminalRowsFrozen == Spec => TerminalFrozen
<1>1. QueueInv /\ QueueInv' /\ [Next]_vars =>
        \A k \in Keys : job[k].status \in Terminal => job'[k] = job[k]
  BY TerminalStep
<1> QED BY <1>1, QueueInvariant, PTL DEF Spec, TerminalFrozen

-----------------------------------------------------------------------------
(* Refinement *)

Phase == [k \in Keys |-> PhaseOf(job[k].status)]

Still(k) == PhaseOf(job'[k].status) = PhaseOf(job[k].status) /\ issued'[k] = issued[k]

\* A row step that issues no token leaves the phase alone or is one the
\* contract allows.
LEMMA PhaseStep ==
    ASSUME QueueInv, NEW k \in Keys, RowStep(k), ~RowLeased(k)
    PROVE  /\ issued'[k] = issued[k]
           /\ \/ PhaseOf(job'[k].status) = PhaseOf(job[k].status)
              \/ /\ PhaseOf(job[k].status) = "new"
                 /\ PhaseOf(job'[k].status) = "waiting"
              \/ /\ PhaseOf(job[k].status) \in {"waiting", "held", "failed"}
                 /\ PhaseOf(job'[k].status) \in {"waiting", "failed", "done"}
                 /\ PhaseOf(job'[k].status) = "waiting" => issued[k] < MaxAttempts
<1>0. /\ job[k] \in Jobs /\ issued[k] \in Nat /\ job[k].attempt \in Nat
      /\ WithinBudget(k)
  BY DEF QueueInv, TypeOK, Jobs, AttemptBudget
<1>1. CASE RowSame(k)
  BY <1>1 DEF RowSame
<1>2. CASE RowCreated(k)
  BY <1>2 DEF RowCreated, NewJob, PhaseOf
<1>3. CASE RowRetired(k)
  BY <1>0, <1>3 DEF RowRetired, Retired, Exhausted, Expired, Jobs, PhaseOf
<1>4. CASE RowHeld(k)
  BY <1>0, <1>4 DEF RowHeld, Jobs, PhaseOf
<1>5. CASE RowFailed(k)
  <2>1. PICK class \in ErrorClasses, code \in Codes, attempt \in Nat, delay \in Nat :
          FailedAs(k, class, code, attempt, delay)
    BY <1>5 DEF RowFailed
  <2>2. /\ issued'[k] = issued[k]
        /\ job'[k].status = StatusAfter(class, attempt)
        /\ issued[k] <= attempt
    BY <1>0, <2>1 DEF FailedAs, Jobs, WithinBudget
  <2>3. StatusAfter(class, attempt) = "retry_scheduled" => issued[k] < MaxAttempts
    BY <1>0, <2>2, MaxAttemptsAssumption DEF StatusAfter
  <2>4. job[k].status \in Statuses \ (Terminal \cup {"absent"})
    BY <1>0, <2>1 DEF FailedAs, Jobs
  <2> QED BY <2>2, <2>3, <2>4 DEF StatusAfter, PhaseOf
<1>6. CASE RowAged(k)
  BY <1>0, <1>6 DEF RowAged, Jobs
<1> QED BY <1>1, <1>2, <1>3, <1>4, <1>5, <1>6 DEF RowStep

\* Recording a failure leaves every other row alone.
LEMMA RecordOneRow ==
    ASSUME TypeOK, NEW k \in Keys, NEW class, NEW code, NEW attempt, NEW delay,
           Record(k, class, code, attempt, delay), UNCHANGED issued
    PROVE  \A i \in Keys \ {k} : Still(i)
BY DEF Record, TypeOK, Still

\* A step that is no claim moves the phase of one row at most, and issues no
\* token.
LEMMA OneRow ==
    ASSUME TypeOK, [Next]_vars, ~\E w \in Workers, n \in 1..BatchSize : Claim(w, n)
    PROVE  /\ issued' = issued
           /\ \/ \A i \in Keys : Still(i)
              \/ \E k \in Keys : \A i \in Keys \ {k} : Still(i)
<1>1. ASSUME NEW k \in Keys, NEW a \in Aggregates, NEW wait \in 0..MaxWait,
             Enqueue(k, a, wait)
      PROVE  issued' = issued /\ \A i \in Keys \ {k} : Still(i)
  BY <1>1 DEF Enqueue, TypeOK, Still
<1>2. ASSUME NEW k \in Keys, NEW w \in Workers, NEW t \in 1..issued[k],
             HolderStep(k, w, t)
      PROVE  issued' = issued /\ \A i \in Keys \ {k} : Still(i)
  <2>1. CASE Heartbeat(k, w, t) \/ Start(k, w, t) \/ Complete(k, w, t)
    BY <2>1 DEF Heartbeat, Start, Complete, TypeOK, Still
  <2>2. ASSUME NEW class \in ErrorClasses, NEW code \in Codes, NEW delay \in Delays,
               Fail(k, w, t, class, code, delay)
        PROVE  issued' = issued /\ \A i \in Keys \ {k} : Still(i)
    BY <2>2, RecordOneRow DEF Fail
  <2> QED BY <1>2, <2>1, <2>2 DEF HolderStep
<1>3. ASSUME NEW k \in Keys, NEW class \in ErrorClasses, NEW code \in Codes,
             NEW delay \in Delays,
             NEW attempt \in {job[k].attempt, job[k].attempt + 1},
             Report(k, class, code, attempt, delay)
      PROVE  issued' = issued /\ \A i \in Keys \ {k} : Still(i)
  BY <1>3, RecordOneRow DEF Report
<1>4. ASSUME NEW r \in asked, NEW delay \in Delays, DoRetry(r, delay)
      PROVE  issued' = issued /\ \E k \in Keys : \A i \in Keys \ {k} : Still(i)
  <2>1. r.key \in Keys
    BY DEF TypeOK, Asks
  <2>2. CASE Record(r.key, "transient", ManualRetryCode, r.attempt, delay)
    BY <1>4, <2>1, <2>2, RecordOneRow DEF DoRetry
  <2>3. CASE UNCHANGED <<job, lease, failures, review>>
    BY <1>4, <2>1, <2>3 DEF DoRetry, Still
  <2> QED BY <1>4, <2>2, <2>3 DEF DoRetry
<1>5. ASSUME NEW k \in Keys, NEW new \in Keys, RequeueDead(k, new) \/ Replay(k, new)
      PROVE  issued' = issued /\ \A i \in Keys \ {new} : Still(i)
  BY <1>5 DEF RequeueDead, Replay, Copy, TypeOK, Still
<1>6. ASSUME NEW k \in Keys, AskRetry(k)
      PROVE  issued' = issued /\ \A i \in Keys : Still(i)
  BY <1>6 DEF AskRetry, Still
<1>7. ASSUME NEW a \in Aggregates, CompleteReview(a)
      PROVE  issued' = issued /\ \A i \in Keys : Still(i)
  BY <1>7 DEF CompleteReview, Still
<1>8. CASE SetPaused \/ UNCHANGED vars
  BY <1>8 DEF SetPaused, vars, Still
<1>9. CASE Tick
  <2>1. \A i \in Keys : job'[i].status = job[i].status
    <3> SUFFICES ASSUME NEW i \in Keys PROVE job'[i].status = job[i].status
      OBVIOUS
    <3>1. job[i] \in Jobs
      BY DEF TypeOK
    <3>2. job'[i] = [job[i] EXCEPT !.wait = Dec(job[i].wait), !.left = Dec(job[i].left)]
      BY <1>9 DEF Tick
    <3> QED BY <3>1, <3>2 DEF Jobs
  <2>2. issued' = issued
    BY <1>9 DEF Tick
  <2> QED BY <2>1, <2>2 DEF Still
<1>10. CASE OperatorStep
  BY <1>3, <1>4, <1>5, <1>6, <1>10 DEF OperatorStep
<1> QED BY <1>1, <1>2, <1>7, <1>8, <1>9, <1>10 DEF Next

\* A claim hands out the batch and gives up the exhausted rows.
LEMMA ClaimHandsOut ==
    ASSUME QueueInv, NEW w \in Workers, NEW n \in 1..BatchSize, Claim(w, n)
    PROVE  Contract!Next
<1> DEFINE D == {k \in Keys : Exhausted(k)}
<1>1. PICK S \in Batches(n) :
        /\ job' = [k \in Keys |-> IF Exhausted(k) THEN Retired(k)
                                  ELSE IF k \in S THEN Leased(k, w) ELSE job[k]]
        /\ issued' = [k \in Keys |-> IF k \in S THEN issued[k] + 1 ELSE issued[k]]
  BY DEF Claim
<1>2. S \subseteq Keys /\ \A k \in S : Claimable(k)
  BY DEF Batches
<1>3. S \cap D = {}
  BY <1>2 DEF Claimable, Exhausted, Expired
<1>4. ASSUME NEW k \in S
      PROVE  Phase[k] \in {"waiting", "held"} /\ issued[k] < MaxAttempts
  <2>1. k \in Keys /\ Claimable(k) /\ job[k] \in Jobs /\ WithinBudget(k)
    BY <1>2 DEF QueueInv, TypeOK, AttemptBudget
  <2>2. job[k].attempt \in Nat /\ issued[k] \in Nat
    BY <2>1 DEF QueueInv, TypeOK, Jobs
  <2>3. job[k].attempt < MaxAttempts
    BY <2>1, <2>2, MaxAttemptsAssumption DEF Claimable, Exhausted, WithinBudget
  <2>4. issued[k] < MaxAttempts
    BY <2>1, <2>2, <2>3, MaxAttemptsAssumption DEF WithinBudget
  <2>5. Phase[k] \in {"waiting", "held"}
    BY <2>1 DEF Claimable, Expired, Phase, PhaseOf
  <2> QED BY <2>4, <2>5
<1>5. \A k \in D : Phase[k] = "held"
  BY DEF Exhausted, Expired, Phase, PhaseOf
<1>6. \A k \in Keys : PhaseOf(job'[k].status) = IF k \in D THEN "done"
                                                ELSE IF k \in S THEN "held" ELSE Phase[k]
  <2> SUFFICES ASSUME NEW k \in Keys
               PROVE  PhaseOf(job'[k].status) = IF k \in D THEN "done"
                                                ELSE IF k \in S THEN "held" ELSE Phase[k]
    OBVIOUS
  <2>1. job[k] \in Jobs
    BY DEF QueueInv, TypeOK
  <2>2. CASE k \in D
    BY <1>1, <2>1, <2>2 DEF Retired, Jobs, PhaseOf
  <2>3. CASE k \notin D /\ k \in S
    BY <1>1, <2>1, <2>3 DEF Leased, Jobs, PhaseOf
  <2>4. CASE k \notin D /\ k \notin S
    BY <1>1, <2>4 DEF Phase
  <2> QED BY <2>2, <2>3, <2>4
<1>7. Phase' = [k \in Keys |-> IF k \in D THEN "done"
                               ELSE IF k \in S THEN "held" ELSE Phase[k]]
  BY <1>6 DEF Phase
<1> HIDE DEF D
<1>8. Contract!HandOut(S, D)
  BY <1>1, <1>3, <1>4, <1>5, <1>7 DEF Contract!HandOut, Phase
<1>9. S \in SUBSET Keys /\ D \in SUBSET Keys
  BY <1>2 DEF D
<1> QED BY <1>8, <1>9 DEF Contract!Next

\* Every step of the queue is a step of the contract, or one it does not see.
LEMMA ContractStep ==
    ASSUME QueueInv, [Next]_vars
    PROVE  [Contract!Next]_<<Phase, issued>>
<1>0. TypeOK /\ \A i \in Keys : RowStep(i)
  BY RowSteps DEF QueueInv
<1>1. CASE \E w \in Workers, n \in 1..BatchSize : Claim(w, n)
  BY <1>1, ClaimHandsOut
<1>2. CASE ~\E w \in Workers, n \in 1..BatchSize : Claim(w, n)
  <2>1. /\ issued' = issued
        /\ \/ \A i \in Keys : Still(i)
           \/ \E k \in Keys : \A i \in Keys \ {k} : Still(i)
    BY <1>0, <1>2, OneRow
  <2>2. CASE \A i \in Keys : Still(i)
    BY <2>1, <2>2 DEF Still, Phase
  <2>3. ASSUME NEW k \in Keys, \A i \in Keys \ {k} : Still(i)
        PROVE  [Contract!Next]_<<Phase, issued>>
    <3> DEFINE p == PhaseOf(job'[k].status)
    <3>1. ~RowLeased(k)
      BY <1>0, <2>1 DEF RowLeased, TypeOK
    <3>2. \/ p = Phase[k]
          \/ Phase[k] = "new" /\ p = "waiting"
          \/ /\ Phase[k] \in {"waiting", "held", "failed"}
             /\ p \in {"waiting", "failed", "done"}
             /\ p = "waiting" => issued[k] < MaxAttempts
      BY <1>0, <3>1, PhaseStep DEF Phase
    <3>3. Phase' = [Phase EXCEPT ![k] = p]
      BY <2>3 DEF Phase, Still
    <3> HIDE DEF p
    <3>4. CASE p = Phase[k]
      BY <2>1, <3>3, <3>4 DEF Phase
    <3>5. CASE Phase[k] = "new" /\ p = "waiting"
      <4>1. Contract!Create(k)
        BY <2>1, <3>3, <3>5 DEF Contract!Create, Phase
      <4> QED BY <4>1 DEF Contract!Next
    <3>6. CASE /\ Phase[k] \in {"waiting", "held", "failed"}
               /\ p \in {"waiting", "failed", "done"}
               /\ p = "waiting" => issued[k] < MaxAttempts
      <4>1. Contract!Settle(k, p)
        BY <2>1, <3>3, <3>6 DEF Contract!Settle, Phase
      <4>2. p \in Contract!Phases
        BY <3>6 DEF Contract!Phases
      <4> QED BY <4>1, <4>2 DEF Contract!Next
    <3> QED BY <3>2, <3>4, <3>5, <3>6
  <2> QED BY <2>1, <2>2, <2>3
<1> QED BY <1>1, <1>2

\* The queue implements its contract: at most max_attempts leases for a row,
\* none for a row that has ended, and every outcome one the contract allows.
THEOREM QueueImplementsContract == Spec => ContractHolds
<1>1. Init => Contract!Init
  BY DEF Init, AbsentJob, NewJob, PhaseOf, Contract!Init
<1>2. QueueInv /\ [Next]_vars => [Contract!Next]_<<Phase, issued>>
  BY ContractStep
<1>3. Contract!Spec <=> Contract!Init /\ [][Contract!Next]_<<Phase, issued>>
  BY DEF Contract!Spec, Phase
<1> QED BY <1>1, <1>2, <1>3, QueueInvariant, PTL DEF Spec, ContractHolds

-----------------------------------------------------------------------------
(***************************************************************************)
(* Failed rows.  The facts of a row are enough to say whether it rests, so *)
(* NewestFactDecides is inductive; with it the source of a copy is failed  *)
(* or dead-lettered, or has on record what took it up again.               *)
(***************************************************************************)
RecordInv == NewestFactDecides /\ CopiedSourceOnRecord

\* The steps of workers, of the paths that copy rows, and of the environment.
WorkStep ==
    \/ \E k \in Keys, a \in Aggregates, wait \in 0..MaxWait : Enqueue(k, a, wait)
    \/ \E w \in Workers, n \in 1..BatchSize : Claim(w, n)
    \/ \E k \in Keys, w \in Workers : \E t \in 1..issued[k] : HolderStep(k, w, t)
    \/ \E k, new \in Keys : RequeueDead(k, new) \/ Replay(k, new)
    \/ \E a \in Aggregates : CompleteReview(a)
    \/ SetPaused
    \/ Tick
    \/ UNCHANGED vars

\* A command of a lease holder is about a held row and changes no other.
LEMMA HolderRows ==
    ASSUME TypeOK, NEW k \in Keys, NEW w, NEW t, HolderStep(k, w, t)
    PROVE  /\ job[k].status \in Held
           /\ \A i \in Keys \ {k} : RowSame(i)
           /\ asked' = asked
<1>1. ValidLease(k, w, t) /\ asked' = asked
  BY DEF HolderStep, Heartbeat, Start, Complete, Fail
<1>2. job[k].status \in Held
  BY <1>1 DEF ValidLease
<1>3. CASE Heartbeat(k, w, t) \/ Start(k, w, t) \/ Complete(k, w, t)
  BY <1>1, <1>2, <1>3 DEF Heartbeat, Start, Complete, TypeOK, RowSame
<1>4. ASSUME NEW class \in ErrorClasses, NEW code \in Codes, NEW delay \in Delays,
             Fail(k, w, t, class, code, delay)
      PROVE  \A i \in Keys \ {k} : RowSame(i)
  BY <1>4 DEF Fail, Record, TypeOK, RowSame
<1> QED BY <1>1, <1>2, <1>3, <1>4 DEF HolderStep

\* None of those revives a failed row.
LEMMA FailedRests ==
    ASSUME TypeOK, WorkStep, NEW k \in Keys, job[k].status = "failed"
    PROVE  job'[k].status = "failed"
<1>0. job[k] \in Jobs
  BY DEF TypeOK
<1>1. ASSUME NEW i \in Keys, NEW a \in Aggregates, NEW wait \in 0..MaxWait,
             Enqueue(i, a, wait)
      PROVE  job'[k].status = "failed"
  BY <1>1 DEF Enqueue, TypeOK
<1>2. ASSUME NEW w \in Workers, NEW n \in 1..BatchSize, Claim(w, n)
      PROVE  job'[k].status = "failed"
  <2>1. ~Claimable(k) /\ ~Exhausted(k)
    BY DEF Claimable, Exhausted, Expired
  <2>2. job'[k] = job[k]
    BY <1>2, <2>1 DEF Claim, Batches
  <2> QED BY <2>2
<1>3. ASSUME NEW i \in Keys, NEW w \in Workers, NEW t \in 1..issued[i],
             HolderStep(i, w, t)
      PROVE  job'[k].status = "failed"
  BY <1>3, HolderRows DEF RowSame
<1>4. ASSUME NEW i \in Keys, NEW new \in Keys, RequeueDead(i, new) \/ Replay(i, new)
      PROVE  job'[k].status = "failed"
  BY <1>4 DEF RequeueDead, Replay, Copy, TypeOK
<1>5. CASE (\E a \in Aggregates : CompleteReview(a)) \/ SetPaused \/ UNCHANGED vars
  BY <1>5 DEF CompleteReview, SetPaused, vars
<1>6. CASE Tick
  BY <1>0, <1>6 DEF Tick, Jobs
<1> QED BY <1>1, <1>2, <1>3, <1>4, <1>5, <1>6 DEF WorkStep

\* A new copy names a source that had ended without success.
LEMMA CopySource ==
    ASSUME TypeOK, [Next]_vars, NEW k \in Keys, RowCreated(k)
    PROVE  \/ job'[k].from = NoKey
           \/ /\ job'[k].from \in Keys
              /\ job[job'[k].from].status \in {"failed", "dead_letter"}
<1>0. job[k] \in Jobs /\ job'[k].status = "queued" /\ job[k].status = "absent"
  BY DEF TypeOK, RowCreated, NewJob
<1>1. ASSUME NEW i \in Keys, NEW a \in Aggregates, NEW wait \in 0..MaxWait,
             Enqueue(i, a, wait)
      PROVE  job'[k].from = NoKey
  <2>1. i = k
    BY <1>0, <1>1 DEF Enqueue, TypeOK
  <2> QED BY <1>1, <2>1 DEF Enqueue, TypeOK, NewJob
<1>2. ASSUME NEW i \in Keys, NEW new \in Keys, RequeueDead(i, new) \/ Replay(i, new)
      PROVE  job'[k].from \in Keys /\ job[job'[k].from].status \in {"failed", "dead_letter"}
  <2>1. Copy(i, new) /\ job[i].status \in {"failed", "dead_letter"}
    BY <1>2 DEF RequeueDead, Replay
  <2>2. new = k
    BY <1>0, <2>1 DEF Copy, TypeOK
  <2>3. job'[k].from = i
    BY <2>1, <2>2 DEF Copy, TypeOK, NewJob
  <2> QED BY <2>1, <2>3
<1>3. ASSUME NEW w \in Workers, NEW n \in 1..BatchSize, Claim(w, n)
      PROVE  FALSE
  <2>1. ~Claimable(k) /\ ~Exhausted(k)
    BY <1>0 DEF Claimable, Exhausted, Expired
  <2>2. job'[k] = job[k]
    BY <1>3, <2>1 DEF Claim, Batches
  <2> QED BY <1>0, <2>2
<1>4. ASSUME NEW i \in Keys, NEW w \in Workers, NEW t \in 1..issued[i],
             HolderStep(i, w, t)
      PROVE  FALSE
  <2>1. ValidLease(i, w, t) /\ i # k
    BY <1>0, <1>4 DEF HolderStep, Heartbeat, Start, Complete, Fail, ValidLease
  <2>2. job'[k] = job[k]
    BY <1>4, <2>1 DEF HolderStep, Heartbeat, Start, Complete, Fail, Record, TypeOK
  <2> QED BY <1>0, <2>2
<1>5. ASSUME NEW i \in Keys, NEW class, NEW code, NEW attempt, NEW delay,
             Record(i, class, code, attempt, delay)
      PROVE  FALSE
  <2>1. i # k
    BY <1>0, <1>5 DEF Record
  <2>2. job'[k] = job[k]
    BY <1>5, <2>1 DEF Record, TypeOK
  <2> QED BY <1>0, <2>2
<1>6. ASSUME NEW r \in asked, NEW delay \in Delays, DoRetry(r, delay)
      PROVE  FALSE
  BY <1>0, <1>5, <1>6 DEF DoRetry, TypeOK, Asks
<1>7. CASE OperatorStep
  <2>1. ~\E i \in Keys : AskRetry(i)
    BY <1>0 DEF AskRetry
  <2>2. ~\E i \in Keys, class \in ErrorClasses, code \in Codes, delay \in Delays :
          \E attempt \in {job[i].attempt, job[i].attempt + 1} :
              Report(i, class, code, attempt, delay)
    BY <1>5 DEF Report
  <2> QED BY <1>2, <1>6, <1>7, <2>1, <2>2 DEF OperatorStep
<1>8. ~ \/ \E a \in Aggregates : CompleteReview(a)
        \/ SetPaused \/ UNCHANGED vars
  BY <1>0 DEF CompleteReview, SetPaused, vars
<1>9. ~Tick
  <2>1. Tick => job'[k] = [job[k] EXCEPT !.wait = Dec(@), !.left = Dec(@)]
    BY DEF Tick
  <2> QED BY <1>0, <2>1 DEF Jobs
<1> QED BY <1>1, <1>2, <1>3, <1>4, <1>7, <1>8, <1>9 DEF Next

\* The source named by an existing row never changes.
LEMMA SourceKept ==
    ASSUME TypeOK, NEW k \in Keys, RowStep(k), ~RowCreated(k)
    PROVE  job'[k].from = job[k].from
<1>1. job[k] \in Jobs
  BY DEF TypeOK
<1>2. RowSame(k) \/ RowLeased(k) \/ RowRetired(k) \/ RowHeld(k) \/ RowFailed(k) \/ RowAged(k)
  BY DEF RowStep
<1>3. CASE RowSame(k) \/ RowLeased(k) \/ RowRetired(k)
  BY <1>1, <1>3 DEF RowSame, RowLeased, Leased, RowRetired, Retired, Jobs
<1>4. CASE RowHeld(k) \/ RowAged(k)
  BY <1>1, <1>4 DEF RowHeld, RowAged, Jobs
<1>5. CASE RowFailed(k)
  BY <1>1, <1>5 DEF RowFailed, FailedAs, Jobs
<1> QED BY <1>2, <1>3, <1>4, <1>5

\* A step that adds an unknown fact leaves the row failed.
LEMMA UnknownFactFails ==
    ASSUME TypeOK, NEW k \in Keys, RowStep(k), HasUnknown(k)', ~HasUnknown(k)
    PROVE  job'[k].status = "failed"
<1>0. job[k] \in Jobs /\ failures[k] \in Seq(Facts)
  BY DEF TypeOK
<1>1. failures'[k] # failures[k]
  BY DEF HasUnknown
<1>2. RowFailed(k)
  BY <1>1 DEF RowStep, RowSame, RowCreated, RowLeased, RowRetired, RowHeld, RowAged
<1>3. PICK class \in ErrorClasses, code \in Codes, attempt \in Nat, delay \in Nat :
        FailedAs(k, class, code, attempt, delay)
  BY <1>2 DEF RowFailed
<1> DEFINE fact == [attempt |-> attempt, class |-> class, code |-> code]
<1>4. fact \in Facts /\ fact.class = class
  BY DEF Facts
<1>5. failures'[k] = Append(failures[k], fact)
  BY <1>3 DEF FailedAs
<1> HIDE DEF fact
<1>6. /\ Len(failures'[k]) = Len(failures[k]) + 1
      /\ \A i \in 1..Len(failures[k]) : failures'[k][i] = failures[k][i]
      /\ failures'[k][Len(failures[k]) + 1] = fact
  BY <1>0, <1>4, <1>5
<1>7. class = "unknown"
  BY <1>0, <1>4, <1>6 DEF HasUnknown
<1>8. job'[k].status = StatusAfter(class, attempt)
  BY <1>0, <1>3 DEF FailedAs, Jobs
<1> QED BY <1>7, <1>8 DEF StatusAfter

\* A fact that is filed is the newest; those before it stay where they are.
LEMMA FactFiled ==
    ASSUME TypeOK, NEW k \in Keys, NEW class \in ErrorClasses, NEW code \in Codes,
           NEW attempt \in Nat, NEW delay \in Nat, FailedAs(k, class, code, attempt, delay)
    PROVE  /\ failures[k] \in Seq(Facts) /\ Len(failures[k]) \in Nat
           /\ Len(failures'[k]) = Len(failures[k]) + 1
           /\ \A i \in 1..Len(failures[k]) : failures'[k][i] = failures[k][i]
           /\ failures'[k][Len(failures'[k])].class = class
           /\ failures'[k][Len(failures'[k])].attempt = attempt
           /\ job'[k].status = StatusAfter(class, attempt) /\ job'[k].attempt = attempt
<1> DEFINE fact == [attempt |-> attempt, class |-> class, code |-> code]
<1>1. job[k] \in Jobs /\ failures[k] \in Seq(Facts)
  BY DEF TypeOK
<1>2. fact \in Facts /\ fact.class = class /\ fact.attempt = attempt
  BY DEF Facts
<1>3. failures'[k] = Append(failures[k], fact)
  BY DEF FailedAs
<1> HIDE DEF fact
<1>4. /\ Len(failures'[k]) = Len(failures[k]) + 1
      /\ \A i \in 1..Len(failures[k]) : failures'[k][i] = failures[k][i]
      /\ failures'[k][Len(failures[k]) + 1] = fact
  BY <1>1, <1>2, <1>3
<1>5. job'[k].status = StatusAfter(class, attempt) /\ job'[k].attempt = attempt
  BY <1>1 DEF FailedAs, Jobs
<1> QED BY <1>1, <1>2, <1>4, <1>5

\* No row step makes a row failed or takes it up again without saying so.
LEMMA DecidedStep ==
    ASSUME TypeOK, NEW k \in Keys, RowStep(k), Decided(k)
    PROVE  Decided(k)'
<1>1. job[k] \in Jobs
  BY DEF TypeOK
<1>2. CASE RowFailed(k)
  <2>1. PICK class \in ErrorClasses, code \in Codes, attempt \in Nat, delay \in Nat :
          FailedAs(k, class, code, attempt, delay)
    BY <1>2 DEF RowFailed
  <2>2. /\ failures'[k] # <<>>
        /\ Latest(k)'.class = class /\ Latest(k)'.attempt = attempt
        /\ job'[k].status = StatusAfter(class, attempt) /\ job'[k].attempt = attempt
    <3>1. Len(failures[k]) \in Nat /\ Len(failures'[k]) = Len(failures[k]) + 1
      BY <2>1, FactFiled
    <3>2. failures'[k] # <<>>
      BY <3>1
    <3>3. /\ failures'[k][Len(failures'[k])].class = class
          /\ failures'[k][Len(failures'[k])].attempt = attempt
          /\ job'[k].status = StatusAfter(class, attempt) /\ job'[k].attempt = attempt
      BY <2>1, FactFiled
    <3> QED BY <3>2, <3>3 DEF Latest
  <2>3. StatusAfter(class, attempt) = "failed" <=> class # "transient"
    BY DEF StatusAfter
  <2> QED BY <2>2, <2>3 DEF Decided, Rests
<1>3. CASE ~RowFailed(k)
  <2>1. failures'[k] = failures[k]
    BY <1>3 DEF RowStep, RowSame, RowCreated, RowLeased, RowRetired, RowHeld, RowAged
  <2>2. /\ job'[k].status = "failed" <=> job[k].status = "failed"
        /\ job[k].status = "failed" => job'[k].attempt = job[k].attempt
    <3>1. CASE RowSame(k) \/ RowAged(k)
      BY <1>1, <3>1 DEF RowSame, RowAged, Jobs
    <3>2. CASE RowCreated(k)
      BY <1>1, <3>2 DEF RowCreated, NewJob
    <3>3. CASE RowLeased(k) \/ RowRetired(k)
      <4>1. job[k].status # "failed"
        BY <3>3 DEF RowLeased, RowRetired, Claimable, Exhausted, Expired, Held, Ready
      <4>2. job'[k].status # "failed"
        <5>1. CASE RowLeased(k)
          <6>1. PICK w \in Workers : job'[k] = Leased(k, w)
            BY <5>1 DEF RowLeased
          <6> QED BY <1>1, <6>1 DEF Leased, Jobs
        <5>2. CASE RowRetired(k)
          BY <1>1, <5>2 DEF RowRetired, Retired, Jobs
        <5> QED BY <3>3, <5>1, <5>2
      <4> QED BY <4>1, <4>2
    <3>4. CASE RowHeld(k)
      BY <1>1, <3>4 DEF RowHeld, Held, Jobs
    <3> QED BY <1>3, <3>1, <3>2, <3>3, <3>4 DEF RowStep
  <2> QED BY <2>1, <2>2 DEF Decided, Rests, Latest
<1> QED BY <1>2, <1>3

\* What took a row up again stays on record.
LEMMA RevivalKept ==
    ASSUME TypeOK, NEW k \in Keys, RowStep(k), RevivedOnRecord(k)
    PROVE  RevivedOnRecord(k)'
<1>1. failures[k] \in Seq(Facts) /\ Len(failures[k]) \in Nat
  BY DEF TypeOK
<1>2. PICK i \in 1..(Len(failures[k]) - 1) :
        /\ failures[k][i].class # "transient"
        /\ failures[k][i + 1].class = "transient"
        /\ failures[k][i + 1].attempt \in {failures[k][i].attempt, failures[k][i].attempt + 1}
  BY DEF RevivedOnRecord
<1>3. CASE RowFailed(k)
  <2>1. PICK class \in ErrorClasses, code \in Codes, attempt \in Nat, delay \in Nat :
          FailedAs(k, class, code, attempt, delay)
    BY <1>3 DEF RowFailed
  <2>2. /\ Len(failures'[k]) = Len(failures[k]) + 1
        /\ \A n \in 1..Len(failures[k]) : failures'[k][n] = failures[k][n]
    BY <2>1, FactFiled
  <2>3. i \in 1..Len(failures[k]) /\ i + 1 \in 1..Len(failures[k]) /\ i \in 1..(Len(failures'[k]) - 1)
    BY <1>1, <1>2, <2>2
  <2> QED BY <1>2, <2>2, <2>3 DEF RevivedOnRecord
<1>4. CASE ~RowFailed(k)
  <2>1. failures'[k] = failures[k]
    BY <1>4 DEF RowStep, RowSame, RowCreated, RowLeased, RowRetired, RowHeld, RowAged
  <2> QED BY <2>1 DEF RevivedOnRecord
<1> QED BY <1>3, <1>4

\* A row that is failed or dead-lettered stays so, or goes on record.
LEMMA RetiredStep ==
    ASSUME TypeOK, NEW k \in Keys, RowStep(k), Decided(k),
           job[k].status \in {"failed", "dead_letter"}
    PROVE  job'[k].status \in {"failed", "dead_letter"} \/ RevivedOnRecord(k)'
<1>1. job[k] \in Jobs
  BY DEF TypeOK
<1>2. CASE RowSame(k) \/ RowAged(k)
  BY <1>1, <1>2 DEF RowSame, RowAged, Jobs
<1>3. ~ (RowCreated(k) \/ RowLeased(k) \/ RowRetired(k) \/ RowHeld(k))
  BY DEF RowCreated, RowLeased, RowRetired, RowHeld, Claimable, Exhausted, Expired, Held, Ready
<1>4. CASE RowFailed(k)
  <2>1. PICK class \in ErrorClasses, code \in Codes, attempt \in Nat, delay \in Nat :
          FailedAs(k, class, code, attempt, delay)
    BY <1>4 DEF RowFailed
  <2>2. CASE class # "transient"
    <3>1. job'[k].status = StatusAfter(class, attempt)
      BY <2>1, FactFiled
    <3> QED BY <2>2, <3>1 DEF StatusAfter
  <2>3. CASE class = "transient"
    <3>1. job[k].status = "failed" /\ attempt \in {job[k].attempt, job[k].attempt + 1}
      BY <2>1 DEF FailedAs, Terminal
    <3>2. /\ failures[k] # <<>>
          /\ failures[k][Len(failures[k])].class # "transient"
          /\ failures[k][Len(failures[k])].attempt = job[k].attempt
      BY <3>1 DEF Decided, Rests, Latest
    <3>3. /\ failures[k] \in Seq(Facts) /\ Len(failures'[k]) = Len(failures[k]) + 1
          /\ \A i \in 1..Len(failures[k]) : failures'[k][i] = failures[k][i]
          /\ failures'[k][Len(failures'[k])].class = class
          /\ failures'[k][Len(failures'[k])].attempt = attempt
      BY <2>1, FactFiled
    <3> DEFINE n == Len(failures[k])
    <3>4. n \in 1..n /\ n \in 1..(Len(failures'[k]) - 1) /\ Len(failures'[k]) = n + 1
      BY <3>2, <3>3
    <3> HIDE DEF n
    <3>5. /\ failures'[k][n].class # "transient" /\ failures'[k][n].attempt = job[k].attempt
          /\ failures'[k][n + 1].class = "transient" /\ failures'[k][n + 1].attempt = attempt
      BY <2>3, <3>2, <3>3, <3>4 DEF n
    <3> QED BY <3>1, <3>4, <3>5 DEF RevivedOnRecord
  <2> QED BY <2>2, <2>3
<1> QED BY <1>2, <1>3, <1>4 DEF RowStep

\* The facts say which rows rest and what took the others up again, under every
\* command of workers, operators and API callers.
THEOREM RecordInvariant == Spec => []RecordInv
<1>1. Init => RecordInv
  <2> SUFFICES ASSUME Init PROVE RecordInv
    OBVIOUS
  <2>1. \A k \in Keys : failures[k] = <<>> /\ job[k].from = NoKey /\ job[k].status = "absent"
    BY DEF Init, AbsentJob, NewJob
  <2> QED BY <2>1 DEF RecordInv, NewestFactDecides, Decided, Rests, CopiedSourceOnRecord
<1>2. QueueInv /\ RecordInv /\ [Next]_vars => RecordInv'
  <2> SUFFICES ASSUME QueueInv, RecordInv, [Next]_vars PROVE RecordInv'
    OBVIOUS
  <2>0. TypeOK /\ \A k \in Keys : RowStep(k) /\ Decided(k)
    BY RowSteps DEF QueueInv, RecordInv, NewestFactDecides
  <2>1. NewestFactDecides'
    <3> SUFFICES ASSUME NEW k \in Keys PROVE Decided(k)'
      BY DEF NewestFactDecides
    <3> QED BY <2>0, DecidedStep
  <2>2. ASSUME NEW k \in Keys, job'[k].from # NoKey
        PROVE  \/ job'[job'[k].from].status \in {"failed", "dead_letter"}
               \/ RevivedOnRecord(job[k].from)'
    <3>1. PICK s \in Keys : /\ job'[k].from = s
                            /\ job[s].status \in {"failed", "dead_letter"} \/ RevivedOnRecord(s)
      <4>1. CASE RowCreated(k)
        BY <2>0, <2>2, <4>1, CopySource
      <4>2. CASE ~RowCreated(k)
        <5>1. job'[k].from = job[k].from /\ job[k].from \in Keys
          BY <2>0, <2>2, <4>2, SourceKept DEF TypeOK, Jobs
        <5> QED BY <2>2, <5>1 DEF RecordInv, CopiedSourceOnRecord
      <4> QED BY <4>1, <4>2
    <3>2. job'[s].status \in {"failed", "dead_letter"} \/ RevivedOnRecord(s)'
      BY <2>0, <3>1, RetiredStep, RevivalKept
    <3> QED BY <3>1, <3>2 DEF RevivedOnRecord
  <2> QED BY <2>1, <2>2 DEF RecordInv, CopiedSourceOnRecord
<1> QED BY <1>1, <1>2, QueueInvariant, PTL DEF Spec

\* A row rests exactly while its newest fact is deterministic or unknown.
THEOREM NewestDecides == Spec => []NewestFactDecides
BY RecordInvariant, PTL DEF RecordInv

\* ... and work that was copied is executed next to its copy only with the fact
\* on record that took it up again.
THEOREM SourcesOnRecord == Spec => []CopiedSourceOnRecord
BY RecordInvariant, PTL DEF RecordInv

-----------------------------------------------------------------------------
(* The workers *)

\* The leases a process has in hand, and the row and token of each.
Slots(w) == 1..Len(worker[w].batch)
Row(w, i) == worker[w].batch[i].key
Token(w, i) == worker[w].batch[i].token

\* A process has leases exactly while it works on a batch, and only a handler
\* has acted; it is asked to stop only by the disturbance.
Shape(w) ==
    /\ worker[w].batch # <<>> <=> worker[w].pc \in {"batch", "handler"}
    /\ worker[w].acted => worker[w].pc = "handler"
    /\ worker[w].stop => "stop" \in disturbed

\* Leases in hand were issued, each to one process.
GrantsIssued == \A w \in Workers : \A i \in Slots(w) : Token(w, i) \in 1..issued[Row(w, i)]

GrantsUnique ==
    \A v, w \in Workers : \A i \in Slots(v), j \in Slots(w) :
        Row(v, i) = Row(w, j) /\ Token(v, i) = Token(w, j) => v = w /\ i = j

\* The tokens of a row under which its effect may still be performed.
Unused(k) ==
    {t \in 1..issued[k] : \E w \in Workers : \E i \in Slots(w) :
        Row(w, i) = k /\ Token(w, i) = t /\ ~(i = 1 /\ worker[w].acted)}

\* Effects are paid for with tokens.
Paid(k) ==
    /\ issued[k] <= MaxAttempts
    /\ effects[k] + Cardinality(Unused(k)) <= issued[k]

\* What has acted, and what has succeeded, has had its effect.
ActedCounts == \A w \in Workers : worker[w].acted => effects[Mine(w).key] > 0

SuccessCounts == \A k \in Keys : job[k].status = "succeeded" => effects[k] > 0

\* A lease in hand is alive: it is fresh until its row is started, and the
\* heartbeats renew it from then on.
Alive(w, i) ==
    LET k == Row(w, i)
    IN  /\ lease[k].by = w /\ lease[k].token = Token(w, i)
        /\ IF At(w, "handler") /\ i = 1
           THEN job[k].status = "running" /\ lease[k].left + worker[w].beat >= LeaseTicks
           ELSE job[k].status = "leased" /\ lease[k].left = LeaseTicks

Punctual == "late" \notin disturbed => \A w \in Workers : \A i \in Slots(w) : Alive(w, i)

\* Where nothing but a pause disturbs, a row that had its effect has ended, or
\* its handler is about to say so.
Once(k) ==
    effects[k] > 0 =>
        /\ effects[k] = 1
        /\ \/ job[k].status \in {"succeeded", "failed"}
           \/ \E w \in Workers : At(w, "handler") /\ worker[w].acted /\ Mine(w).key = k

Undisturbed == disturbed \subseteq {"pause"} => \A k \in Keys : Once(k)

\* What holds whatever happens ...
WorkerInv ==
    /\ QueueInv /\ WTypeOK
    /\ UnknownStaysFailed
    /\ \A w \in Workers : Shape(w)
    /\ GrantsIssued /\ GrantsUnique
    /\ \A k \in Keys : Paid(k)
    /\ ActedCounts /\ SuccessCounts

\* ... and what holds while processes are punctual, if heartbeats come before
\* leases end.
PunctualInv == WorkerInv /\ Punctual /\ Undisturbed

-----------------------------------------------------------------------------
(***************************************************************************)
(* The kinds of steps.  A step of the system is one of six, and everything *)
(* below is proved over them.                                              *)
(***************************************************************************)
WorkerRows ==
    [pc : {"idle", "batch", "handler", "down"}, batch : Seq(Grants),
     deadline : 0..Timeout, beat : 0..Beat, acted : BOOLEAN, stop : BOOLEAN]

\* The leases in hand stay, or the first is done with, or all are dropped.
Keeps(w) ==
    /\ worker'[w].batch = worker[w].batch
    /\ worker'[w].pc = worker[w].pc
    /\ worker'[w].acted = worker[w].acted

Sheds(w) ==
    /\ worker'[w].batch = Tail(worker[w].batch)
    /\ worker'[w].pc = IF Len(worker[w].batch) = 1 THEN "idle" ELSE "batch"
    /\ worker'[w].acted = FALSE

Drops(w) ==
    /\ worker'[w].batch = <<>>
    /\ worker'[w].pc \in {"idle", "down"}
    /\ worker'[w].acted = FALSE

Alone(w) == \A v \in Workers \ {w} : worker'[v] = worker[v]

\* A poll puts the rows it was granted in hand, each once, under the tokens
\* just issued.
Granted(w) ==
    /\ worker[w].pc = "idle"
    /\ \E n \in 1..BatchSize : Claim(w, n)
    /\ worker'[w].pc = IF Len(worker'[w].batch) = 0 THEN "idle" ELSE "batch"
    /\ worker'[w].acted = worker[w].acted
    /\ worker'[w].batch \in Seq(Grants)
    /\ \A i \in 1..Len(worker'[w].batch) :
        /\ issued'[worker'[w].batch[i].key] # issued[worker'[w].batch[i].key]
        /\ worker'[w].batch[i].token = issued'[worker'[w].batch[i].key]
    /\ \A i, j \in 1..Len(worker'[w].batch) :
        worker'[w].batch[i].key = worker'[w].batch[j].key => i = j

Receives(w) ==
    /\ Granted(w)
    /\ Alone(w)
    /\ UNCHANGED <<effects, disturbed>>

\* The handler of process w performs its effect.
Performs(w) ==
    /\ At(w, "handler")
    /\ ~worker[w].acted
    /\ worker'[w].batch = worker[w].batch
    /\ worker'[w].pc = worker[w].pc
    /\ worker'[w].acted = TRUE
    /\ worker'[w].beat = worker[w].beat
    /\ effects' = [effects EXCEPT ![Mine(w).key] = @ + 1]
    /\ Alone(w)
    /\ UNCHANGED <<vars, disturbed>>

\* A command of process w about the row it works on.
Starts(w) ==
    /\ At(w, "batch")
    /\ Start(Mine(w).key, w, Mine(w).token)
    /\ worker'[w].pc = "handler"
    /\ worker'[w].batch = worker[w].batch
    /\ worker'[w].acted = worker[w].acted

Beats(w) ==
    /\ At(w, "handler")
    /\ Heartbeat(Mine(w).key, w, Mine(w).token)
    /\ Keeps(w)

Fails(w) ==
    /\ \E class \in ErrorClasses, delay \in Delays :
        /\ Fail(Mine(w).key, w, Mine(w).token, class, WorkerCode, delay)
        /\ worker[w].acted => class = "unknown" \/ worker[w].stop
    /\ Sheds(w)

Succeeds(w) ==
    /\ worker[w].acted
    /\ Complete(Mine(w).key, w, Mine(w).token)
    /\ Sheds(w)

Serves(w) ==
    /\ worker[w].pc \in {"batch", "handler"}
    /\ Starts(w) \/ Beats(w) \/ Fails(w) \/ Succeeds(w)
    /\ Alone(w)
    /\ UNCHANGED <<effects, disturbed>>

\* Process w ends or begins anew, without a word to the queue.
Falls(w) ==
    /\ Drops(w)
    /\ Alone(w)
    /\ worker[w].acted => "crash" \in disturbed' \/ ~Valid(w)
    /\ UNCHANGED <<vars, effects>>
    /\ disturbed \subseteq disturbed'

\* Somebody else does something, or nothing happens.
Elsewhere ==
    /\ \/ \E k \in Keys, a \in Aggregates, wait \in 0..MaxWait : Enqueue(k, a, wait)
       \/ \E k, new \in Keys : RequeueDead(k, new) \/ Replay(k, new)
       \/ \E a \in Aggregates : CompleteReview(a)
       \/ SetPaused
       \/ UNCHANGED vars
    /\ \A w \in Workers :
        /\ Keeps(w)
        /\ worker'[w].beat = worker[w].beat
    /\ effects' = effects
    /\ disturbed \subseteq disturbed'

Kinds ==
    \/ \E w \in Workers : Receives(w) \/ Serves(w) \/ Performs(w) \/ Falls(w)
    \/ Elsewhere
    \/ WTick

\* A process is asked to stop by that disturbance only.
StopsTold == \A w \in Workers : worker'[w].stop => worker[w].stop \/ "stop" \in disturbed'

\* What every step does to the processes.
Moved == Kinds /\ StopsTold /\ worker' \in [Workers -> WorkerRows]

\* A process's row and its parts have their types, and one with a batch has a
\* row in hand.
LEMMA WorkerType ==
    ASSUME WTypeOK, NEW w \in Workers
    PROVE  /\ worker[w] \in WorkerRows
           /\ worker[w].batch \in Seq(Grants)
           /\ Len(worker[w].batch) \in Nat
           /\ \A i \in Slots(w) : Row(w, i) \in Keys /\ Token(w, i) \in Nat
<1>1. worker[w] \in WorkerRows
  BY DEF WTypeOK, WorkerRows
<1>2. worker[w].batch \in Seq(Grants)
  BY <1>1 DEF WorkerRows
<1>3. Len(worker[w].batch) \in Nat /\ \A i \in Slots(w) : worker[w].batch[i] \in Grants
  BY <1>2 DEF Slots
<1> QED BY <1>1, <1>2, <1>3 DEF Row, Token, Grants

LEMMA InHand ==
    ASSUME WTypeOK, NEW w \in Workers, Shape(w), worker[w].pc \in {"batch", "handler"}
    PROVE  /\ worker[w].batch # <<>>
           /\ 1 \in Slots(w)
           /\ Mine(w).key = Row(w, 1) /\ Mine(w).token = Token(w, 1)
           /\ Mine(w) \in Grants /\ Mine(w).key \in Keys
           /\ Tail(worker[w].batch) \in Seq(Grants)
<1>1. worker[w].batch \in Seq(Grants) /\ worker[w].batch # <<>>
  BY WorkerType DEF Shape
<1>2. /\ Len(worker[w].batch) \in Nat /\ Len(worker[w].batch) > 0
      /\ Head(worker[w].batch) = worker[w].batch[1]
      /\ worker[w].batch[1] \in Grants
      /\ Tail(worker[w].batch) \in Seq(Grants)
  BY <1>1
<1> QED BY <1>1, <1>2 DEF Slots, Row, Token, Mine, Grants

LEMMA ZeroTimes == 0 \in 0..Timeout /\ 0 \in 0..Beat /\ Timeout \in 0..Timeout
BY TimingAssumption

\* The two ways a process moves on, and what they leave of it.
LEMMA ProceedSheds ==
    ASSUME WTypeOK, NEW w \in Workers, Shape(w), worker[w].pc \in {"batch", "handler"},
           Proceed(w)
    PROVE  worker' \in [Workers -> WorkerRows] /\ Sheds(w) /\ Alone(w) /\ StopsTold
<1>1. worker \in [Workers -> WorkerRows] /\ worker[w] \in WorkerRows
  BY DEF WTypeOK, WorkerRows
<1> DEFINE row == [worker[w] EXCEPT
        !.batch = Tail(worker[w].batch), !.acted = FALSE, !.deadline = 0, !.beat = 0,
        !.pc = IF Len(worker[w].batch) = 1 THEN "idle" ELSE "batch"]
<1>2. worker' = [worker EXCEPT ![w] = row]
  BY DEF Proceed
<1>3. /\ row \in WorkerRows
      /\ row.batch = Tail(worker[w].batch)
      /\ row.pc = IF Len(worker[w].batch) = 1 THEN "idle" ELSE "batch"
      /\ row.acted = FALSE /\ row.stop = worker[w].stop
  <2>1. /\ Tail(worker[w].batch) \in Seq(Grants)
        /\ (IF Len(worker[w].batch) = 1 THEN "idle" ELSE "batch") \in {"idle", "batch"}
    BY InHand
  <2>2. \A r \in WorkerRows, b \in Seq(Grants), pc \in {"idle", "batch"} :
            [r EXCEPT !.batch = b, !.acted = FALSE, !.deadline = 0, !.beat = 0, !.pc = pc]
            \in WorkerRows
    BY ZeroTimes DEF WorkerRows
  <2>3. row \in WorkerRows
    BY <1>1, <2>1, <2>2
  <2> QED BY <1>1, <2>3 DEF WorkerRows
<1> HIDE DEF row
<1> QED BY <1>1, <1>2, <1>3 DEF Sheds, Alone, StopsTold

LEMMA FreshRow ==
    ASSUME WTypeOK, NEW w \in Workers, NEW row \in {Fresh, [Fresh EXCEPT !.pc = "down"]},
           worker' = [worker EXCEPT ![w] = row]
    PROVE  worker' \in [Workers -> WorkerRows] /\ Drops(w) /\ Alone(w) /\ StopsTold
<1>1. /\ row \in WorkerRows
      /\ row.batch = <<>> /\ row.pc \in {"idle", "down"} /\ ~row.acted /\ ~row.stop
  <2>1. <<>> \in Seq(Grants)
    OBVIOUS
  <2>2. Fresh \in WorkerRows
    BY <2>1, ZeroTimes DEF WorkerRows, Fresh
  <2>3. [Fresh EXCEPT !.pc = "down"] \in WorkerRows
    BY <2>2 DEF WorkerRows
  <2>4. row.batch = <<>> /\ row.pc \in {"idle", "down"} /\ ~row.acted /\ ~row.stop
    BY DEF Fresh
  <2> QED BY <2>2, <2>3, <2>4
<1>2. worker \in [Workers -> WorkerRows]
  BY DEF WTypeOK, WorkerRows
<1>3. worker'[w] = row /\ Alone(w) /\ worker' \in [Workers -> WorkerRows]
  BY <1>1, <1>2 DEF Alone
<1>4. row.acted = FALSE
  BY DEF Fresh
<1> QED BY <1>1, <1>3, <1>4 DEF Drops, Alone, StopsTold

\* Settling a lease fails it in the queue, or takes the process down.
LEMMA SettleMoves ==
    ASSUME WTypeOK, NEW w \in Workers, Shape(w), worker[w].pc \in {"batch", "handler"},
           NEW class \in ErrorClasses, Settle(w, class),
           worker[w].acted => class = "unknown" \/ worker[w].stop
    PROVE  Moved
<1>1. CASE Valid(w)
  <2>1. /\ \E delay \in Delays :
               Fail(Mine(w).key, w, Mine(w).token, class, WorkerCode, delay)
        /\ Proceed(w)
        /\ UNCHANGED <<effects, disturbed>>
    BY <1>1 DEF Settle
  <2>2. worker' \in [Workers -> WorkerRows] /\ Sheds(w) /\ Alone(w) /\ StopsTold
    BY <2>1, ProceedSheds
  <2> QED BY <2>1, <2>2 DEF Serves, Fails, Moved, Kinds
<1>2. CASE ~Valid(w)
  <2>1. Dies(w) /\ UNCHANGED <<effects, disturbed>>
    BY <1>2 DEF Settle
  <2>2. worker' \in [Workers -> WorkerRows] /\ Drops(w) /\ Alone(w) /\ StopsTold
    BY <2>1, FreshRow DEF Dies
  <2> QED BY <1>2, <2>1, <2>2 DEF Falls, Dies, Moved, Kinds
<1> QED BY <1>1, <1>2

\* That is what a poll does, with a type to it.
LEMMA PollGrants ==
    ASSUME WTypeOK, NEW w \in Workers, Poll(w)
    PROVE  worker' \in [Workers -> WorkerRows] /\ Receives(w) /\ StopsTold
<1>0. worker \in [Workers -> WorkerRows] /\ worker[w] \in WorkerRows
  BY DEF WTypeOK, WorkerRows
<1> DEFINE claimed == {k \in Keys : issued'[k] # issued[k]}
           n == Cardinality(claimed)
<1>1. PICK order \in [1..n -> claimed] :
        /\ \A i, j \in DOMAIN order : order[i] = order[j] => i = j
        /\ worker' = [worker EXCEPT
                 ![w].pc = IF claimed = {} THEN "idle" ELSE "batch",
                 ![w].batch = [i \in DOMAIN order |->
                      [key |-> order[i], token |-> issued'[order[i]]]]]
  BY DEF Poll
<1>2. IsFiniteSet(claimed)
  <2>1. claimed \in SUBSET Keys
    OBVIOUS
  <2> QED BY <2>1, RowsAssumption, FS_Subset
<1>3. n \in Nat /\ (n = 0 <=> claimed = {})
  BY <1>2, FS_CardinalityType, FS_EmptySet
<1> DEFINE batch == [i \in 1..n |-> [key |-> order[i], token |-> issued'[order[i]]]]
           pc == IF n = 0 THEN "idle" ELSE "batch"
<1>4. \A k \in Keys : issued'[k] \in Nat
  BY DEF Poll, Claim, WTypeOK, TypeOK
<1>5. batch \in [1..n -> Grants]
  BY <1>4 DEF Grants
<1> HIDE DEF n
<1>6. batch \in Seq(Grants) /\ Len(batch) = n
  BY <1>3, <1>5, SeqDef
<1>7. worker' = [worker EXCEPT ![w] = [worker[w] EXCEPT !.pc = pc, !.batch = batch]]
  BY <1>0, <1>1, <1>3
<1>8. \A i \in 1..n : batch[i].key \in claimed /\ batch[i].token = issued'[batch[i].key]
  OBVIOUS
<1>9. \A i, j \in 1..n : batch[i].key = batch[j].key => i = j
  BY <1>1
<1> HIDE DEF batch
<1>10. [worker[w] EXCEPT !.pc = pc, !.batch = batch] \in WorkerRows
  BY <1>0, <1>6 DEF WorkerRows
<1>11. /\ worker'[w].batch = batch /\ worker'[w].pc = pc
       /\ worker'[w].acted = worker[w].acted /\ worker'[w].stop = worker[w].stop
  BY <1>0, <1>7 DEF WorkerRows
<1>12. Granted(w)
  BY <1>6, <1>8, <1>9, <1>11 DEF Granted, Poll, At
<1> QED BY <1>0, <1>7, <1>10, <1>11, <1>12 DEF Alone, StopsTold, Receives, Poll

\* Every step is of one of the kinds, and leaves the processes well typed.
LEMMA StepKinds ==
    ASSUME WTypeOK, \A w \in Workers : Shape(w), [WNext]_wvars
    PROVE  Moved
<1>0. /\ worker \in [Workers -> WorkerRows]
      /\ \A w \in Workers : worker[w] \in WorkerRows
  BY DEF WTypeOK, WorkerRows
<1>1. ASSUME NEW w \in Workers, Poll(w) PROVE Moved
  BY <1>1, PollGrants DEF Moved, Kinds
<1>2. ASSUME NEW w \in Workers, Begin(w) PROVE Moved
  <2>1. At(w, "batch") /\ ~worker[w].acted
    BY <1>2 DEF Begin, At, Shape
  <2>2. CASE Settle(w, "transient") \/ Settle(w, "deterministic")
    BY <2>1, <2>2, SettleMoves DEF At
  <2>3. CASE /\ Start(Mine(w).key, w, Mine(w).token)
             /\ worker' = [worker EXCEPT ![w].pc = "handler", ![w].deadline = Timeout]
             /\ UNCHANGED <<effects, disturbed>>
    <3>1. [worker[w] EXCEPT !.pc = "handler", !.deadline = Timeout] \in WorkerRows
      BY <1>0, ZeroTimes DEF WorkerRows
    <3>2. worker' = [worker EXCEPT ![w] = [worker[w] EXCEPT !.pc = "handler", !.deadline = Timeout]]
      BY <1>0, <2>3
    <3>3. /\ worker' \in [Workers -> WorkerRows] /\ Alone(w) /\ StopsTold
          /\ worker'[w].pc = "handler"
          /\ worker'[w].batch = worker[w].batch /\ worker'[w].acted = worker[w].acted
      BY <1>0, <3>1, <3>2 DEF Alone, StopsTold, WorkerRows
    <3> QED BY <2>1, <2>3, <3>3 DEF Moved, Kinds, Serves, Starts, At
  <2>4. CASE Dies(w) /\ UNCHANGED <<effects, disturbed>>
    BY <2>1, <2>4, FreshRow DEF Dies, Falls, Moved, Kinds
  <2> QED BY <1>2, <2>2, <2>3, <2>4 DEF Begin
<1>3. ASSUME NEW w \in Workers, Act(w) PROVE Moved
  <2>1. worker' = [worker EXCEPT ![w] = [worker[w] EXCEPT !.acted = TRUE]]
    BY <1>0, <1>3 DEF Act
  <2>2. [worker[w] EXCEPT !.acted = TRUE] \in WorkerRows
    BY <1>0 DEF WorkerRows
  <2>3. /\ worker' \in [Workers -> WorkerRows] /\ Alone(w) /\ StopsTold
        /\ worker'[w].batch = worker[w].batch /\ worker'[w].pc = worker[w].pc
        /\ worker'[w].acted = TRUE /\ worker'[w].beat = worker[w].beat
    BY <1>0, <2>1, <2>2 DEF Alone, StopsTold, WorkerRows
  <2> QED BY <1>3, <2>3 DEF Act, Performs, Moved, Kinds
<1>4. ASSUME NEW w \in Workers, Checkpoint(w) PROVE Moved
  <2>1. At(w, "handler")
    BY <1>4 DEF Checkpoint
  <2>2. CASE Settle(w, "unknown") \/ (worker[w].stop /\ Settle(w, "transient"))
    BY <2>1, <2>2, SettleMoves DEF At
  <2>3. CASE /\ Heartbeat(Mine(w).key, w, Mine(w).token)
             /\ worker' = [worker EXCEPT ![w].beat = 0]
             /\ UNCHANGED <<effects, disturbed>>
    <3>1. [worker[w] EXCEPT !.beat = 0] \in WorkerRows
      BY <1>0, ZeroTimes DEF WorkerRows
    <3>2. worker' = [worker EXCEPT ![w] = [worker[w] EXCEPT !.beat = 0]]
      BY <1>0, <2>3
    <3>3. worker' \in [Workers -> WorkerRows] /\ Alone(w) /\ StopsTold /\ Keeps(w)
      BY <1>0, <3>1, <3>2 DEF Alone, StopsTold, Keeps, WorkerRows
    <3> QED BY <2>1, <2>3, <3>3 DEF Moved, Kinds, Serves, Beats, At
  <2>4. CASE Dies(w) /\ ~Valid(w) /\ UNCHANGED <<effects, disturbed>>
    BY <2>4, FreshRow DEF Dies, Falls, Moved, Kinds
  <2> QED BY <1>4, <2>2, <2>3, <2>4 DEF Checkpoint
<1>5. ASSUME NEW w \in Workers, Raise(w) PROVE Moved
  BY <1>5, SettleMoves DEF Raise, At
<1>6. ASSUME NEW w \in Workers, Return(w) PROVE Moved
  <2>1. At(w, "handler") /\ worker[w].acted
    BY <1>6 DEF Return
  <2>2. CASE Settle(w, "unknown")
    BY <2>1, <2>2, SettleMoves DEF At
  <2>3. CASE /\ Complete(Mine(w).key, w, Mine(w).token) /\ Proceed(w)
             /\ UNCHANGED <<effects, disturbed>>
    BY <2>1, <2>3, ProceedSheds DEF At, Succeeds, Serves, Moved, Kinds
  <2>4. CASE Dies(w) /\ ~Valid(w) /\ UNCHANGED <<effects, disturbed>>
    BY <2>4, FreshRow DEF Dies, Falls, Moved, Kinds
  <2> QED BY <1>6, <2>2, <2>3, <2>4 DEF Return
<1>7. ASSUME NEW w \in Workers, Crash(w) PROVE Moved
  BY <1>7, FreshRow DEF Crash, Disturb, Dies, Falls, Moved, Kinds
<1>8. ASSUME NEW w \in Workers, RequestStop(w) PROVE Moved
  <2>1. worker' = [worker EXCEPT ![w] = [worker[w] EXCEPT !.stop = TRUE]]
    BY <1>0, <1>8 DEF RequestStop
  <2>2. [worker[w] EXCEPT !.stop = TRUE] \in WorkerRows
    BY <1>0 DEF WorkerRows
  <2>3. /\ worker' \in [Workers -> WorkerRows]
        /\ \A v \in Workers : Keeps(v) /\ worker'[v].beat = worker[v].beat
    BY <1>0, <2>1, <2>2 DEF Keeps, WorkerRows
  <2>4. /\ "stop" \in disturbed' /\ disturbed \subseteq disturbed'
        /\ UNCHANGED vars /\ effects' = effects
    BY <1>8 DEF RequestStop, Disturb
  <2> QED BY <2>3, <2>4 DEF Moved, Kinds, Elsewhere, StopsTold
<1>9. ASSUME NEW w \in Workers, Exit(w) \/ Restart(w) PROVE Moved
  <2>1. ~worker[w].acted
    BY <1>9 DEF Exit, Restart, At, Shape
  <2> QED BY <1>9, <2>1, FreshRow DEF Exit, Restart, Dies, Falls, Moved, Kinds
<1>10. CASE WEnqueue \/ Pause \/ Release \/ TurnLate \/ Operate \/ UNCHANGED wvars
  <2>1. worker' = worker /\ effects' = effects /\ disturbed \subseteq disturbed'
    BY <1>10 DEF WEnqueue, Pause, Release, TurnLate, Operate, wvars, Disturb
  <2>2. \/ \E k \in Keys, a \in Aggregates, wait \in 0..MaxWait : Enqueue(k, a, wait)
        \/ \E k, new \in Keys : RequeueDead(k, new) \/ Replay(k, new)
        \/ \E a \in Aggregates : CompleteReview(a)
        \/ SetPaused
        \/ UNCHANGED vars
    BY <1>10 DEF WEnqueue, Pause, Release, TurnLate, Operate, wvars
  <2> QED BY <1>0, <2>1, <2>2 DEF Keeps, StopsTold, Elsewhere, Moved, Kinds
<1>11. CASE WTick
  <2>1. ASSUME NEW w \in Workers
        PROVE  /\ [worker[w] EXCEPT !.deadline = Dec(@),
                                    !.beat = IF @ < Beat THEN @ + 1 ELSE @] \in WorkerRows
               /\ worker'[w].stop = worker[w].stop
    <3>1. /\ Dec(worker[w].deadline) \in 0..Timeout
          /\ (IF worker[w].beat < Beat THEN worker[w].beat + 1 ELSE worker[w].beat) \in 0..Beat
      BY <1>0, TimingAssumption DEF WorkerRows, Dec
    <3> QED BY <1>0, <1>11, <3>1 DEF WorkerRows, WTick
  <2>2. worker' \in [Workers -> WorkerRows]
    BY <1>0, <1>11, <2>1 DEF WTick
  <2> QED BY <1>11, <2>1, <2>2 DEF Moved, Kinds, StopsTold
<1> QED
  BY <1>1, <1>2, <1>3, <1>4, <1>5, <1>6, <1>7, <1>8, <1>9, <1>10, <1>11 DEF WNext

\* Seen from the queue, each is a step of the queue without a report or retry.
LEMMA QueueMoves ==
    ASSUME WTypeOK, \A w \in Workers : Shape(w), GrantsIssued, Kinds
    PROVE  WorkStep /\ [Next]_vars
<1>1. WorkStep
  <2>1. ASSUME NEW w \in Workers, Receives(w) PROVE WorkStep
    BY <2>1 DEF Receives, Granted, WorkStep
  <2>2. ASSUME NEW w \in Workers, Serves(w) PROVE WorkStep
    <3>1. HolderStep(Mine(w).key, w, Mine(w).token)
      BY <2>2, WorkerCodeAssumption DEF Serves, Starts, Beats, Fails, Succeeds, HolderStep
    <3>2. Mine(w).key \in Keys /\ Mine(w).token \in 1..issued[Mine(w).key]
      BY <2>2, InHand DEF Serves, GrantsIssued
    <3> QED BY <3>1, <3>2 DEF WorkStep
  <2>3. ASSUME NEW w \in Workers, Performs(w) \/ Falls(w) PROVE WorkStep
    BY <2>3 DEF Performs, Falls, WorkStep
  <2>4. CASE Elsewhere
    BY <2>4 DEF Elsewhere, WorkStep
  <2>5. CASE WTick
    BY <2>5 DEF WTick, WorkStep
  <2> QED BY <2>1, <2>2, <2>3, <2>4, <2>5 DEF Kinds
<1>2. WorkStep => [Next]_vars
  BY DEF WorkStep, Next, OperatorStep
<1> QED BY <1>1, <1>2

\* The types hold from the start and are kept.
LEMMA InitWorker == WInit => WTypeOK
<1> SUFFICES ASSUME WInit PROVE WTypeOK
  OBVIOUS
<1>1. <<>> \in Seq(Grants)
  OBVIOUS
<1>2. Fresh \in WorkerRows
  BY <1>1, ZeroTimes DEF Fresh, WorkerRows
<1> QED BY <1>2, InitTypes DEF WInit, WTypeOK, WorkerRows

LEMMA EffectsGrow ==
    ASSUME WTypeOK, \A w \in Workers : Shape(w), Kinds
    PROVE  /\ effects' \in [Keys -> Nat]
           /\ \A k \in Keys : effects'[k] >= effects[k]
           /\ disturbed \subseteq disturbed'
<1>1. effects \in [Keys -> Nat]
  BY DEF WTypeOK
<1>2. ASSUME NEW w \in Workers, Performs(w)
      PROVE  effects' \in [Keys -> Nat] /\ \A k \in Keys : effects'[k] >= effects[k]
  <2>1. Mine(w).key \in Keys /\ effects' = [effects EXCEPT ![Mine(w).key] = @ + 1]
    BY <1>2, InHand DEF Performs, At
  <2> QED BY <1>1, <2>1
<1>3. ASSUME ~\E w \in Workers : Performs(w)
      PROVE  effects' \in [Keys -> Nat] /\ \A k \in Keys : effects'[k] >= effects[k]
  <2>1. effects' = effects
    BY <1>3 DEF Kinds, Receives, Serves, Falls, Elsewhere, WTick
  <2> QED BY <1>1, <2>1
<1>4. disturbed \subseteq disturbed'
  BY DEF Kinds, Receives, Serves, Performs, Falls, Elsewhere, WTick
<1> QED BY <1>1, <1>2, <1>3, <1>4

LEMMA WorkerTypeStep ==
    ASSUME WTypeOK, \A w \in Workers : Shape(w), GrantsIssued, [WNext]_wvars
    PROVE  WTypeOK'
<1>1. Kinds /\ worker' \in [Workers -> WorkerRows]
  BY StepKinds DEF Moved
<1>2. TypeOK'
  BY <1>1, QueueMoves, TypeStep DEF WTypeOK
<1>3. effects' \in [Keys -> Nat]
  BY <1>1, EffectsGrow
<1>4. disturbed' \subseteq Disturbances
  <2>1. \/ disturbed' = disturbed
        \/ \E kind \in Disturbances : disturbed' = disturbed \cup {kind}
    BY DEF WNext, wvars, WEnqueue, Poll, Begin, Settle, Act, Checkpoint, Raise, Return, Crash,
           RequestStop, Exit, Restart, Pause, Release, TurnLate, Operate, WTick, Disturb
  <2> QED BY <2>1 DEF WTypeOK
<1> QED BY <1>1, <1>2, <1>3, <1>4 DEF WTypeOK, WorkerRows

-----------------------------------------------------------------------------
(***************************************************************************)
(* Leases in hand.  Every step but a poll leaves a process a suffix of its *)
(* batch, so leases in hand stay issued and stay with one process.         *)
(***************************************************************************)
Suffix(w, d) ==
    /\ worker'[w].batch \in Seq(Grants)
    /\ \A i \in 1..Len(worker'[w].batch) :
        i + d \in Slots(w) /\ worker'[w].batch[i] = worker[w].batch[i + d]
    /\ d = 0 /\ worker'[w].batch # <<>> =>
        worker'[w].acted = worker[w].acted \/ Performs(w)

LEMMA Suffixes ==
    ASSUME WTypeOK, NEW w \in Workers, Shape(w),
           Keeps(w) \/ Serves(w) \/ Performs(w) \/ Drops(w)
    PROVE  \E d \in {0, 1} : Suffix(w, d)
<1>0. worker[w].batch \in Seq(Grants) /\ Len(worker[w].batch) \in Nat
  BY WorkerType
<1>1. CASE Keeps(w) \/ Starts(w) \/ Performs(w)
  <2>1. worker'[w].batch = worker[w].batch
        /\ (worker'[w].acted = worker[w].acted \/ Performs(w))
    BY <1>1 DEF Keeps, Starts, Performs
  <2> QED BY <1>0, <2>1 DEF Suffix, Slots
<1>2. CASE Drops(w)
  <2>1. worker'[w].batch = <<>> /\ <<>> \in Seq(Grants) /\ Len(<<>>) = 0
    BY <1>2 DEF Drops
  <2> QED BY <2>1 DEF Suffix
<1>3. CASE worker[w].pc \in {"batch", "handler"} /\ Sheds(w)
  <2>1. worker[w].batch # <<>> /\ worker'[w].batch = Tail(worker[w].batch)
    BY <1>3, InHand DEF Sheds
  <2>2. /\ Tail(worker[w].batch) \in Seq(Grants)
        /\ Len(Tail(worker[w].batch)) = Len(worker[w].batch) - 1
        /\ \A i \in 1..Len(worker[w].batch) - 1 :
               Tail(worker[w].batch)[i] = worker[w].batch[i + 1]
    BY <1>0, <2>1
  <2>3. \A i \in 1..Len(worker[w].batch) - 1 : i + 1 \in 1..Len(worker[w].batch)
    BY <1>0
  <2> QED BY <2>1, <2>2, <2>3 DEF Suffix, Slots
<1> QED BY <1>1, <1>2, <1>3 DEF Serves, Beats, Fails, Succeeds

LEMMA TickMoves ==
    ASSUME WTypeOK, WTick, NEW v \in Workers
    PROVE  /\ Keeps(v)
           /\ At(v, "handler") => worker'[v].beat = IF worker[v].beat < Beat
                                                   THEN worker[v].beat + 1
                                                   ELSE worker[v].beat
<1>1. worker[v] \in WorkerRows
  BY DEF WTypeOK, WorkerRows
<1>2. worker'[v] = IF At(v, "handler")
                   THEN [worker[v] EXCEPT !.deadline = Dec(@),
                                          !.beat = IF @ < Beat THEN @ + 1 ELSE @]
                   ELSE worker[v]
  BY DEF WTick
<1> QED BY <1>1, <1>2 DEF Keeps, WorkerRows

\* What a step does to one process.
LEMMA MovesOf ==
    ASSUME WTypeOK, Moved, NEW v \in Workers
    PROVE  Keeps(v) \/ Serves(v) \/ Performs(v) \/ Drops(v) \/ Receives(v)
<1>1. ASSUME NEW w \in Workers, Receives(w) \/ Serves(w) \/ Performs(w) \/ Falls(w)
      PROVE  Keeps(v) \/ Serves(v) \/ Performs(v) \/ Drops(v) \/ Receives(v)
  <2>1. v = w \/ Keeps(v)
    BY <1>1 DEF Receives, Serves, Performs, Falls, Alone, Keeps
  <2> QED BY <1>1, <2>1 DEF Falls
<1>2. CASE WTick
  BY <1>2, TickMoves
<1> QED BY <1>1, <1>2 DEF Moved, Kinds, Elsewhere

\* Unless it receives leases, a process keeps a suffix of what it has.
LEMMA AllSuffixes ==
    ASSUME WTypeOK, \A w \in Workers : Shape(w), Moved, NEW v \in Workers, ~Receives(v)
    PROVE  \E d \in {0, 1} : Suffix(v, d)
BY MovesOf, Suffixes

\* Tokens are never taken back, and only a claim issues them.
LEMMA TokensGrow ==
    ASSUME TypeOK, [Next]_vars, NEW k \in Keys
    PROVE  /\ issued[k] \in Nat /\ issued'[k] \in Nat
           /\ issued'[k] = issued[k] \/ (issued'[k] = issued[k] + 1 /\ RowLeased(k))
<1>1. RowStep(k) /\ issued[k] \in Nat
  BY RowSteps DEF TypeOK
<1>2. CASE RowLeased(k)
  BY <1>1, <1>2 DEF RowLeased
<1>3. CASE ~RowLeased(k)
  BY <1>1, <1>3 DEF RowStep, RowSame, RowCreated, RowRetired, RowHeld, RowFailed, FailedAs,
                    RowAged
<1> QED BY <1>2, <1>3

\* A suffix holds leases that were in hand, each at its own place.
LEMMA SuffixSlots ==
    ASSUME WTypeOK, NEW w \in Workers, NEW d \in {0, 1}, Suffix(w, d)
    PROVE  \A i \in Slots(w)' :
               /\ i + d \in Slots(w)
               /\ Row(w, i)' = Row(w, i + d)
               /\ Token(w, i)' = Token(w, i + d)
BY DEF Suffix, Slots, Row, Token

\* The leases a poll brings: claimed rows, and the tokens just issued.
LEMMA GrantSlots ==
    ASSUME WTypeOK, NEW w \in Workers, Granted(w), [Next]_vars
    PROVE  \A i \in Slots(w)' :
               /\ Row(w, i)' \in Keys
               /\ issued'[Row(w, i)'] = issued[Row(w, i)'] + 1
               /\ Token(w, i)' = issued'[Row(w, i)']
               /\ RowLeased(Row(w, i)')
               /\ issued[Row(w, i)'] \in Nat
<1> SUFFICES ASSUME NEW i \in 1..Len(worker'[w].batch)
             PROVE  LET g == worker'[w].batch[i]
                    IN  /\ g.key \in Keys
                        /\ issued'[g.key] = issued[g.key] + 1
                        /\ g.token = issued'[g.key]
                        /\ RowLeased(g.key)
                        /\ issued[g.key] \in Nat
  BY DEF Slots, Row, Token
<1>1. worker'[w].batch[i] \in Grants
  BY DEF Granted
<1>2. worker'[w].batch[i].key \in Keys
  BY <1>1 DEF Grants
<1> QED BY <1>2, TokensGrow DEF Granted, WTypeOK

LEMMA GrantsIssuedStep ==
    ASSUME WTypeOK, \A w \in Workers : Shape(w), GrantsIssued, Moved
    PROVE  GrantsIssued'
<1> SUFFICES ASSUME NEW w \in Workers, NEW i \in Slots(w)'
             PROVE  Token(w, i)' \in 1..issued'[Row(w, i)']
  BY DEF GrantsIssued
<1>1. [Next]_vars /\ TypeOK
  BY QueueMoves DEF Moved, WTypeOK
<1>2. CASE Receives(w)
  BY <1>1, <1>2, GrantSlots DEF Receives
<1>3. ASSUME NEW d \in {0, 1}, Suffix(w, d) PROVE Token(w, i)' \in 1..issued'[Row(w, i)']
  <2>1. /\ i + d \in Slots(w) /\ Row(w, i)' = Row(w, i + d)
        /\ Token(w, i)' = Token(w, i + d)
    BY <1>3, SuffixSlots
  <2>2. Row(w, i + d) \in Keys /\ Token(w, i + d) \in 1..issued[Row(w, i + d)]
    BY <2>1, WorkerType DEF GrantsIssued
  <2> QED BY <1>1, <2>1, <2>2, TokensGrow
<1> QED BY <1>2, <1>3, AllSuffixes

\* Two places that hold the same lease are one.
LEMMA OneGrant ==
    ASSUME GrantsUnique, NEW v \in Workers, NEW w \in Workers,
           NEW i \in Slots(v), NEW j \in Slots(w),
           Row(v, i) = Row(w, j), Token(v, i) = Token(w, j)
    PROVE  v = w /\ i = j
BY DEF GrantsUnique

LEMMA GrantsUniqueStep ==
    ASSUME WTypeOK, \A w \in Workers : Shape(w), GrantsIssued, GrantsUnique, Moved
    PROVE  GrantsUnique'
<1> SUFFICES ASSUME NEW v \in Workers, NEW w \in Workers,
                    NEW i \in Slots(v)', NEW j \in Slots(w)',
                    Row(v, i)' = Row(w, j)', Token(v, i)' = Token(w, j)'
             PROVE  v = w /\ i = j
  BY DEF GrantsUnique
<1>1. [Next]_vars /\ TypeOK
  BY QueueMoves DEF Moved, WTypeOK
<1>2. i \in Nat /\ j \in Nat
  BY DEF Slots
<1>3. \A u \in Workers : \A n \in Slots(u) : Token(u, n) <= issued[Row(u, n)]
  BY DEF GrantsIssued
\* A lease just received has a token no lease in hand had.
<1>4. ASSUME NEW u \in Workers, NEW x \in Workers, NEW n \in Slots(u)', NEW m \in Slots(x)',
             Receives(u), ~Receives(x),
             Row(u, n)' = Row(x, m)', Token(u, n)' = Token(x, m)'
      PROVE  FALSE
  <2>1. PICK d \in {0, 1} : Suffix(x, d)
    BY <1>4, AllSuffixes
  <2>2. m + d \in Slots(x) /\ Row(x, m)' = Row(x, m + d) /\ Token(x, m)' = Token(x, m + d)
    BY <2>1, SuffixSlots
  <2>3. Token(x, m)' <= issued[Row(x, m)']
    BY <1>3, <2>2
  <2>4. /\ issued[Row(u, n)'] \in Nat
        /\ Token(u, n)' = issued[Row(u, n)'] + 1
    BY <1>1, <1>4, GrantSlots DEF Receives
  <2> QED BY <1>4, <2>3, <2>4
<1>5. CASE Receives(v) /\ Receives(w)
  <2>1. v = w
    <3>1. ASSUME v # w PROVE FALSE
      <4>1. worker'[w] = worker[w] /\ worker[w].pc = "idle"
        BY <1>5, <3>1 DEF Receives, Granted, Alone
      <4>2. worker'[w].batch = <<>> /\ Len(<<>>) = 0
        BY <4>1 DEF Shape
      <4> QED BY <4>2 DEF Slots
    <3> QED BY <3>1
  <2>2. worker'[w].batch[i].key = worker'[w].batch[j].key
    BY <2>1 DEF Row
  <2> QED BY <1>5, <2>1, <2>2 DEF Receives, Granted, Slots
<1>6. CASE ~Receives(v) /\ ~Receives(w)
  <2>1. PICK d \in {0, 1} : Suffix(v, d)
    BY <1>6, AllSuffixes
  <2>2. PICK e \in {0, 1} : Suffix(w, e)
    BY <1>6, AllSuffixes
  <2>3. i + d \in Slots(v) /\ Row(v, i)' = Row(v, i + d) /\ Token(v, i)' = Token(v, i + d)
    BY <2>1, SuffixSlots
  <2>4. j + e \in Slots(w) /\ Row(w, j)' = Row(w, j + e) /\ Token(w, j)' = Token(w, j + e)
    BY <2>2, SuffixSlots
  <2>5. v = w /\ i + d = j + e
    <3>1. Row(v, i + d) = Row(w, j + e) /\ Token(v, i + d) = Token(w, j + e)
      BY <2>3, <2>4
    <3>2. i + d \in Slots(v) /\ j + e \in Slots(w)
      BY <2>3, <2>4
    <3> QED BY <3>1, <3>2, OneGrant
  <2>6. CASE d = e
    BY <1>2, <2>5, <2>6
  <2>7. CASE d # e
    \* A process's batch is shortened from the front, or not.
    <3>1. Suffix(v, 0) /\ Suffix(v, 1)
      BY <2>1, <2>2, <2>5, <2>7
    <3>2. Len(worker'[v].batch) \in Nat /\ Len(worker'[v].batch) > 0
      BY <1>2 DEF Moved, WorkerRows, Slots
    <3>3. /\ worker'[v].batch[1] = worker[v].batch[1]
          /\ worker'[v].batch[1] = worker[v].batch[2]
          /\ 1 \in Slots(v) /\ 2 \in Slots(v)
      BY <3>1, <3>2 DEF Suffix
    <3>4. Row(v, 1) = Row(v, 2) /\ Token(v, 1) = Token(v, 2)
      BY <3>3 DEF Row, Token
    <3>5. 1 = 2
      BY <3>3, <3>4 DEF GrantsUnique
    <3> QED BY <3>5
  <2> QED BY <2>6, <2>7
<1> QED BY <1>4, <1>5, <1>6

\* The position of a process and what it has in hand stay in step.
LEMMA ShapeStep ==
    ASSUME WTypeOK, \A w \in Workers : Shape(w), Moved, NEW w \in Workers
    PROVE  Shape(w)'
<1>0. /\ Shape(w)
      /\ worker[w].batch \in Seq(Grants) /\ Len(worker[w].batch) \in Nat
      /\ disturbed \subseteq disturbed'
  BY WorkerType, EffectsGrow DEF Moved
<1>1. worker'[w].stop => "stop" \in disturbed'
  BY <1>0 DEF Moved, StopsTold, Shape
<1>2. CASE Keeps(w) \/ Drops(w) \/ Starts(w) \/ Performs(w)
  BY <1>0, <1>1, <1>2 DEF Keeps, Drops, Starts, Performs, Shape, At
<1>3. CASE worker[w].pc \in {"batch", "handler"} /\ Sheds(w)
  <2>1. /\ worker[w].batch # <<>>
        /\ Len(worker[w].batch) = 1 <=> Tail(worker[w].batch) = <<>>
    <3>1. worker[w].batch # <<>>
      BY <1>0, <1>3 DEF Shape
    <3>2. /\ Tail(worker[w].batch) \in Seq(Grants)
          /\ Len(Tail(worker[w].batch)) = Len(worker[w].batch) - 1
      BY <1>0, <3>1
    <3>3. Tail(worker[w].batch) # <<>> => Len(Tail(worker[w].batch)) \in Nat \ {0}
      BY <3>2, EmptySeq
    <3>4. Len(<<>>) = 0
      OBVIOUS
    <3>5. CASE Tail(worker[w].batch) = <<>>
      <4>1. Len(Tail(worker[w].batch)) = 0
        BY <3>4, <3>5
      <4>2. Len(worker[w].batch) = 1
        BY <1>0, <3>2, <4>1
      <4> QED BY <3>1, <3>5, <4>2
    <3>6. CASE Tail(worker[w].batch) # <<>>
      BY <1>0, <3>1, <3>2, <3>3, <3>6
    <3> QED BY <3>5, <3>6
  <2> QED BY <1>1, <1>3, <2>1 DEF Sheds, Shape
<1>4. CASE Receives(w)
  <2>1. /\ worker'[w].batch \in Seq(Grants)
        /\ worker'[w].pc = IF Len(worker'[w].batch) = 0 THEN "idle" ELSE "batch"
        /\ ~worker'[w].acted
    BY <1>0, <1>4 DEF Receives, Granted, Shape
  <2>2. Len(worker'[w].batch) = 0 <=> worker'[w].batch = <<>>
    BY <2>1
  <2> QED BY <1>1, <2>1, <2>2 DEF Shape
<1>5. Keeps(w) \/ Serves(w) \/ Performs(w) \/ Drops(w) \/ Receives(w)
  BY MovesOf
<1> QED BY <1>2, <1>3, <1>4, <1>5 DEF Serves, Beats, Fails, Succeeds

\* What has acted has had its effect, whichever process runs it.
LEMMA ActedCountsStep ==
    ASSUME WTypeOK, \A w \in Workers : Shape(w), Moved, ActedCounts
    PROVE  ActedCounts'
<1> SUFFICES ASSUME NEW w \in Workers, worker'[w].acted PROVE effects'[Head(worker'[w].batch).key] > 0
  BY DEF ActedCounts, Mine
<1>0. /\ effects \in [Keys -> Nat] /\ effects' \in [Keys -> Nat]
      /\ \A k \in Keys : effects'[k] >= effects[k]
  BY EffectsGrow DEF Moved, WTypeOK
<1>1. CASE Performs(w)
  <2>1. Mine(w).key \in Keys /\ effects' = [effects EXCEPT ![Mine(w).key] = @ + 1]
    BY <1>1, InHand DEF Performs, At
  <2>2. Head(worker'[w].batch) = Mine(w)
    BY <1>1 DEF Performs, Mine
  <2> QED BY <1>0, <2>1, <2>2
<1>2. CASE ~Performs(w)
  <2>1. Keeps(w) \/ Serves(w) \/ Drops(w) \/ Receives(w)
    BY <1>2, MovesOf
  <2>2. worker[w].acted /\ Head(worker'[w].batch) = Mine(w)
    <3>1. CASE Keeps(w) \/ Starts(w)
      BY <3>1 DEF Keeps, Starts, Mine
    <3>2. ~Drops(w) /\ ~Sheds(w)
      BY DEF Drops, Sheds
    <3>3. ~Receives(w)
      BY DEF Receives, Granted, Shape
    <3> QED BY <2>1, <3>1, <3>2, <3>3 DEF Serves, Beats, Fails, Succeeds
  <2>3. worker[w].pc = "handler"
    BY <2>2 DEF Shape
  <2>4. Mine(w).key \in Keys
    BY <2>3, InHand
  <2> QED BY <1>0, <2>2, <2>4 DEF ActedCounts
<1> QED BY <1>1, <1>2

\* A row comes to succeed only by the completion of a handler that has acted.
LEMMA NewSuccess ==
    ASSUME QueueInv, WTypeOK, \A w \in Workers : Shape(w), Moved, NEW k \in Keys,
           job'[k].status = "succeeded", job[k].status # "succeeded"
    PROVE  \E w \in Workers : worker[w].acted /\ Mine(w).key = k
<1>0. job[k] \in Jobs /\ TypeOK /\ job \in [Keys -> Jobs]
  BY DEF WTypeOK, TypeOK
<1>1. ASSUME NEW w \in Workers, Receives(w) PROVE FALSE
  <2>1. PICK n \in 1..BatchSize : Claim(w, n)
    BY <1>1 DEF Receives, Granted
  <2>2. job'[k] = Retired(k) \/ job'[k] = Leased(k, w) \/ job'[k] = job[k]
    BY <2>1 DEF Claim
  <2> QED BY <1>0, <2>2 DEF Retired, Leased, Jobs
<1>2. ASSUME NEW w \in Workers, Serves(w)
      PROVE  \E u \in Workers : worker[u].acted /\ Mine(u).key = k
  <2>1. Mine(w).key \in Keys
    BY <1>2, InHand DEF Serves
  <2>2. Mine(w).key = k
    <3>1. HolderStep(Mine(w).key, w, Mine(w).token)
      BY <1>2, WorkerCodeAssumption DEF Serves, Starts, Beats, Fails, Succeeds, HolderStep
    <3> QED BY <1>0, <2>1, <3>1, HolderRows DEF RowSame
  <2>3. ~Starts(w) /\ ~Beats(w)
    BY <1>0, <2>2 DEF Starts, Start, Beats, Heartbeat, Jobs
  <2>4. ASSUME NEW class \in ErrorClasses, NEW delay \in Delays,
               Fail(k, w, Mine(w).token, class, WorkerCode, delay)
        PROVE  FALSE
    <3>1. Record(k, class, WorkerCode, job[k].attempt, delay) /\ UNCHANGED issued
      BY <2>4 DEF Fail
    <3>2. delay \in Nat /\ job[k].attempt \in Nat
      BY <1>0, MaxWaitAssumption DEF Delays, Jobs
    <3>3. RowSame(k) \/ RowFailed(k)
      BY <1>0, <3>1, <3>2, WorkerCodeAssumption, RecordRows
    <3> QED BY <1>0, <3>3 DEF RowSame, RowFailed, FailedAs, StatusAfter, Jobs
  <2> QED BY <1>2, <2>2, <2>3, <2>4 DEF Serves, Fails, Succeeds
<1>3. ASSUME NEW w \in Workers, Performs(w) \/ Falls(w) PROVE FALSE
  BY <1>3 DEF Performs, Falls, vars
<1>4. CASE Elsewhere
  BY <1>0, <1>4 DEF Elsewhere, Enqueue, RequeueDead, Replay, Copy, NewJob, CompleteReview,
                    SetPaused, vars
<1>5. CASE WTick
  BY <1>0, <1>5 DEF WTick, Tick, Jobs
<1> QED BY <1>1, <1>2, <1>3, <1>4, <1>5 DEF Moved, Kinds

LEMMA SuccessCountsStep ==
    ASSUME QueueInv, WTypeOK, \A w \in Workers : Shape(w), ActedCounts, SuccessCounts, Moved
    PROVE  SuccessCounts'
<1> SUFFICES ASSUME NEW k \in Keys, job'[k].status = "succeeded" PROVE effects'[k] > 0
  BY DEF SuccessCounts
<1>1. effects[k] > 0
  BY NewSuccess DEF SuccessCounts, ActedCounts
<1>2. effects'[k] >= effects[k] /\ effects'[k] \in Nat /\ effects[k] \in Nat
  BY EffectsGrow DEF Moved, WTypeOK
<1> QED BY <1>1, <1>2

\* An unknown result stays failed: workers neither report nor retry by hand.
LEMMA UnknownStep ==
    ASSUME QueueInv, UnknownStaysFailed, WorkStep, [Next]_vars
    PROVE  UnknownStaysFailed'
<1> SUFFICES ASSUME NEW k \in Keys, HasUnknown(k)' PROVE job'[k].status = "failed"
  BY DEF UnknownStaysFailed
<1>1. TypeOK /\ RowStep(k)
  BY RowSteps DEF QueueInv
<1>2. CASE HasUnknown(k)
  BY <1>1, <1>2, FailedRests DEF UnknownStaysFailed
<1>3. CASE ~HasUnknown(k)
  BY <1>1, <1>3, UnknownFactFails
<1> QED BY <1>2, <1>3

-----------------------------------------------------------------------------
(***************************************************************************)
(* Effects.  Each is paid for with the token of the lease it is performed  *)
(* under, and no token pays twice.                                         *)
(***************************************************************************)
LEMMA UnusedFinite ==
    ASSUME WTypeOK, NEW k \in Keys
    PROVE  IsFiniteSet(Unused(k)) /\ Cardinality(Unused(k)) \in Nat
<1>1. issued[k] \in Nat
  BY DEF WTypeOK, TypeOK
<1>2. IsFiniteSet(1..issued[k])
  BY <1>1, FS_Interval
<1>3. Unused(k) \in SUBSET (1..issued[k])
  BY DEF Unused
<1> QED BY <1>2, <1>3, FS_Subset, FS_CardinalityType

\* No token becomes unused again, but for the one a claim has just issued.
LEMMA UnusedShrinks ==
    ASSUME WTypeOK, \A w \in Workers : Shape(w), GrantsIssued, Moved, NEW k \in Keys,
           NEW t \in Unused(k)'
    PROVE  t \in Unused(k) \/ (issued'[k] = issued[k] + 1 /\ t = issued[k] + 1)
<1>0. PICK w \in Workers : \E i \in Slots(w)' :
        Row(w, i)' = k /\ Token(w, i)' = t /\ ~(i = 1 /\ worker'[w].acted)
  BY DEF Unused
<1>1. PICK i \in Slots(w)' :
        Row(w, i)' = k /\ Token(w, i)' = t /\ ~(i = 1 /\ worker'[w].acted)
  BY <1>0
<1>2. [Next]_vars
  BY QueueMoves DEF Moved
<1>3. CASE Receives(w)
  BY <1>1, <1>2, <1>3, GrantSlots DEF Receives
<1>4. ASSUME NEW d \in {0, 1}, Suffix(w, d) PROVE t \in Unused(k)
  <2>1. /\ i + d \in Slots(w) /\ Row(w, i + d) = k /\ Token(w, i + d) = t
    BY <1>1, <1>4, SuffixSlots
  <2>2. ~(i + d = 1 /\ worker[w].acted)
    <3>1. CASE d = 0
      <4>1. i = 1 => worker'[w].batch # <<>>
        <5>1. Len(<<>>) = 0 /\ i \in 1..Len(worker'[w].batch)
          BY <1>1 DEF Slots
        <5> QED BY <5>1
      <4>2. i = 1 => worker'[w].acted = worker[w].acted \/ Performs(w)
        BY <1>4, <3>1, <4>1 DEF Suffix
      <4>3. i = 1 => ~worker'[w].acted /\ ~Performs(w)
        BY <1>1 DEF Performs
      <4>4. i + d = i
        BY <3>1 DEF Slots
      <4> QED BY <4>2, <4>3, <4>4
    <3>2. CASE d = 1
      BY <1>1, <3>2 DEF Slots
    <3> QED BY <3>1, <3>2
  <2>3. t \in 1..issued[k]
    BY <2>1 DEF GrantsIssued
  <2> QED BY <2>1, <2>2, <2>3 DEF Unused
<1> QED BY <1>3, <1>4, AllSuffixes

LEMMA PaidStep ==
    ASSUME QueueInv, WTypeOK, \A w \in Workers : Shape(w), GrantsIssued, GrantsUnique, Moved,
           QueueInv', WTypeOK', NEW k \in Keys, Paid(k)
    PROVE  Paid(k)'
<1>0. /\ effects[k] \in Nat /\ effects'[k] \in Nat /\ issued[k] \in Nat /\ issued'[k] \in Nat
      /\ issued[k] <= MaxAttempts /\ effects[k] + Cardinality(Unused(k)) <= issued[k]
      /\ IsFiniteSet(Unused(k)) /\ Cardinality(Unused(k)) \in Nat
      /\ IsFiniteSet(Unused(k)') /\ Cardinality(Unused(k)') \in Nat
  <2>1. IsFiniteSet(Unused(k)') /\ Cardinality(Unused(k)') \in Nat
    <3>1. WTypeOK => IsFiniteSet(Unused(k)) /\ Cardinality(Unused(k)) \in Nat
      BY UnusedFinite
    <3>2. (WTypeOK => IsFiniteSet(Unused(k)) /\ Cardinality(Unused(k)) \in Nat)'
      BY UnusedFinite, PTL
    <3> QED BY <3>2
  <2> QED BY <2>1, UnusedFinite DEF WTypeOK, TypeOK, Paid
<1>1. ASSUME Cardinality(Unused(k)') <= Cardinality(Unused(k)), issued'[k] = issued[k],
             effects'[k] = effects[k]
      PROVE  Paid(k)'
  BY <1>0, <1>1 DEF Paid
<1>2. /\ [Next]_vars /\ TypeOK
      /\ issued'[k] = issued[k] \/ (issued'[k] = issued[k] + 1 /\ RowLeased(k))
  BY QueueMoves, TokensGrow DEF Moved, WTypeOK
\* A new token is one effect more, at most.
<1>3. CASE issued'[k] # issued[k]
  <2>1. issued'[k] = issued[k] + 1 /\ RowLeased(k)
    BY <1>2, <1>3
  <2>2. ~\E w \in Workers : Performs(w)
    BY <1>3 DEF Performs, vars
  <2>3. effects'[k] = effects[k]
    BY <2>2 DEF Moved, Kinds, Receives, Serves, Falls, Elsewhere, WTick
  <2>4. Unused(k)' \subseteq Unused(k) \cup {issued[k] + 1}
    BY UnusedShrinks
  <2>5. Cardinality(Unused(k)') <= Cardinality(Unused(k)) + 1
    <3>1. /\ IsFiniteSet(Unused(k) \cup {issued[k] + 1})
          /\ Cardinality(Unused(k) \cup {issued[k] + 1}) <= Cardinality(Unused(k)) + 1
      <4>1. /\ IsFiniteSet(Unused(k) \cup {issued[k] + 1})
            /\ Cardinality(Unused(k) \cup {issued[k] + 1})
               = IF issued[k] + 1 \in Unused(k) THEN Cardinality(Unused(k))
                 ELSE Cardinality(Unused(k)) + 1
        BY <1>0, FS_AddElement
      <4> QED BY <1>0, <4>1
    <3>2. /\ Cardinality(Unused(k)') <= Cardinality(Unused(k) \cup {issued[k] + 1})
          /\ Cardinality(Unused(k) \cup {issued[k] + 1}) \in Nat
      BY <2>4, <3>1, FS_Subset, FS_CardinalityType
    <3> QED BY <1>0, <3>1, <3>2
  <2>6. issued'[k] <= MaxAttempts
    <3>1. job'[k].status \in Held
      BY <2>1 DEF RowLeased, Leased, WTypeOK, TypeOK, Jobs
    <3>2. WithinBudget(k)' /\ job'[k] \in Jobs
      BY DEF QueueInv, AttemptBudget, TypeOK
    <3> QED BY <1>0, <3>1, <3>2, MaxAttemptsAssumption DEF WithinBudget, Jobs
  <2> QED BY <1>0, <2>1, <2>3, <2>5, <2>6 DEF Paid
\* An effect uses up the token it is performed under.
<1>4. ASSUME NEW w \in Workers, Performs(w), Mine(w).key = k, issued'[k] = issued[k]
      PROVE  Paid(k)'
  <2> DEFINE t == Mine(w).token
  <2>1. /\ 1 \in Slots(w) /\ Row(w, 1) = k /\ Token(w, 1) = t
    BY <1>4, InHand DEF Performs, At
  <2>2. t \in Unused(k)
    <3>1. t \in 1..issued[k] /\ ~worker[w].acted
      BY <1>4, <2>1 DEF GrantsIssued, Performs
    <3> QED BY <2>1, <3>1 DEF Unused
  <2>3. t \notin Unused(k)'
    <3> SUFFICES ASSUME NEW v \in Workers, NEW i \in Slots(v)',
                        Row(v, i)' = k, Token(v, i)' = t, ~(i = 1 /\ worker'[v].acted)
                 PROVE  FALSE
      BY DEF Unused
    <3>1. worker'[v].batch = worker[v].batch
      BY <1>4 DEF Performs, Alone
    <3>2. i \in Slots(v) /\ Row(v, i) = k /\ Token(v, i) = t
      BY <3>1 DEF Slots, Row, Token
    <3>3. v = w /\ i = 1
      BY <2>1, <3>2 DEF GrantsUnique
    <3> QED BY <1>4, <3>3 DEF Performs
  <2>4. Unused(k)' \subseteq Unused(k) \ {t}
    BY <1>0, <1>4, <2>3, UnusedShrinks
  <2> HIDE DEF t
  <2>5. Cardinality(Unused(k)') <= Cardinality(Unused(k)) - 1
    <3>1. IsFiniteSet(Unused(k) \ {t}) /\ Cardinality(Unused(k) \ {t}) = Cardinality(Unused(k)) - 1
      BY <1>0, <2>2, FS_RemoveElement
    <3> QED BY <2>4, <3>1, FS_Subset
  <2>6. effects'[k] = effects[k] + 1
    BY <1>4 DEF Performs, WTypeOK
  <2> QED BY <1>0, <1>4, <2>5, <2>6 DEF Paid
<1>5. ASSUME issued'[k] = issued[k], ~\E w \in Workers : Performs(w) /\ Mine(w).key = k
      PROVE  Paid(k)'
  <2>1. Unused(k)' \in SUBSET Unused(k)
    BY <1>0, <1>5, UnusedShrinks
  <2>2. Cardinality(Unused(k)') <= Cardinality(Unused(k))
    BY <1>0, <2>1, FS_Subset
  <2>3. effects'[k] = effects[k]
    <3>1. CASE \E w \in Workers : Performs(w)
      BY <1>5, <3>1 DEF Performs, WTypeOK
    <3>2. CASE ~\E w \in Workers : Performs(w)
      BY <3>2 DEF Moved, Kinds, Receives, Serves, Falls, Elsewhere, WTick
    <3> QED BY <3>1, <3>2
  <2> QED BY <1>1, <1>5, <2>2, <2>3
<1> QED BY <1>3, <1>4, <1>5

-----------------------------------------------------------------------------
(* What holds whatever happens *)

LEMMA InitInv == WInit => WorkerInv
<1> SUFFICES ASSUME WInit PROVE WorkerInv
  OBVIOUS
<1>1. QueueInv /\ WTypeOK
  BY InitQueue, InitWorker DEF WInit
<1>2. \A w \in Workers : worker[w].batch = <<>> /\ worker[w].pc = "idle"
                        /\ ~worker[w].acted /\ ~worker[w].stop
  BY DEF WInit, Fresh
<1>3. \A w \in Workers : Shape(w) /\ Slots(w) = {}
  <2>1. Len(<<>>) = 0
    OBVIOUS
  <2> QED BY <1>2, <2>1 DEF Shape, Slots
<1>4. GrantsIssued /\ GrantsUnique /\ ActedCounts
  BY <1>2, <1>3 DEF GrantsIssued, GrantsUnique, ActedCounts
<1>5. \A k \in Keys : job[k].status = "absent" /\ issued[k] = 0 /\ effects[k] = 0
                     /\ failures[k] = <<>>
  BY DEF WInit, Init, AbsentJob, NewJob
<1>6. UnknownStaysFailed /\ SuccessCounts
  BY <1>5 DEF UnknownStaysFailed, HasUnknown, SuccessCounts
<1>7. ASSUME NEW k \in Keys PROVE Paid(k)
  <2>1. Unused(k) = {}
    BY <1>3 DEF Unused
  <2> QED BY <1>5, <2>1, FS_EmptySet, MaxAttemptsAssumption DEF Paid
<1> QED BY <1>1, <1>3, <1>4, <1>6, <1>7 DEF WorkerInv

\* A step keeps the invariant, and is of one of the kinds.
LEMMA InvStep == WorkerInv /\ [WNext]_wvars => WorkerInv' /\ Moved
<1> SUFFICES ASSUME WorkerInv, [WNext]_wvars PROVE WorkerInv' /\ Moved
  OBVIOUS
<1>0. /\ QueueInv /\ WTypeOK /\ UnknownStaysFailed
      /\ \A w \in Workers : Shape(w)
      /\ GrantsIssued /\ GrantsUnique /\ ActedCounts /\ SuccessCounts
      /\ \A k \in Keys : Paid(k)
  BY DEF WorkerInv
<1>1. Moved
  BY <1>0, StepKinds
<1>2. WorkStep /\ [Next]_vars
  BY <1>0, <1>1, QueueMoves DEF Moved
<1>3. QueueInv' /\ WTypeOK' /\ UnknownStaysFailed'
  BY <1>0, <1>2, QueueStep, WorkerTypeStep, UnknownStep
<1>4. /\ \A w \in Workers : Shape(w)'
      /\ GrantsIssued' /\ GrantsUnique' /\ ActedCounts' /\ SuccessCounts'
  BY <1>0, <1>1, ShapeStep, GrantsIssuedStep, GrantsUniqueStep, ActedCountsStep,
     SuccessCountsStep
<1>5. \A k \in Keys : Paid(k)'
  BY <1>0, <1>1, <1>3, PaidStep
<1> QED BY <1>1, <1>3, <1>4, <1>5 DEF WorkerInv

THEOREM WorkerInvariant == WSpec => []WorkerInv
BY InitInv, InvStep, PTL DEF WSpec

\* The tables, the processes and the counters keep their types.
THEOREM WorkerTyped == WSpec => []WTypeOK
BY WorkerInvariant, PTL DEF WorkerInv

\* Whatever is killed, paused or late, a row's effect is performed at most
\* once per lease token, hence at most max_attempts times.
THEOREM EffectsPaid ==
    WSpec => [](\A k \in Keys : effects[k] <= issued[k] /\ issued[k] <= MaxAttempts)
<1>1. WorkerInv => \A k \in Keys : effects[k] <= issued[k] /\ issued[k] <= MaxAttempts
  <2> SUFFICES ASSUME WorkerInv, NEW k \in Keys
               PROVE  effects[k] <= issued[k] /\ issued[k] <= MaxAttempts
    OBVIOUS
  <2>1. WTypeOK /\ Paid(k)
    BY DEF WorkerInv
  <2>2. effects[k] \in Nat /\ issued[k] \in Nat /\ Cardinality(Unused(k)) \in Nat
    BY <2>1, UnusedFinite DEF WTypeOK, TypeOK
  <2> QED BY <2>1, <2>2 DEF Paid
<1> QED BY <1>1, WorkerInvariant, PTL

\* A job that succeeded had its effect, and no unknown result on record.
THEOREM SuccessesActed == WSpec => []SuccessActed
<1>1. WorkerInv => SuccessActed
  BY DEF WorkerInv, SuccessActed, SuccessCounts, UnknownStaysFailed
<1> QED BY <1>1, WorkerInvariant, PTL

-----------------------------------------------------------------------------
(***************************************************************************)
(* Punctual processes.  While nobody is late a lease in hand never runs    *)
(* out, as long as heartbeats are sent more often than leases end.  The    *)
(* settings require neither of the two, so this is a hypothesis.           *)
(***************************************************************************)
LEMMA AliveHeld ==
    ASSUME QueueInv, WTypeOK, Beat < LeaseTicks, NEW w \in Workers, NEW i \in Slots(w),
           Alive(w, i)
    PROVE  /\ Row(w, i) \in Keys
           /\ job[Row(w, i)].status \in Held
           /\ job[Row(w, i)].by = w /\ lease[Row(w, i)].by = w
           /\ lease[Row(w, i)].token = Token(w, i)
           /\ lease[Row(w, i)].left > 0
           /\ ~Claimable(Row(w, i)) /\ ~Exhausted(Row(w, i))
<1>1. /\ Row(w, i) \in Keys /\ LeaseAgrees(Row(w, i))
      /\ lease[Row(w, i)] \in Leases /\ job[Row(w, i)] \in Jobs
      /\ worker[w] \in WorkerRows
  BY WorkerType DEF QueueInv, LeaseAgreement, TypeOK
<1>2. lease[Row(w, i)].left \in Nat /\ worker[w].beat \in 0..Beat
  BY <1>1 DEF Leases, WorkerRows
<1>3. /\ job[Row(w, i)].status \in Held
      /\ lease[Row(w, i)].by = w /\ lease[Row(w, i)].token = Token(w, i)
  BY DEF Alive
<1>4. lease[Row(w, i)].left > 0
  BY <1>2, LeaseTicksAssumption, TimingAssumption DEF Alive
<1>5. job[Row(w, i)].by = w /\ job[Row(w, i)].left # 0
  BY <1>1, <1>2, <1>3, <1>4 DEF LeaseAgrees
<1> QED BY <1>1, <1>3, <1>4, <1>5 DEF Claimable, Exhausted, Expired

\* Two live leases are about two rows.
LEMMA AliveApart ==
    ASSUME GrantsUnique, NEW v \in Workers, NEW w \in Workers,
           NEW i \in Slots(v), NEW j \in Slots(w),
           Alive(v, i), Alive(w, j), Row(v, i) = Row(w, j)
    PROVE  v = w /\ i = j
BY DEF GrantsUnique, Alive

\* Nobody else touches the row of a lease that is alive.
LEMMA AliveAlone ==
    ASSUME QueueInv, WTypeOK, \A w \in Workers : Shape(w), GrantsUnique, Beat < LeaseTicks,
           NEW v \in Workers, NEW i \in Slots(v), Alive(v, i),
           \A u \in Workers : \A j \in Slots(u) : Alive(u, j),
           NEW w \in Workers,
           \/ Receives(w) \/ Performs(w) \/ Falls(w) \/ Elsewhere
           \/ Serves(w) /\ (w # v \/ i # 1)
    PROVE  job'[Row(v, i)] = job[Row(v, i)] /\ lease'[Row(v, i)] = lease[Row(v, i)]
<1> DEFINE k == Row(v, i)
<1>0. /\ k \in Keys /\ job[k].status \in Held /\ ~Claimable(k) /\ ~Exhausted(k)
      /\ TypeOK
  BY AliveHeld DEF WTypeOK
<1> SUFFICES job'[k] = job[k] /\ lease'[k] = lease[k]
  OBVIOUS
<1> HIDE DEF k
<1>1. CASE Receives(w)
  BY <1>0, <1>1 DEF Receives, Granted, Claim, Batches
<1>2. CASE Serves(w) /\ (w # v \/ i # 1)
  <2>1. /\ 1 \in Slots(w) /\ Mine(w).key = Row(w, 1) /\ Mine(w).key \in Keys
    BY <1>2, InHand DEF Serves
  <2>2. Mine(w).key # k
    BY <1>2, <2>1, AliveApart DEF k
  <2>3. HolderStep(Mine(w).key, w, Mine(w).token)
    BY <1>2, WorkerCodeAssumption DEF Serves, Starts, Beats, Fails, Succeeds, HolderStep
  <2> QED BY <1>0, <2>1, <2>2, <2>3, HolderRows DEF RowSame
<1>3. CASE Performs(w) \/ Falls(w)
  BY <1>3 DEF Performs, Falls, vars
<1>4. CASE Elsewhere
  <2>1. lease' = lease
    BY <1>4 DEF Elsewhere, Enqueue, RequeueDead, Replay, Copy, CompleteReview, SetPaused, vars
  <2>2. job' = job \/ \E new \in Keys : /\ job[new].status = "absent"
                                         /\ \E row : job' = [job EXCEPT ![new] = row]
    <3>1. ASSUME NEW i1 \in Keys, NEW a \in Aggregates, NEW wait \in 0..MaxWait,
                 Enqueue(i1, a, wait)
          PROVE  job[i1].status = "absent" /\ \E row : job' = [job EXCEPT ![i1] = row]
      BY <3>1 DEF Enqueue
    <3>2. ASSUME NEW i1 \in Keys, NEW new \in Keys, RequeueDead(i1, new) \/ Replay(i1, new)
          PROVE  job[new].status = "absent" /\ \E row : job' = [job EXCEPT ![new] = row]
      BY <3>2 DEF RequeueDead, Replay, Copy
    <3> QED BY <1>4, <3>1, <3>2 DEF Elsewhere, CompleteReview, SetPaused, vars
  <2>3. job'[k] = job[k]
    BY <1>0, <2>2 DEF TypeOK
  <2> QED BY <2>1, <2>3
<1> QED BY <1>1, <1>2, <1>3, <1>4

LEMMA PunctualStep ==
    ASSUME WorkerInv, WorkerInv', Moved, Punctual, Beat < LeaseTicks
    PROVE  Punctual'
<1> SUFFICES ASSUME "late" \notin disturbed', NEW v \in Workers, NEW i \in Slots(v)'
             PROVE  Alive(v, i)'
  BY DEF Punctual
<1>0. /\ QueueInv /\ WTypeOK /\ \A w \in Workers : Shape(w) /\ GrantsUnique /\ TypeOK
      /\ worker \in [Workers -> WorkerRows] /\ worker' \in [Workers -> WorkerRows]
  BY DEF WorkerInv, WTypeOK, WorkerRows
<1>1. "late" \notin disturbed
  BY <1>0, EffectsGrow DEF Moved
<1>2. \A w \in Workers : \A j \in Slots(w) : Alive(w, j)
  BY <1>1 DEF Punctual
<1>3. i \in Nat /\ i > 0 /\ worker[v].beat \in Nat /\ worker'[v].beat \in Nat
  BY <1>0, TimingAssumption DEF Slots, WorkerRows
\* A lease that stays where it is, and whose row is left alone, stays alive.
<1>4. ASSUME i \in Slots(v), Keeps(v), worker'[v].beat = worker[v].beat,
             job'[Row(v, i)] = job[Row(v, i)], lease'[Row(v, i)] = lease[Row(v, i)]
      PROVE  Alive(v, i)'
  BY <1>2, <1>4 DEF Keeps, Alive, Row, Token, At
\* One that is not, or no longer, at the head is only waiting.
<1>5. ASSUME NEW d \in {0, 1}, i + d \in Slots(v), i + d > 1,
             worker'[v].batch[i] = worker[v].batch[i + d],
             d = 0 \/ worker'[v].pc # "handler",
             job'[Row(v, i + d)] = job[Row(v, i + d)],
             lease'[Row(v, i + d)] = lease[Row(v, i + d)]
      PROVE  Alive(v, i)'
  <2>1. Alive(v, i + d) /\ ~(At(v, "handler") /\ i + d = 1)
    BY <1>2, <1>5
  <2>2. ~(At(v, "handler")' /\ i = 1)
    BY <1>3, <1>5 DEF At
  <2>3. Row(v, i)' = Row(v, i + d) /\ Token(v, i)' = Token(v, i + d)
    BY <1>5 DEF Row, Token
  <2> QED BY <1>5, <2>1, <2>2, <2>3 DEF Alive
<1>6. ASSUME NEW w \in Workers, Receives(w) PROVE Alive(v, i)'
  <2>1. CASE v = w
    <3>1. PICK n \in 1..BatchSize : Claim(w, n)
      BY <1>6 DEF Receives, Granted
    <3>2. PICK S \in Batches(n) :
            /\ issued' = [k \in Keys |-> IF k \in S THEN issued[k] + 1 ELSE issued[k]]
            /\ job' = [k \in Keys |-> IF Exhausted(k) THEN Retired(k)
                                      ELSE IF k \in S THEN Leased(k, w) ELSE job[k]]
            /\ lease' = [k \in Keys |->
                            IF Exhausted(k) THEN NoLease
                            ELSE IF k \in S
                            THEN [by |-> w, token |-> issued[k] + 1, left |-> LeaseTicks,
                                  version |-> lease[k].version + 1]
                            ELSE lease[k]]
      BY <3>1 DEF Claim
    <3> DEFINE k == Row(v, i)'
    <3>3. /\ k \in Keys /\ issued'[k] = issued[k] + 1 /\ issued[k] \in Nat
          /\ Token(v, i)' = issued'[k]
      <4>1. [Next]_vars
        BY <1>0, QueueMoves DEF Moved, WorkerInv
      <4> QED BY <1>0, <1>6, <2>1, <4>1, GrantSlots DEF Receives
    <3> HIDE DEF k
    <3>4. k \in S /\ ~Exhausted(k)
      <4>1. k \in S
        BY <3>2, <3>3
      <4> QED BY <4>1 DEF Batches, Claimable, Exhausted, Expired
    <3>5. job'[k] = Leased(k, w)
          /\ lease'[k] = [by |-> w, token |-> issued[k] + 1, left |-> LeaseTicks,
                          version |-> lease[k].version + 1]
      BY <3>2, <3>3, <3>4
    <3>6. job'[k].status = "leased"
      BY <1>0, <3>3, <3>5 DEF Leased, TypeOK, Jobs
    <3>7. ~At(v, "handler")'
      BY <1>6, <2>1 DEF Receives, Granted, At
    <3> QED BY <2>1, <3>3, <3>5, <3>6, <3>7 DEF Alive, k
  <2>2. CASE v # w
    <3>1. worker'[v] = worker[v]
      BY <1>6, <2>2 DEF Receives, Alone
    <3>2. i \in Slots(v) /\ Keeps(v)
      BY <3>1 DEF Keeps, Slots
    <3>3. job'[Row(v, i)] = job[Row(v, i)] /\ lease'[Row(v, i)] = lease[Row(v, i)]
      BY <1>0, <1>2, <1>6, <3>2, AliveAlone
    <3> QED BY <1>4, <3>1, <3>2, <3>3
  <2> QED BY <2>1, <2>2
<1>7. ASSUME NEW w \in Workers, Serves(w) PROVE Alive(v, i)'
  <2>1. CASE v # w
    <3>1. worker'[v] = worker[v]
      BY <1>7, <2>1 DEF Serves, Alone
    <3>2. i \in Slots(v) /\ Keeps(v)
      BY <3>1 DEF Keeps, Slots
    <3> QED BY <1>0, <1>2, <1>4, <1>7, <2>1, <3>1, <3>2, AliveAlone
  <2> SUFFICES ASSUME v = w PROVE Alive(v, i)'
    BY <2>1
  <2>2. /\ 1 \in Slots(v) /\ Mine(v).key = Row(v, 1) /\ Mine(v).token = Token(v, 1)
        /\ Row(v, 1) \in Keys /\ Alive(v, 1)
    BY <1>0, <1>2, <1>7, InHand DEF Serves
  <2>3. job[Row(v, 1)] \in Jobs /\ lease[Row(v, 1)] \in Leases
    BY <1>0, <2>2 DEF TypeOK
  <2>4. CASE Starts(v)
    <3>1. i \in Slots(v) /\ worker'[v].batch = worker[v].batch
      BY <2>4 DEF Starts, Slots
    <3>2. CASE i = 1
      <4>1. /\ job'[Row(v, 1)].status = "running" /\ lease'[Row(v, 1)] = lease[Row(v, 1)]
        BY <1>0, <2>2, <2>3, <2>4 DEF Starts, Start, TypeOK, Jobs
      <4>2. /\ lease[Row(v, 1)].by = v /\ lease[Row(v, 1)].token = Token(v, 1)
            /\ lease[Row(v, 1)].left = LeaseTicks
        BY <2>2, <2>4 DEF Alive, Starts, At
      <4>3. /\ Row(v, i)' = Row(v, 1) /\ Token(v, i)' = Token(v, 1)
            /\ worker'[v].pc = "handler"
        BY <2>4, <3>2 DEF Starts, Row, Token
      <4>4. lease'[Row(v, 1)].left + worker'[v].beat >= LeaseTicks
        BY <1>3, <4>1, <4>2, LeaseTicksAssumption
      <4> QED BY <3>2, <4>1, <4>2, <4>3, <4>4 DEF Alive, At
    <3>3. CASE i # 1
      <4>1. job'[Row(v, i)] = job[Row(v, i)] /\ lease'[Row(v, i)] = lease[Row(v, i)]
        BY <1>0, <1>2, <1>7, <3>1, <3>3, AliveAlone
      <4>2. i + 0 = i /\ i > 1 /\ 0 \in {0, 1}
        BY <1>3, <3>3
      <4> QED BY <1>5, <3>1, <4>1, <4>2
    <3> QED BY <3>2, <3>3
  <2>5. CASE Beats(v)
    <3>1. i \in Slots(v) /\ worker'[v].batch = worker[v].batch /\ worker'[v].pc = "handler"
      BY <2>5 DEF Beats, Keeps, Slots, At
    <3>2. CASE i = 1
      <4>1. /\ job'[Row(v, 1)].status = job[Row(v, 1)].status
            /\ lease'[Row(v, 1)].left = LeaseTicks
            /\ lease'[Row(v, 1)].by = lease[Row(v, 1)].by
            /\ lease'[Row(v, 1)].token = lease[Row(v, 1)].token
        BY <1>0, <2>2, <2>3, <2>5 DEF Beats, Heartbeat, TypeOK, Jobs, Leases
      <4>2. /\ lease[Row(v, 1)].by = v /\ lease[Row(v, 1)].token = Token(v, 1)
            /\ job[Row(v, 1)].status = "running"
        BY <2>2, <2>5 DEF Alive, Beats
      <4>3. Row(v, i)' = Row(v, 1) /\ Token(v, i)' = Token(v, 1)
        BY <3>1, <3>2 DEF Row, Token
      <4>4. lease'[Row(v, 1)].left + worker'[v].beat >= LeaseTicks
        BY <1>3, <4>1, LeaseTicksAssumption
      <4> QED BY <3>1, <3>2, <4>1, <4>2, <4>3, <4>4 DEF Alive, At
    <3>3. CASE i # 1
      <4>1. job'[Row(v, i)] = job[Row(v, i)] /\ lease'[Row(v, i)] = lease[Row(v, i)]
        BY <1>0, <1>2, <1>7, <3>1, <3>3, AliveAlone
      <4>2. i + 0 = i /\ i > 1 /\ 0 \in {0, 1}
        BY <1>3, <3>3
      <4> QED BY <1>5, <3>1, <4>1, <4>2
    <3> QED BY <3>2, <3>3
  <2>6. CASE Sheds(v)
    <3>1. /\ worker[v].batch # <<>> /\ worker[v].batch \in Seq(Grants)
          /\ worker'[v].batch = Tail(worker[v].batch) /\ worker'[v].pc # "handler"
      BY <1>0, <1>7, <2>6, InHand, WorkerType DEF Serves, Sheds
    <3>2. /\ Len(Tail(worker[v].batch)) = Len(worker[v].batch) - 1
          /\ \A n \in 1..Len(worker[v].batch) - 1 :
                 Tail(worker[v].batch)[n] = worker[v].batch[n + 1]
          /\ Len(worker[v].batch) \in Nat
      BY <3>1
    <3>3. /\ i \in 1..Len(worker[v].batch) - 1 /\ i + 1 \in Slots(v) /\ i + 1 > 1
          /\ i + 1 # 1
      BY <1>3, <3>1, <3>2 DEF Slots
    <3>4. worker'[v].batch[i] = worker[v].batch[i + 1]
      BY <3>1, <3>2, <3>3
    <3>5. /\ job'[Row(v, i + 1)] = job[Row(v, i + 1)]
          /\ lease'[Row(v, i + 1)] = lease[Row(v, i + 1)]
      BY <1>0, <1>2, <1>7, <3>3, AliveAlone
    <3> QED BY <1>5, <3>1, <3>3, <3>4, <3>5
  <2> QED BY <1>7, <2>4, <2>5, <2>6 DEF Serves, Fails, Succeeds
<1>8. ASSUME NEW w \in Workers, Performs(w) \/ Falls(w) PROVE Alive(v, i)'
  <2>1. job' = job /\ lease' = lease
    BY <1>8 DEF Performs, Falls, vars
  <2>2. ~Drops(v)
    <3>1. Len(<<>>) = 0
      OBVIOUS
    <3> QED BY <1>3, <3>1 DEF Drops, Slots
  <2>3. /\ worker'[v].batch = worker[v].batch /\ worker'[v].pc = worker[v].pc
        /\ worker'[v].beat = worker[v].beat
    BY <1>8, <2>2 DEF Performs, Falls, Alone
  <2>4. i \in Slots(v)
    BY <2>3 DEF Slots
  <2> QED BY <1>2, <2>1, <2>3, <2>4 DEF Alive, Row, Token, At
<1>9. CASE Elsewhere
  <2>1. i \in Slots(v) /\ Keeps(v) /\ worker'[v].beat = worker[v].beat
    BY <1>9 DEF Elsewhere, Keeps, Slots
  <2> QED BY <1>0, <1>2, <1>4, <1>9, <2>1, AliveAlone
<1>10. CASE WTick
  \* Time passes only while no lease but a running one is in hand, and no
  \* heartbeat is due.
  <2>1. i \in Slots(v) /\ Keeps(v)
    BY <1>0, <1>10, TickMoves DEF Keeps, Slots
  <2>2. ~Pressing(v)
    BY <1>1, <1>10 DEF WTick
  <2>3. /\ i = 1 /\ At(v, "handler") /\ worker[v].beat < Beat
    <3>1. worker[v].batch # <<>> /\ ~At(v, "batch") /\ Len(worker[v].batch) \in Nat
          /\ ~(Len(worker[v].batch) > 1)
      <4>1. Len(<<>>) = 0
        OBVIOUS
      <4> QED BY <1>0, <2>1, <2>2, <4>1, WorkerType DEF Pressing, Slots
    <3>2. At(v, "handler") /\ i = 1
      BY <1>0, <1>3, <2>1, <3>1 DEF Shape, At, Slots
    <3> QED BY <1>0, <2>2, <3>2, TimingAssumption DEF Pressing, WorkerRows
  <2> DEFINE k == Row(v, 1)
  <2>4. /\ lease[k].by = v /\ lease[k].token = Token(v, 1) /\ job[k].status = "running"
        /\ lease[k].left + worker[v].beat >= LeaseTicks
        /\ k \in Keys
    BY <1>0, <1>2, <2>1, <2>3, AliveHeld DEF Alive
  <2> HIDE DEF k
  <2>5. lease[k] \in Leases /\ job[k] \in Jobs
    BY <1>0, <2>4 DEF TypeOK
  <2>6. /\ lease'[k].by = lease[k].by /\ lease'[k].token = lease[k].token
        /\ lease'[k].left = Dec(lease[k].left) /\ job'[k].status = job[k].status
    BY <1>10, <2>4, <2>5 DEF WTick, Tick, Leases, Jobs
  <2>7. worker'[v].beat = worker[v].beat + 1
    BY <1>0, <1>10, <2>3, TickMoves
  <2>8. Dec(lease[k].left) + (worker[v].beat + 1) >= LeaseTicks
    BY <1>3, <2>3, <2>4, <2>5, TimingAssumption, LeaseTicksAssumption DEF Dec, Leases
  <2>9. Row(v, i)' = k /\ Token(v, i)' = Token(v, 1) /\ At(v, "handler")'
    BY <2>1, <2>3 DEF Keeps, Row, Token, At, k
  <2> QED BY <2>3, <2>4, <2>6, <2>7, <2>8, <2>9 DEF Alive
<1> QED BY <1>6, <1>7, <1>8, <1>9, <1>10 DEF Moved, Kinds

\* A failure a lease holder records is never taken for a duplicate: a handler
\* that has acted and ends leaves its row succeeded or failed.
LEMMA ActedEnds ==
    ASSUME QueueInv, WTypeOK, NEW w \in Workers, Shape(w), worker[w].acted, ~worker[w].stop,
           Fails(w) \/ Succeeds(w)
    PROVE  job'[Mine(w).key].status \in {"succeeded", "failed"}
<1> DEFINE k == Mine(w).key
<1>0. /\ k \in Keys /\ TypeOK /\ job[k] \in Jobs /\ FactsBehind(k)
      /\ failures[k] \in Seq(Facts)
  BY InHand DEF Shape, WTypeOK, TypeOK, QueueInv, FactsBehindAttempt
<1> HIDE DEF k
<1>1. CASE Succeeds(w)
  BY <1>0, <1>1 DEF Succeeds, Complete, TypeOK, Jobs, k
<1>2. CASE Fails(w)
  <2>1. PICK delay \in Delays :
          Fail(k, w, Mine(w).token, "unknown", WorkerCode, delay)
    BY <1>2 DEF Fails, k
  <2>2. job[k].status \in Held /\ Record(k, "unknown", WorkerCode, job[k].attempt, delay)
    BY <2>1 DEF Fail, ValidLease
  <2>3. ~Recorded(k, job[k].attempt, WorkerCode)
    <3>1. \A i \in 1..Len(failures[k]) :
             failures[k][i].attempt \in Nat /\ failures[k][i].attempt < job[k].attempt
      <4> SUFFICES ASSUME NEW i \in 1..Len(failures[k])
                   PROVE  failures[k][i].attempt \in Nat /\ failures[k][i].attempt < job[k].attempt
        OBVIOUS
      <4>1. failures[k][i] \in Facts
        BY <1>0
      <4> QED BY <1>0, <2>2, <4>1 DEF FactsBehind, Facts
    <3> QED BY <1>0, <3>1 DEF Recorded, Jobs
  <2> DEFINE row == [job[k] EXCEPT
            !.status = StatusAfter("unknown", job[k].attempt),
            !.attempt = job[k].attempt,
            !.wait = IF StatusAfter("unknown", job[k].attempt) = "retry_scheduled"
                     THEN delay ELSE 0,
            !.left = 0, !.by = NoWorker]
  <2>4. job' = [job EXCEPT ![k] = row]
    BY <2>2, <2>3 DEF Record
  <2>5. row.status = "failed"
    BY <1>0 DEF StatusAfter, Jobs
  <2> HIDE DEF row
  <2> QED BY <1>0, <2>4, <2>5 DEF TypeOK, k
<1> QED BY <1>1, <1>2

\* A row that has ended stays so: nothing but a report or a retry revives it.
LEMMA EndedStays ==
    ASSUME QueueInv, QueueInv', WorkStep, [Next]_vars, NEW k \in Keys,
           job[k].status \in {"succeeded", "failed"}
    PROVE  job'[k].status \in {"succeeded", "failed"}
<1>1. CASE job[k].status = "succeeded"
  BY <1>1, TerminalStep
<1>2. CASE job[k].status = "failed"
  BY <1>2, FailedRests DEF QueueInv
<1> QED BY <1>1, <1>2

LEMMA OnceStep ==
    ASSUME WorkerInv, WorkerInv', Moved, Punctual, Undisturbed, Beat < LeaseTicks,
           disturbed' \subseteq {"pause"}, NEW k \in Keys
    PROVE  Once(k)'
<1>0. /\ QueueInv /\ QueueInv' /\ WTypeOK /\ GrantsUnique
      /\ \A w \in Workers : Shape(w)
      /\ WorkStep /\ [Next]_vars
      /\ effects \in [Keys -> Nat]
  BY QueueMoves DEF WorkerInv, WTypeOK, Moved
<1>1. disturbed \subseteq {"pause"}
  BY <1>0, EffectsGrow DEF Moved
<1>2. Once(k)
  BY <1>1 DEF Undisturbed
<1>3. \A w \in Workers : \A i \in Slots(w) : Alive(w, i)
  BY <1>1 DEF Punctual
<1>4. \A w \in Workers : ~worker[w].stop
  BY <1>0, <1>1 DEF Shape
<1>5. ASSUME NEW w \in Workers, Performs(w), Mine(w).key = k PROVE Once(k)'
  <2>1. 1 \in Slots(w) /\ Row(w, 1) = k /\ Alive(w, 1)
    BY <1>0, <1>3, <1>5, InHand DEF Performs, At
  <2>2. job[k].status = "running" /\ lease[k].by = w
    BY <1>5, <2>1 DEF Alive, Performs
  <2>3. ~\E v \in Workers : At(v, "handler") /\ worker[v].acted /\ Mine(v).key = k
    <3> SUFFICES ASSUME NEW v \in Workers, At(v, "handler"), worker[v].acted, Mine(v).key = k
                 PROVE  FALSE
      OBVIOUS
    <3>1. 1 \in Slots(v) /\ Row(v, 1) = k /\ Alive(v, 1)
      BY <1>0, <1>3, InHand DEF At
    <3>2. lease[k].by = v
      BY <3>1 DEF Alive
    <3> QED BY <1>5, <2>2, <3>2 DEF Performs
  <2>4. effects[k] = 0
    BY <1>0, <1>2, <2>2, <2>3 DEF Once
  <2>5. effects'[k] = 1
    BY <1>0, <1>5, <2>4 DEF Performs
  <2>6. At(w, "handler")' /\ worker'[w].acted /\ Mine(w)' = Mine(w)
    BY <1>5 DEF Performs, At, Mine
  <2> QED BY <1>5, <2>5, <2>6 DEF Once
<1>6. ASSUME ~\E w \in Workers : Performs(w) /\ Mine(w).key = k PROVE Once(k)'
  <2>1. effects'[k] = effects[k]
    <3>1. CASE \E w \in Workers : Performs(w)
      BY <1>0, <1>6, <3>1 DEF Performs
    <3>2. CASE ~\E w \in Workers : Performs(w)
      BY <3>2 DEF Moved, Kinds, Receives, Serves, Falls, Elsewhere, WTick
    <3> QED BY <3>1, <3>2
  <2> SUFFICES ASSUME effects[k] > 0 PROVE Once(k)'
    BY <2>1 DEF Once
  <2>2. CASE job[k].status \in {"succeeded", "failed"}
    BY <1>0, <1>2, <2>1, <2>2, EndedStays DEF Once
  <2>3. ASSUME NEW w \in Workers, At(w, "handler"), worker[w].acted, Mine(w).key = k
        PROVE  Once(k)'
    <3>1. 1 \in Slots(w) /\ Mine(w).key = Row(w, 1) /\ Mine(w).token = Token(w, 1) /\ Alive(w, 1)
      BY <1>0, <1>3, <2>3, InHand DEF At
    <3>2. Valid(w)
      BY <1>0, <3>1, AliveHeld DEF Valid, ValidLease
    <3>3. CASE Keeps(w)
      <4>1. At(w, "handler")' /\ worker'[w].acted /\ Mine(w)' = Mine(w)
        BY <2>3, <3>3 DEF Keeps, At, Mine
      <4> QED BY <1>2, <2>1, <2>3, <4>1 DEF Once
    <3>4. CASE Serves(w)
      <4>1. ~Starts(w)
        BY <2>3 DEF Starts, At
      <4>2. CASE Beats(w)
        BY <3>3, <4>2 DEF Beats
      <4>3. CASE Fails(w) \/ Succeeds(w)
        BY <1>0, <1>2, <1>4, <2>1, <2>3, <4>3, ActedEnds DEF Once
      <4> QED BY <3>4, <4>1, <4>2, <4>3 DEF Serves
    <3>5. ~Receives(w) /\ ~Performs(w)
      BY <2>3 DEF Receives, Granted, Performs, At
    <3>6. ~Falls(w)
      BY <2>3, <3>2 DEF Falls
    <3>7. ASSUME NEW v \in Workers \ {w}, Receives(v) \/ Serves(v) \/ Performs(v) \/ Falls(v)
          PROVE  Keeps(w)
      BY <3>7 DEF Receives, Serves, Performs, Falls, Alone, Keeps
    <3>8. CASE Elsewhere \/ WTick
      BY <1>0, <3>3, <3>8, TickMoves DEF Elsewhere
    <3> QED BY <3>3, <3>4, <3>5, <3>6, <3>7, <3>8 DEF Moved, Kinds
  <2> QED BY <1>2, <2>2, <2>3 DEF Once
<1> QED BY <1>5, <1>6

\* What holds while processes are punctual is inductive, too.
LEMMA InitPunctual == WInit => PunctualInv
<1> SUFFICES ASSUME WInit PROVE PunctualInv
  OBVIOUS
<1>1. \A w \in Workers : Slots(w) = {}
  <2>1. Len(<<>>) = 0
    OBVIOUS
  <2> QED BY <2>1 DEF WInit, Fresh, Slots
<1>2. \A k \in Keys : effects[k] = 0
  BY DEF WInit
<1> QED BY <1>1, <1>2, InitInv DEF PunctualInv, Punctual, Undisturbed, Once

THEOREM PunctualInvariant == Beat < LeaseTicks => (WSpec => []PunctualInv)
<1> SUFFICES ASSUME Beat < LeaseTicks PROVE WSpec => []PunctualInv
  OBVIOUS
<1>1. PunctualInv /\ [WNext]_wvars => PunctualInv'
  <2> SUFFICES ASSUME PunctualInv, [WNext]_wvars PROVE PunctualInv'
    OBVIOUS
  <2>1. WorkerInv /\ WorkerInv' /\ Moved /\ Punctual /\ Undisturbed
    BY InvStep DEF PunctualInv
  <2>2. Punctual'
    BY <2>1, PunctualStep
  <2>3. Undisturbed'
    BY <2>1, OnceStep DEF Undisturbed
  <2> QED BY <2>1, <2>2, <2>3 DEF PunctualInv
<1> QED BY <1>1, InitPunctual, PTL DEF WSpec

\* If heartbeats come before leases end, no two processes run a row's handler
\* while nobody is late, and the one that does holds the row.
THEOREM HandlersExclusive == Beat < LeaseTicks => (WSpec => []ExclusiveHandler)
<1>1. PunctualInv => ExclusiveHandler
  <2> SUFFICES ASSUME PunctualInv, "late" \notin disturbed, NEW w \in Workers, NEW k \in Keys,
                      Running(w, k)
               PROVE  /\ job[k].status = "running" /\ job[k].by = w
                      /\ lease[k].token = Mine(w).token
                      /\ \A v \in Workers \ {w} : ~Running(v, k)
    BY DEF ExclusiveHandler
  <2>1. ASSUME NEW v \in Workers, Running(v, k)
        PROVE  /\ job[k].status = "running" /\ lease[k].by = v
               /\ lease[k].token = Mine(v).token
    <3>1. 1 \in Slots(v) /\ Mine(v).key = Row(v, 1) /\ Mine(v).token = Token(v, 1)
      BY <2>1, InHand DEF PunctualInv, WorkerInv, Running, At
    <3> QED BY <2>1, <3>1 DEF PunctualInv, Punctual, Alive, Running
  <2>2. job[k].by = lease[k].by
    BY <2>1 DEF PunctualInv, WorkerInv, QueueInv, LeaseAgreement, LeaseAgrees
  <2> QED BY <2>1, <2>2
<1> QED BY <1>1, PunctualInvariant, PTL

\* Where nothing but a drill disturbs, a row's effect is performed once.
THEOREM EffectsOnce == Beat < LeaseTicks => (WSpec => []EffectsKept)
<1>1. PunctualInv => \A k \in Keys : disturbed \subseteq {"pause"} => effects[k] <= 1
  <2> SUFFICES ASSUME PunctualInv, NEW k \in Keys, disturbed \subseteq {"pause"}
               PROVE  effects[k] <= 1
    OBVIOUS
  <2>1. Once(k) /\ effects[k] \in Nat
    BY DEF PunctualInv, Undisturbed, WorkerInv, WTypeOK
  <2> QED BY <2>1 DEF Once
<1>2. /\ \A k \in Keys : effects[k] <= issued[k] /\ issued[k] <= MaxAttempts
      /\ \A k \in Keys : disturbed \subseteq {"pause"} => effects[k] <= 1
      => EffectsKept
  BY DEF EffectsKept
<1> QED BY <1>1, <1>2, PunctualInvariant, EffectsPaid, PTL

\* The workers use the queue as its specification allows, so whatever is
\* proved about the queue holds of the queue they share.
THEOREM WorkersUseQueue == WSpec => Spec
<1>1. WInit => Init
  BY DEF WInit
<1>2. WorkerInv /\ [WNext]_wvars => [Next]_vars
  BY InvStep, QueueMoves DEF WorkerInv, Moved
<1> QED BY <1>1, <1>2, WorkerInvariant, PTL DEF WSpec, Spec

=============================================================================

------------------------------- MODULE Outbox -------------------------------
(***************************************************************************)
(* infra/foundation/outbox.py: OutboxStore keeps events that are committed *)
(* with the business state they report, and OutboxDispatcher loops in      *)
(* several processes claim, publish and mark them.  A dispatcher publishes *)
(* between two transactions, so it may be slow, crash or lose its lease    *)
(* there; a mark that raises escapes dispatch_once and ends the process.   *)
(*                                                                         *)
(* An event is named by its idempotency key, which the table keeps unique  *)
(* per tenant.  Timestamps are countdowns, as in TaskQueue.                *)
(***************************************************************************)
EXTENDS Naturals, FiniteSets, Sequences

CONSTANTS
    Events,         \* idempotency keys
    Workers,        \* dispatcher processes
    NoWorker,       \* locked_by IS NULL
    Callers,        \* callers of commit_state_and_event
    Payloads,       \* payload hashes
    NoPayload,      \* the row does not exist
    MaxAttempts,    \* OutboxStore.max_attempts
    LeaseTicks,     \* lease_seconds
    RetryBase,      \* retry_base_seconds
    BatchSize,      \* largest claim limit
    Outcomes,       \* what publishers answer
    Trouble         \* bound on crashes, unknown results, slow dispatchers and
                    \* commits that race

ASSUME EventAssumption == IsFiniteSet(Events)
ASSUME CallerAssumption == IsFiniteSet(Callers)
ASSUME WorkerAssumption == NoWorker \notin Workers
ASSUME PayloadAssumption == NoPayload \notin Payloads
ASSUME AttemptAssumption == MaxAttempts \in Nat /\ MaxAttempts > 0
ASSUME LeaseAssumption == LeaseTicks \in Nat /\ LeaseTicks > 0
ASSUME BackoffAssumption == RetryBase \in Nat
ASSUME BatchAssumption == BatchSize \in Nat
ASSUME OutcomeAssumption ==
    Outcomes \subseteq {"published", "retryable", "rejected", "unknown"}
ASSUME BoundAssumption == Trouble \in Nat

VARIABLES
    event,      \* [Events -> row of outbox_events]
    writes,     \* [Events -> committed runs of the key's state writer]
    asked,      \* commits that have looked for a duplicate and not yet begun
    disp,       \* [Workers -> dispatcher: position, claimed events, answer]
    sent,       \* [Events -> the attempts that reached the receiver]
    doubted,    \* events some publication of which was answered "unknown"
    trouble     \* how many of these have happened

vars == <<event, writes, asked, disp, sent, doubted, trouble>>

Statuses == {"none", "pending", "publishing", "published", "failed", "dead_letter"}
Ended == {"published", "dead_letter"}
Answers == {"none", "published", "retryable", "rejected"}

Rows == [status : Statuses, payload : Payloads \cup {NoPayload}, attempt : Nat,
         wait : Nat, left : Nat, by : Workers \cup {NoWorker}]

Claims == [event : Events, attempt : Nat]

NoRow == [status |-> "none", payload |-> NoPayload, attempt |-> 0,
          wait |-> 0, left |-> 0, by |-> NoWorker]

Idle == [pc |-> "idle", batch |-> <<>>, answer |-> "none"]

Init ==
    /\ event = [e \in Events |-> NoRow]
    /\ writes = [e \in Events |-> 0]
    /\ asked = {}
    /\ disp = [w \in Workers |-> Idle]
    /\ sent = [e \in Events |-> {}]
    /\ doubted = {}
    /\ trouble = 0

-----------------------------------------------------------------------------
(* commit_state_and_event *)

\* Seeded fault: no duplicate check.
AskCommitUnchecked(c, e, p) ==
    /\ \A r \in asked : r.caller # c
    /\ asked' = asked \cup {[caller |-> c, event |-> e, payload |-> p]}
    /\ UNCHANGED <<event, writes, disp, sent, doubted, trouble>>

\* The duplicate check runs before the transaction begins: a duplicate returns
\* the stored event or raises, and nothing is written.
AskCommit(c, e, p) ==
    /\ event[e].status = "none"
    /\ \A r \in asked : r.caller # c
    /\ asked' = asked \cup {[caller |-> c, event |-> e, payload |-> p]}
    /\ trouble' = IF \E r \in asked : r.event = e THEN trouble + 1 ELSE trouble
    /\ trouble' <= Trouble
    /\ UNCHANGED <<event, writes, disp, sent, doubted>>

\* The transaction: the state writer runs, then append inserts the event,
\* returns the one that is there by now, or raises on another payload and rolls
\* both back, as it does when the state writer raises.
DoCommit(r) ==
    /\ r \in asked
    /\ asked' = asked \ {r}
    /\ \/ /\ event[r.event].payload \in {NoPayload, r.payload}
          /\ writes' = [writes EXCEPT ![r.event] = @ + 1]
          /\ event' = [event EXCEPT ![r.event] =
                IF @.status = "none"
                THEN [@ EXCEPT !.status = "pending", !.payload = r.payload] ELSE @]
       \/ UNCHANGED <<writes, event>>
    /\ UNCHANGED <<disp, sent, doubted, trouble>>

-----------------------------------------------------------------------------
(* dispatch_once *)

At(w, pc) == disp[w].pc = pc

\* Seeded fault: retry_due also picks up what was given up.
RetryDueAll(w) ==
    /\ At(w, "idle")
    /\ event' = [e \in Events |->
            IF event[e].status \in {"failed", "dead_letter"} /\ event[e].wait = 0
            THEN [event[e] EXCEPT !.status = "pending"] ELSE event[e]]
    /\ disp' = [disp EXCEPT ![w].pc = "claim"]
    /\ UNCHANGED <<writes, asked, sent, doubted, trouble>>

\* retry_due, a transaction of its own, puts every failed event that is due
\* back to pending.
RetryDue(w) ==
    /\ At(w, "idle")
    /\ event' = [e \in Events |->
            IF event[e].status = "failed" /\ event[e].wait = 0
            THEN [event[e] EXCEPT !.status = "pending", !.left = 0, !.by = NoWorker]
            ELSE event[e]]
    /\ disp' = [disp EXCEPT ![w].pc = "claim"]
    /\ UNCHANGED <<writes, asked, sent, doubted, trouble>>

\* Seeded faults: whatever nobody has locked is claimed; expired locks are not.
ClaimableUnlocked(e) == event[e].status # "none" /\ event[e].left = 0

ClaimablePending(e) == event[e].status = "pending" /\ event[e].wait = 0

Claimable(e) ==
    \/ event[e].status = "pending" /\ event[e].wait = 0
    \/ event[e].status = "publishing" /\ event[e].left = 0

Batches(n) ==
    LET open == {e \in Events : Claimable(e)}
        size == IF Cardinality(open) < n THEN Cardinality(open) ELSE n
    IN  {S \in SUBSET open : Cardinality(S) = size}

\* Seeded fault: taking over an expired lock does not count as an attempt.
LockedUncounted(e, w) ==
    [event[e] EXCEPT !.status = "publishing", !.left = LeaseTicks, !.by = w,
                     !.attempt = IF event[e].status = "publishing" THEN @ ELSE @ + 1]

Locked(e, w) ==
    [event[e] EXCEPT !.status = "publishing", !.attempt = @ + 1,
                     !.left = LeaseTicks, !.by = w]

\* The claimed rows in some order, each with the attempt it was claimed for.
Orders(S) ==
    {f \in [1..Cardinality(S) -> S] :
        \A i, j \in 1..Cardinality(S) : f[i] = f[j] => i = j}

Claim(w, n) ==
    /\ At(w, "claim")
    /\ \E S \in Batches(n) :
        /\ event' = [e \in Events |-> IF e \in S THEN Locked(e, w) ELSE event[e]]
        /\ \E f \in Orders(S) :
            disp' = [disp EXCEPT ![w] =
                [pc |-> IF S = {} THEN "idle" ELSE "publish",
                 batch |-> [i \in 1..Cardinality(S) |->
                    [event |-> f[i], attempt |-> event[f[i]].attempt + 1]],
                 answer |-> "none"]]
    /\ UNCHANGED <<writes, asked, sent, doubted, trouble>>

Mine(w) == Head(disp[w].batch)

\* The loop goes on with the next event of the batch.
Proceed(w) ==
    disp' = [disp EXCEPT ![w] =
        [pc |-> IF Len(disp[w].batch) = 1 THEN "idle" ELSE "publish",
         batch |-> Tail(disp[w].batch), answer |-> "none"]]

Reaches(w) == sent' = [sent EXCEPT ![Mine(w).event] = @ \cup {Mine(w).attempt}]

\* Seeded fault: any answer but a rejection is taken for success.
PublishOptimist(w, outcome) ==
    /\ At(w, "publish")
    /\ outcome \in Outcomes \ {"unknown"}
    /\ disp' = [disp EXCEPT ![w].pc = "mark",
            ![w].answer = IF outcome = "rejected" THEN outcome ELSE "published"]
    /\ \/ outcome # "rejected" /\ Reaches(w)
       \/ outcome # "published" /\ UNCHANGED sent
    /\ UNCHANGED <<event, writes, asked, doubted, trouble>>

\* _publish: the receiver has the event when the answer is "published", does
\* not when it is "rejected", and may or may not otherwise; an exception of the
\* publisher is treated like "retryable".
Publish(w, outcome) ==
    /\ At(w, "publish")
    /\ outcome \in Outcomes \ {"unknown"}
    /\ disp' = [disp EXCEPT ![w].pc = "mark", ![w].answer = outcome]
    /\ \/ outcome # "rejected" /\ Reaches(w)
       \/ outcome # "published" /\ UNCHANGED sent
    /\ UNCHANGED <<event, writes, asked, doubted, trouble>>

\* An unknown result is left in publishing until its lease expires.
PublishUnknown(w) ==
    /\ At(w, "publish")
    /\ "unknown" \in Outcomes
    /\ trouble < Trouble
    /\ trouble' = trouble + 1
    /\ doubted' = doubted \cup {Mine(w).event}
    /\ Reaches(w) \/ UNCHANGED sent
    /\ Proceed(w)
    /\ UNCHANGED <<event, writes, asked>>

Owns(w) ==
    /\ event[Mine(w).event].status = "publishing"
    /\ event[Mine(w).event].by = w

\* The delay counts from the start of dispatch_once, so some of it may be over.
Backoff(attempt) == RetryBase * 2 ^ (attempt - 1)

\* Seeded fault: a retryable failure is retried whatever the count.
MarkedUnlimited(e, answer, wait) ==
    [event[e] EXCEPT
        !.status = CASE answer = "published" -> "published"
                     [] answer = "rejected" -> "dead_letter"
                     [] OTHER -> "failed",
        !.wait = wait, !.left = 0, !.by = NoWorker]

Marked(e, answer, wait) ==
    LET terminal == answer = "rejected" \/ event[e].attempt >= MaxAttempts
    IN  [event[e] EXCEPT
            !.status = IF answer = "published" THEN "published"
                       ELSE IF terminal THEN "dead_letter" ELSE "failed",
            !.wait = IF answer = "published" THEN @ ELSE IF terminal THEN 0 ELSE wait,
            !.left = 0, !.by = NoWorker]

\* mark_published or mark_failed, conditional on owning the row.
Mark(w) ==
    /\ At(w, "mark")
    /\ Owns(w)
    /\ \E wait \in 0..Backoff(event[Mine(w).event].attempt) :
        event' = [event EXCEPT ![Mine(w).event] =
                    Marked(Mine(w).event, disp[w].answer, wait)]
    /\ Proceed(w)
    /\ UNCHANGED <<writes, asked, sent, doubted, trouble>>

\* The mark raises: the process ends, with the rest of its batch still locked.
MarkLost(w) ==
    /\ At(w, "mark")
    /\ ~Owns(w)
    /\ disp' = [disp EXCEPT ![w] = [Idle EXCEPT !.pc = "down"]]
    /\ UNCHANGED <<event, writes, asked, sent, doubted, trouble>>

-----------------------------------------------------------------------------
(* The environment *)

Crash(w) ==
    /\ ~At(w, "down")
    /\ trouble < Trouble
    /\ trouble' = trouble + 1
    /\ disp' = [disp EXCEPT ![w] = [Idle EXCEPT !.pc = "down"]]
    /\ UNCHANGED <<event, writes, asked, sent, doubted>>

Restart(w) ==
    /\ At(w, "down")
    /\ disp' = [disp EXCEPT ![w] = Idle]
    /\ UNCHANGED <<event, writes, asked, sent, doubted, trouble>>

Dec(n) == IF n = 0 THEN 0 ELSE n - 1

\* Time passing while a dispatcher holds events ages its leases: trouble.
Tick ==
    /\ trouble' = IF \E w \in Workers : disp[w].batch # <<>> THEN trouble + 1 ELSE trouble
    /\ trouble' <= Trouble
    /\ event' = [e \in Events |-> [event[e] EXCEPT !.wait = Dec(@), !.left = Dec(@)]]
    /\ UNCHANGED <<writes, asked, disp, sent, doubted>>

Dispatch(w) ==
    \/ RetryDue(w)
    \/ \E n \in 1..BatchSize : Claim(w, n)
    \/ \E outcome \in Outcomes : Publish(w, outcome)
    \/ PublishUnknown(w)
    \/ Mark(w)
    \/ MarkLost(w)
    \/ Restart(w)

Next ==
    \/ \E c \in Callers, e \in Events, p \in Payloads : AskCommit(c, e, p)
    \/ \E r \in asked : DoCommit(r)
    \/ \E w \in Workers : Dispatch(w) \/ Crash(w)
    \/ Tick

Spec == Init /\ [][Next]_vars

\* Dispatchers keep looping and are restarted, publishers answer, time passes.
Fairness ==
    /\ \A w \in Workers : WF_vars(Dispatch(w))
    /\ WF_vars(Tick)

LiveSpec == Spec /\ Fairness

-----------------------------------------------------------------------------
(* Properties *)

TypeOK ==
    /\ event \in [Events -> Rows]
    /\ writes \in [Events -> Nat]
    /\ asked \subseteq [caller : Callers, event : Events, payload : Payloads]
    /\ disp \in [Workers -> [pc : {"idle", "claim", "publish", "mark", "down"},
                             batch : Seq(Claims), answer : Answers]]
    /\ sent \in [Events -> SUBSET Nat]
    /\ doubted \subseteq Events
    /\ trouble \in Nat

\* An event marked published has reached the receiver in an attempt of its own,
\* also when the mark comes from a process that had lost the lease meanwhile.
PublishedSent == \A e \in Events : event[e].status = "published" => sent[e] # {}

\* No attempt of an event is in the hands of two dispatchers, or sent again by
\* the one that has it: an attempt is a permission to send once.
AttemptsUnique ==
    \A v, w \in Workers :
        \A i \in 1..Len(disp[v].batch), j \in 1..Len(disp[w].batch) :
            /\ disp[v].batch[i] = disp[w].batch[j] => v = w /\ i = j
            /\ (At(v, "publish") \/ i > 1)
                => disp[v].batch[i].attempt \notin sent[disp[v].batch[i].event]

\* An event that ended is not written again, and does not come back to life.
EndedFrozen ==
    [][\A e \in Events : event[e].status \in Ended => event'[e] = event[e]]_vars

\* No state change is committed without its event and no event without its
\* state change, and a duplicate writes again only for a caller that had passed
\* the check before the event existed.
WriteWithEvent ==
    \A e \in Events :
        IF event[e].status = "none" THEN writes[e] = 0
        ELSE writes[e] \in 1..Cardinality(Callers)

\* An event is handed out beyond max_attempts only to replace an attempt that
\* a crash, an unknown result or a slow dispatcher left unmarked: nothing but
\* mark_failed compares the count with the limit.
AttemptsBounded == \A e \in Events : event[e].attempt <= MaxAttempts + trouble

\* A publication whose result is unknown is not followed by a second request.
UnknownNotResent ==
    [][\A e \in doubted : sent'[e] = sent[e]]_vars

\* Every committed event is published or dead-lettered, once crashes, unknown
\* results and lost leases cease.
EventuallyEnded ==
    \A e \in Events : (event[e].status = "pending") ~> (event[e].status \in Ended)

PhaseOf(status) ==
    CASE status = "none" -> "none"
      [] status \in {"pending", "publishing", "failed"} -> "open"
      [] status = "published" -> "published"
      [] status = "dead_letter" -> "dead"

Contract == INSTANCE OutboxContract WITH
    phase <- [e \in Events |-> PhaseOf(event[e].status)],
    tries <- [e \in Events |-> event[e].attempt]

\* The outbox implements OutboxContract.
ContractHolds == Contract!Spec

=============================================================================

---------------------------- MODULE FakeDelivery ----------------------------
(***************************************************************************)
(* A publication through the fake adapter (modules/distribution/           *)
(* fake_workflow.py, fake.py, idempotency.py, retry.py, reconcile.py) and  *)
(* the desk for what failed (deadletter.py). publish() calls one locked    *)
(* service after the other and holds no lock of its own, so every call of  *)
(* a service is a step. The commands of the desk read the attempt before   *)
(* they take the lock and write under it, so each is two steps.            *)
(*                                                                         *)
(* Left out: media, schedules and metrics of drafts; payloads, audit and   *)
(* the consumption of the adapter's event; quotas of retry.py, which       *)
(* publish() never reserves; commands the desk refuses for an outdated     *)
(* expected_version, and what happens to the attempts that replays plan.   *)
(***************************************************************************)
EXTENDS Integers, FiniteSets

CONSTANTS
    Publications,   \* publication intents
    PublishKeys,    \* idempotency keys of publish()
    Publishers,     \* threads that publish
    DeskOperators,  \* threads that work at the desk
    MaxNo,          \* max_attempts
    DeskNumbers     \* bound: the numbers of the attempts operators are handed

ASSUME FakeDeliveryBounds == MaxNo \in Nat \ {0} /\ DeskNumbers \subseteq 1 .. MaxNo

VARIABLES
    cached,      \* _drafts of the workflow: the draft of an intent
    draft,       \* drafts of the adapter
    publishedBy, \* publish commands that the adapter has carried out
    accepted,    \* attempts of the idempotency service, by intent and number
    observed,    \* drafts with a published record in the reconciler
    publishing,  \* the publish() a thread is in
    desk,        \* attempts of the desk: status by intent and number
    review,      \* human tasks of the desk
    planned,     \* attempts with a replay plan
    atDesk       \* the command of the desk an operator is in

fakeVars == <<cached, draft, publishedBy, accepted, observed, publishing,
              desk, review, planned, atDesk>>

Numbers == 1 .. MaxNo
Attempts == Publications \X Numbers
DraftIds == Publications \X PublishKeys
NoDraft == [id |-> <<>>, version |-> 0]
NotPublishing == [at |-> "idle"]
AwayFromDesk == [at |-> "idle"]

FakeTypeOK ==
    /\ \A i \in Publications : cached[i] = NoDraft \/ cached[i].id \in DraftIds
    /\ draft \in [DraftIds -> {"none", "draft", "published"}]
    /\ \A a \in Attempts : accepted[a].result \in {"none", "failed", "succeeded"}
    /\ observed \subseteq DraftIds
    /\ desk \in [Attempts -> {"none", "unknown", "dead_letter", "succeeded", "failed"}]
    /\ review \in [Attempts \X {"unknown_result", "support_escalation"} -> {"none", "queued", "completed"}]
    /\ planned \subseteq Attempts

FakeInit ==
    /\ cached = [i \in Publications |-> NoDraft]
    /\ draft = [d \in DraftIds |-> "none"]
    /\ publishedBy = {}
    /\ accepted = [a \in Attempts |-> [result |-> "none"]]
    /\ observed = {}
    /\ publishing = [t \in Publishers |-> NotPublishing]
    /\ desk = [a \in Attempts |-> "none"]
    /\ review = [r \in Attempts \X {"unknown_result", "support_escalation"} |-> "none"]
    /\ planned = {}
    /\ atDesk = [o \in DeskOperators |-> AwayFromDesk]

deskState == <<desk, review, planned, atDesk>>

(* publish(): the intent is accepted, which is idempotent, and the draft   *)
(* looked up.                                                              *)
BeginPublish(t, i, k, no) ==
    /\ publishing[t] = NotPublishing
    /\ publishing' = [publishing EXCEPT ![t] =
         [at |-> IF cached[i] = NoDraft THEN "draft" ELSE "send",
          intent |-> i, key |-> k, no |-> no, draft |-> cached[i]]]
    /\ UNCHANGED <<cached, draft, publishedBy, accepted, observed, deskState>>

(* create_draft(): its key returns the draft it once made as it was made.  *)
MakeDraft(t) ==
    LET p == publishing[t]
        made == [id |-> <<p.intent, p.key>>, version |-> 1]
    IN  /\ p.at = "draft"
        /\ draft' = [draft EXCEPT ![made.id] = IF @ = "none" THEN "draft" ELSE @]
        /\ cached' = [cached EXCEPT ![p.intent] = made]
        /\ publishing' = [publishing EXCEPT ![t].at = "send", ![t].draft = made]
        /\ UNCHANGED <<publishedBy, accepted, observed, deskState>>

Command(p) == <<p.draft, p.key, p.no>>

(* FakeOfficialAdapter.publish() succeeds, or returns what the same        *)
(* command returned before; the attempt it reports has number 1.           *)
Publish(t) ==
    LET p == publishing[t] IN
    /\ p.at = "send"
    /\ \/ draft[p.draft.id] = "draft"
       \/ Command(p) \in publishedBy
    /\ draft' = [draft EXCEPT ![p.draft.id] = "published"]
    /\ publishedBy' = publishedBy \cup {Command(p)}
    /\ cached' = [cached EXCEPT ![p.intent] = [id |-> p.draft.id, version |-> 2]]
    /\ publishing' = [publishing EXCEPT ![t] =
         [at |-> "accept", attempt |-> <<p.intent, 1>>,
          value |-> [result |-> "succeeded", draft |-> p.draft.id]]]
    /\ UNCHANGED <<accepted, observed, deskState>>

(* It raises, and classify() judges the error: a transient one may be      *)
(* retried until the last attempt, which is dead-lettered; a version       *)
(* conflict, a published draft and a reused key are deterministic.         *)
PublishRaises(t, class) ==
    LET p == publishing[t] IN
    /\ p.at = "send"
    /\ draft[p.draft.id] = "published" => class = "deterministic"
    /\ publishing' = [publishing EXCEPT ![t] =
         [at |-> "accept", attempt |-> <<p.intent, p.no>>,
          value |-> [result |-> "failed", key |-> p.key,
                     retryable |-> class = "transient" /\ p.no < MaxNo,
                     exhausted |-> class = "transient" /\ p.no = MaxNo]]]
    /\ UNCHANGED <<cached, draft, publishedBy, accepted, observed, deskState>>

(* Mutant: a later attempt of the same number replaces the earlier one.    *)
AcceptableOver(a, value) == TRUE

(* accept_attempt(): one attempt per intent and number.                    *)
Acceptable(a, value) == accepted[a].result = "none" \/ accepted[a] = value

AfterAccept(value) ==
    CASE value.result = "succeeded" -> "observe"
      [] value.result = "failed" /\ value.exhausted -> "bury"
      [] OTHER -> "idle"

AcceptAttempt(t) ==
    LET p == publishing[t] IN
    /\ p.at = "accept"
    /\ Acceptable(p.attempt, p.value)
    /\ accepted' = [accepted EXCEPT ![p.attempt] = p.value]
    /\ publishing' = [publishing EXCEPT ![t] =
         IF AfterAccept(p.value) = "idle" THEN NotPublishing
         ELSE [p EXCEPT !.at = AfterAccept(p.value)]]
    /\ UNCHANGED <<cached, draft, publishedBy, observed, deskState>>

(* It refuses another payload, time stamps included, and publish() raises. *)
AcceptRefuses(t) ==
    /\ publishing[t].at = "accept"
    /\ accepted[publishing[t].attempt].result # "none"
    /\ publishing' = [publishing EXCEPT ![t] = NotPublishing]
    /\ UNCHANGED <<cached, draft, publishedBy, accepted, observed, deskState>>

(* PublicationReconciler.observe() of the published draft.                 *)
Observe(t) ==
    /\ publishing[t].at = "observe"
    /\ observed' = observed \cup {publishing[t].value.draft}
    /\ publishing' = [publishing EXCEPT ![t] = NotPublishing]
    /\ UNCHANGED <<cached, draft, publishedBy, accepted, deskState>>

Task(a, type) == IF review[<<a, type>>] = "none" THEN "queued" ELSE review[<<a, type>>]

BuryAllowed(was) == was \notin {"dead_letter", "succeeded"}

(* dead_letter(), of an attempt whose retries are used up.                 *)
Bury(a) ==
    /\ desk' = [desk EXCEPT ![a] = "dead_letter"]
    /\ review' = [review EXCEPT ![<<a, "support_escalation">>] = Task(a, "support_escalation")]

BuryLast(t) ==
    LET a == publishing[t].attempt IN
    /\ publishing[t].at = "bury"
    /\ IF BuryAllowed(desk[a]) THEN Bury(a) ELSE UNCHANGED <<desk, review>>
    /\ publishing' = [publishing EXCEPT ![t] = NotPublishing]
    /\ UNCHANGED <<cached, draft, publishedBy, accepted, observed, planned, atDesk>>

(* An operator is handed an accepted attempt and a command reads what the  *)
(* desk knows of it: only an unknown one is resolved, only an exhausted    *)
(* or final one is dead-lettered or planned for replay.                    *)
AskDesk(o, a, command) ==
    /\ atDesk[o] = AwayFromDesk
    /\ a[2] \in DeskNumbers
    /\ accepted[a].result = "failed"
    /\ CASE command \in {"succeeded", "failed"} -> desk[a] = "unknown"
         [] command = "dead_letter" -> desk[a] # "none" \/ ~accepted[a].retryable
         [] command = "replay" -> desk[a] # "succeeded"
         [] command = "unknown" -> TRUE
    /\ atDesk' = [atDesk EXCEPT ![o] = [at |-> command, attempt |-> a, was |-> desk[a]]]
    /\ UNCHANGED <<cached, draft, publishedBy, accepted, observed, publishing, desk, review, planned>>

MarkUnknown(c) ==
    /\ c.at = "unknown"
    /\ IF c.was \in {"none", "failed"}
       THEN /\ desk' = [desk EXCEPT ![c.attempt] = "unknown"]
            /\ review' = [review EXCEPT ![<<c.attempt, "unknown_result">>] = Task(c.attempt, "unknown_result")]
       ELSE UNCHANGED <<desk, review>>
    /\ UNCHANGED planned

DeadLetter(c) ==
    /\ c.at = "dead_letter"
    /\ IF BuryAllowed(c.was) THEN Bury(c.attempt) ELSE UNCHANGED <<desk, review>>
    /\ UNCHANGED planned

(* resolve_unknown(): the outcome is written whatever the attempt and its  *)
(* review have become since it was read.                                   *)
ResolveUnknown(c) ==
    /\ c.at \in {"succeeded", "failed"}
    /\ desk' = [desk EXCEPT ![c.attempt] = c.at]
    /\ review' = [review EXCEPT ![<<c.attempt, "unknown_result">>] = "completed"]
    /\ UNCHANGED planned

ReplayOne(c) ==
    /\ c.at = "replay"
    /\ planned' = planned \cup {c.attempt}
    /\ UNCHANGED <<desk, review>>

DeskWrites(o) ==
    /\ \/ MarkUnknown(atDesk[o]) \/ DeadLetter(atDesk[o])
       \/ ResolveUnknown(atDesk[o]) \/ ReplayOne(atDesk[o])
    /\ atDesk' = [atDesk EXCEPT ![o] = AwayFromDesk]
    /\ UNCHANGED <<cached, draft, publishedBy, accepted, observed, publishing>>

FakeNext ==
    \/ \E t \in Publishers :
         \/ \E i \in Publications, k \in PublishKeys, no \in Numbers : BeginPublish(t, i, k, no)
         \/ MakeDraft(t) \/ Publish(t) \/ AcceptAttempt(t) \/ AcceptRefuses(t) \/ Observe(t) \/ BuryLast(t)
         \/ \E class \in {"transient", "unknown", "deterministic"} : PublishRaises(t, class)
    \/ \E o \in DeskOperators :
         \/ DeskWrites(o)
         \/ \E a \in Attempts, c \in {"unknown", "dead_letter", "succeeded", "failed", "replay"} : AskDesk(o, a, c)

FakeSpec == FakeInit /\ [][FakeNext]_fakeVars

-----------------------------------------------------------------------------

(* Racing calls may fail and publish under one attempt number: only one of *)
(* the two verdicts is acted on, so an attempt that operators review is    *)
(* never one whose publication was observed, and what the desk awaits an   *)
(* operator for has a task to find it by.                                  *)
OneVerdict ==
    /\ \A a \in Attempts : desk[a] # "none" =>
         /\ accepted[a].result = "failed"
         /\ a[2] = 1 => \A d \in observed : d[1] # a[1]
    /\ \A a \in Attempts :
         /\ desk[a] = "unknown" => review[<<a, "unknown_result">>] # "none"
         /\ desk[a] = "dead_letter" => review[<<a, "support_escalation">>] # "none"
=============================================================================

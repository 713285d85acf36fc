---------------------------- MODULE Distribution ----------------------------
(***************************************************************************)
(* The creation and execution of publication intents                       *)
(* (modules/distribution/service.py, and the manual slice of vertical.py)  *)
(* between the approval desk and the kill switches. execute() is handed an *)
(* approval the caller was once shown, asks the kill switches before it    *)
(* takes its lock, and records an attempt under it.                        *)
(*                                                                         *)
(* Left out: targets and their versions, whose status execute() does not   *)
(* look at; the policy decision, which the caller supplies; payloads,      *)
(* hashes, events and audit entries.                                       *)
(***************************************************************************)
EXTENDS ApprovalDesk

CONSTANTS
    Intents,         \* intent keys
    IntentMode,      \* the delivery mode of each
    IntentApproval,  \* the approval each is bound to, or Unbound
    Unbound,
    Slices,          \* intents the manual vertical slice runs
    MaxAttempts      \* bound on the attempts of one intent

ASSUME DistributionBounds ==
    /\ IntentMode \in [Intents -> Modes]
    /\ IntentApproval \in [Intents -> Approvals \cup {Unbound}]
    /\ Slices \subseteq {i \in Intents : IntentMode[i] \in SafeModes}
    /\ MaxAttempts \in Nat \ {0}

VARIABLES
    intent,          \* status by intent key
    attempts,        \* attempts by intent, in the order of their numbers
    outcome,         \* export packages, publication records or queue entries
    result,          \* _commands of execute(): intent and attempt number by key
    call             \* the execution a caller is in

executionVars == <<intent, attempts, outcome, result, call>>
distributionVars == <<deskVars, switchVars, executionVars>>

NoCall == [at |-> "none"]
NoResult == [intent |-> Unbound, no |-> 0]

StatusAfter(m) == CASE m = "manual_export" -> "exported"
                    [] m = "simulation" -> "simulated"
                    [] OTHER -> "queued"

DeliveryTypeOK ==
    /\ DeskTypeOK
    /\ SwitchTypeOK
    /\ intent \in [Intents -> {"absent", "planned", "exported", "simulated", "queued"}]
    /\ \A i \in Intents : Len(attempts[i]) <= MaxAttempts
    /\ outcome \subseteq Intents
    /\ \A k \in Keys : result[k].no \in 0 .. MaxAttempts
    /\ \A c \in Callers : call[c] # NoCall => call[c].intent \in Intents /\ call[c].key \in Keys

ExecutionInit ==
    /\ intent = [i \in Intents |-> "absent"]
    /\ attempts = [i \in Intents |-> <<>>]
    /\ outcome = {}
    /\ result = [k \in Keys |-> NoResult]
    /\ call = [c \in Callers |-> NoCall]

(* An intent bound to an approval needs a copy of it that says approved.   *)
Shown(i) == IntentApproval[i] = Unbound \/ IntentApproval[i] \in granted

(* create_publication_intent(); an intent key in use is refused.           *)
CreateIntent(i) ==
    /\ intent[i] = "absent"
    /\ intent' = [intent EXCEPT ![i] = "planned"]
    /\ UNCHANGED <<attempts, outcome, result, call>>

(* ManualExportVerticalSliceService.run() up to its call of execute(); its *)
(* approval is required whether or not the intent names one.               *)
RunSlice(c, i, k) ==
    /\ call[c] = NoCall
    /\ i \in Slices
    /\ IntentApproval[i] \in granted
    /\ intent[i] = "absent"
    /\ intent' = [intent EXCEPT ![i] = "planned"]
    /\ call' = [call EXCEPT ![c] = [at |-> "slice", intent |-> i, key |-> k]]
    /\ UNCHANGED <<attempts, outcome, result>>

(* execute() up to the kill switches.                                      *)
Execute(c, i, k) ==
    /\ call[c] = NoCall \/ call[c] = [at |-> "slice", intent |-> i, key |-> k]
    /\ intent[i] # "absent"
    /\ Shown(i)
    /\ call' = [call EXCEPT ![c] = [at |-> "gate", intent |-> i, key |-> k]]
    /\ GuardEnter(c, k, IntentMode[i])
    /\ UNCHANGED <<intent, attempts, outcome, result>>

NewAttempt(c) ==
    [key |-> call[c].key, mode |-> IntentMode[call[c].intent],
     steady |-> watch[c]]

(* Mutant: the lock is entered without asking again whether the key has a  *)
(* result.                                                                 *)
RecordAgain(c) ==
    LET i == call[c].intent IN
    /\ Len(attempts[i]) < MaxAttempts
    /\ attempts' = [attempts EXCEPT ![i] = Append(@, NewAttempt(c))]
    /\ result' = [result EXCEPT ![call[c].key] = [intent |-> i, no |-> Len(attempts[i]) + 1]]
    /\ intent' = [intent EXCEPT ![i] = StatusAfter(IntentMode[i])]
    /\ outcome' = outcome \cup {i}

(* execute() under its lock; a key that has a result gets it back or is    *)
(* refused. The history of the guard is kept with the attempt.             *)
Record(c) ==
    LET i == call[c].intent
        k == call[c].key
    IN  IF result[k] # NoResult THEN UNCHANGED <<intent, attempts, outcome, result>>
        ELSE /\ Len(attempts[i]) < MaxAttempts
             /\ attempts' = [attempts EXCEPT ![i] = Append(@, NewAttempt(c))]
             /\ result' = [result EXCEPT ![k] = [intent |-> i, no |-> Len(attempts[i]) + 1]]
             /\ intent' = [intent EXCEPT ![i] = StatusAfter(IntentMode[i])]
             /\ outcome' = outcome \cup {i}

Return(c) ==
    /\ call' = [call EXCEPT ![c] = NoCall]
    /\ guard' = [guard EXCEPT ![c] = Idle]
    /\ watch' = [watch EXCEPT ![c] = {}]
    /\ UNCHANGED <<switch, setter, verdict>>

Commit(c) ==
    /\ guard[c].at = "allowed"
    /\ Record(c)
    /\ Return(c)

(* The guard refused, or the publisher of a simulation raised.             *)
Fail(c) ==
    /\ \/ guard[c].at = "refused"
       \/ guard[c].at = "allowed" /\ guard[c].mode = "simulation"
    /\ Return(c)
    /\ UNCHANGED <<intent, attempts, outcome, result>>

ExecutionNext ==
    \/ \E i \in Intents : CreateIntent(i) /\ UNCHANGED switchVars
    \/ \E c \in Callers, i \in Intents, k \in Keys :
         \/ RunSlice(c, i, k) /\ UNCHANGED switchVars
         \/ Execute(c, i, k)
    \/ \E c \in Callers : Commit(c) \/ Fail(c)

DistributionNext ==
    \/ DeskNext /\ UNCHANGED <<switchVars, executionVars>>
    \/ SwitchNext /\ UNCHANGED <<deskVars, executionVars>>
    \/ ExecutionNext /\ UNCHANGED deskVars

DistributionSpec ==
    DeskInit /\ SwitchInit /\ ExecutionInit /\ [][DistributionNext]_distributionVars

-----------------------------------------------------------------------------

(* An intent bound to an approval was executed only if the approval had    *)
(* its quorum of reviewers other than the requester, none of whom refused: *)
(* execute() believes a copy, so this rests on decide() never issuing an   *)
(* approved copy otherwise and never reopening a decided request.          *)
ReleaseBacked ==
    \A i \in Intents :
        (attempts[i] # <<>> /\ IntentApproval[i] # Unbound) =>
            LET r == approval[IntentApproval[i]] IN
            /\ r.status \in {"approved", "revoked"}
            /\ Cardinality(Reviewers(r) \ {r.requester}) >= r.quorum
            /\ \A d \in r.decisions : d.decision = "approved"

(* No attempt with a side effect is recorded by an execution whose guard   *)
(* ran while one scope stayed paused for its mode, whatever earlier        *)
(* decision of the guard its key has.                                      *)
SwitchHolds ==
    \A i \in Intents : \A n \in DOMAIN attempts[i] :
        attempts[i][n].mode \in SideEffects => attempts[i][n].steady = {}

(* What was released may be: the reviewers stand behind it and no switch   *)
(* stood against it.                                                       *)
ReleaseGuarded == ReleaseBacked /\ SwitchHolds

(* Every accepted key has one attempt of its own and every attempt belongs *)
(* to a key, and an intent has its outcome exactly if it was attempted:    *)
(* executions of one intent under several keys lose none and repeat none.  *)
AttemptsKept ==
    /\ \A k \in Keys : result[k] # NoResult =>
         LET r == result[k] IN
         r.no \in DOMAIN attempts[r.intent] /\ attempts[r.intent][r.no].key = k
    /\ \A i \in Intents : \A n \in DOMAIN attempts[i] :
         result[attempts[i][n].key] = [intent |-> i, no |-> n]
    /\ \A i \in Intents :
         /\ (i \in outcome) = (attempts[i] # <<>>)
         /\ (i \in outcome) = (intent[i] = StatusAfter(IntentMode[i]))
=============================================================================

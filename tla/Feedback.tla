------------------------------ MODULE Feedback ------------------------------
(***************************************************************************)
(* What follows from what was observed (modules/feedback): feedback items  *)
(* and the recommendations made from them, the actions carried out for     *)
(* them, experiments and their samples, and the windows of a platform      *)
(* ingested as four observations each.  A command checks its key last: the *)
(* action it is about has changed in place by then, and a reason that is   *)
(* no text is noticed when the item is stored.                             *)
(*                                                                         *)
(* Left out: tenants, account evidence, the text of items and snapshots,   *)
(* times, and replays of state commands, which always fail on the version. *)
(***************************************************************************)
EXTENDS Naturals, Sequences, SequencesExt

CONSTANTS
    Items, Actions, FeedbackKeys,
    Targets4Feedback, \* what a recommendation may be about
    Requests4Window,  \* contents a platform gives for the window
    FactOf,           \* request -> its value for each of the four metrics
    MaxSamples        \* bound: samples of the experiment

ASSUME FeedbackBounds ==
    /\ MaxSamples \in Nat
    /\ \A r \in Requests4Window : \A n \in 1 .. 4 : FactOf[r][n] # "-"

VARIABLES
    item,      \* item -> its versions, [status, approver]
    itemTold,  \* item -> statuses its events tell
    recommended, \* recommendations, <<item, target>>
    action,    \* action -> [status, version, approver]
    actionTold,\* action -> statuses its events tell
    slipped,   \* actions a refused command changed
    keyUsed,   \* keys of item, action and experiment commands
    experiment,\* [status, version, counted]
    samples,   \* samples of the experiment
    factRow,   \* metric -> what was observed of the window
    windowOf   \* key -> the request answered under it

feedbackVars == <<item, itemTold, recommended, action, actionTold, slipped, keyUsed, experiment, samples, factRow, windowOf>>
itemVars == <<item, itemTold, recommended>>
actionVars == <<action, actionTold, slipped>>
trialVars == <<experiment, samples>>
liveVars == <<factRow, windowOf>>

Facts4 == <<"attribution", "interactions", "platform_cost", "lead_quality">>
NoAction == [status |-> "none", version |-> 0, approver |-> FALSE]
NoFact == "-"

FeedbackInit ==
    /\ item = [i \in Items |-> <<>>] /\ itemTold = [i \in Items |-> <<>>] /\ recommended = {}
    /\ action = [a \in Actions |-> NoAction] /\ actionTold = [a \in Actions |-> <<>>] /\ slipped = {}
    /\ keyUsed = {}
    /\ experiment = [status |-> "none", version |-> 0, counted |-> 0] /\ samples = 0
    /\ factRow = [m \in Range(Facts4) |-> NoFact] /\ windowOf = [k \in FeedbackKeys |-> NoFact]

(* create_feedback_item(): under another key the item must still be as it  *)
(* was made, and is made again, with the event it has (an event is named   *)
(* by the item and its version).                                           *)
Proposed == [status |-> "proposed", approver |-> FALSE]
CreateItem(i, k) ==
    /\ k \notin keyUsed /\ (item[i] # <<>> => Last(item[i]) = Proposed)
    /\ item' = [item EXCEPT ![i] = <<Proposed>>]
    /\ itemTold' = [itemTold EXCEPT ![i] = <<"proposed">>]
    /\ keyUsed' = keyUsed \cup {k}
    /\ UNCHANGED <<recommended, actionVars, trialVars, liveVars>>

ItemSteps ==
    {<<"proposed", "approved">>, <<"proposed", "rejected">>, <<"proposed", "expired">>,
     <<"approved", "executed">>, <<"approved", "expired">>}

(* The event is refused for its reason when the item has been stored.      *)
TransitionItem(i, to, v, k, sound) ==
    LET row == [status |-> to, approver |-> Last(item[i]).approver \/ to = "approved"] IN
    /\ item[i] # <<>> /\ v = Len(item[i]) /\ k \notin keyUsed
    /\ <<Last(item[i]).status, to>> \in ItemSteps
    /\ item' = [item EXCEPT ![i] = Append(@, row)]
    /\ itemTold' = IF sound THEN [itemTold EXCEPT ![i] = Append(@, to)] ELSE itemTold
    /\ keyUsed' = keyUsed \cup {k}
    /\ UNCHANGED <<recommended, actionVars, trialVars, liveVars>>

(* recommend() takes any version of the item the caller has read.          *)
Actionable(row) == row.status \in {"proposed", "approved"}
Recommend(i, t, v) ==
    /\ v \in DOMAIN item[i] /\ Actionable(item[i][v])
    /\ recommended' = recommended \cup {<<i, t>>}
    /\ UNCHANGED <<item, itemTold, actionVars, keyUsed, trialVars, liveVars>>

CreateAction(a, k) ==
    /\ action[a] = NoAction /\ k \notin keyUsed
    /\ action' = [action EXCEPT ![a] = [status |-> "proposed", version |-> 1, approver |-> FALSE]]
    /\ actionTold' = [actionTold EXCEPT ![a] = <<"proposed">>]
    /\ keyUsed' = keyUsed \cup {k}
    /\ UNCHANGED <<slipped, itemVars, trialVars, liveVars>>

ActionSteps ==
    {<<"proposed", "approved">>, <<"proposed", "cancelled">>, <<"approved", "executing">>, <<"approved", "cancelled">>,
     <<"executing", "executed">>, <<"executing", "failed">>, <<"executing", "cancelled">>, <<"failed", "executing">>}

Moved(a, to) == [action[a] EXCEPT !.status = to, !.approver = @ \/ to = "approved"]

(* transition_action() works on the stored action.  A snapshot that is     *)
(* refused leaves the approval behind, a used key the whole change.        *)
TransitionAction(a, to, v, k, safe) ==
    /\ action[a] # NoAction /\ v = action[a].version /\ <<action[a].status, to>> \in ActionSteps
    /\ \/ /\ ~safe
          /\ action' = [action EXCEPT ![a].approver = Moved(a, to).approver]
          /\ UNCHANGED <<actionTold, slipped, keyUsed>>
       \/ /\ safe /\ k \in keyUsed
          /\ action' = [action EXCEPT ![a] = Moved(a, to)] /\ slipped' = slipped \cup {a}
          /\ UNCHANGED <<actionTold, keyUsed>>
       \/ /\ safe /\ k \notin keyUsed
          /\ action' = [action EXCEPT ![a] = [Moved(a, to) EXCEPT !.version = v + 1]]
          /\ actionTold' = [actionTold EXCEPT ![a] = Append(@, to)]
          /\ keyUsed' = keyUsed \cup {k} /\ slipped' = slipped \ {a}
    /\ UNCHANGED <<itemVars, trialVars, liveVars>>

CreateExperiment(k) ==
    /\ experiment.status = "none" /\ k \notin keyUsed
    /\ experiment' = [experiment EXCEPT !.status = "planned", !.version = 1]
    /\ keyUsed' = keyUsed \cup {k}
    /\ UNCHANGED <<samples, itemVars, actionVars, liveVars>>

TrialSteps ==
    {<<"planned", "running">>, <<"planned", "rolled_back">>, <<"running", "concluded">>,
     <<"running", "rolled_back">>, <<"concluded", "rolled_back">>}

(* The event of a step tells how many samples there are.                   *)
MoveExperiment(to, v, k) ==
    /\ v = experiment.version /\ k \notin keyUsed /\ <<experiment.status, to>> \in TrialSteps
    /\ experiment' = [status |-> to, version |-> v + 1, counted |-> samples]
    /\ keyUsed' = keyUsed \cup {k}
    /\ UNCHANGED <<samples, itemVars, actionVars, liveVars>>

Taking == experiment.status = "running"

RecordSample(k) ==
    /\ Taking /\ k \notin keyUsed /\ samples < MaxSamples
    /\ samples' = samples + 1
    /\ keyUsed' = keyUsed \cup {k}
    /\ UNCHANGED <<experiment, itemVars, actionVars, liveVars>>

(* record_observation() of a metric of the window: there is no row, or it  *)
(* says the same.                                                          *)
Fits4(r, n) == factRow[Facts4[n]] \in {NoFact, FactOf[r][n]}

(* ingest_platform_window() records one metric after the other and stops   *)
(* at the first that is refused, or fails after any number of them; the    *)
(* window is answered when it has all four.                                *)
IngestWindow(r, k, n) ==
    /\ windowOf[k] = NoFact /\ n \in 1 .. 4 /\ \A p \in 1 .. n : Fits4(r, p)
    /\ factRow' = [m \in Range(Facts4) |-> LET p == CHOOSE q \in 1 .. 4 : Facts4[q] = m
                                           IN IF p <= n THEN FactOf[r][p] ELSE factRow[m]]
    /\ windowOf' = IF n = 4 THEN [windowOf EXCEPT ![k] = r] ELSE windowOf
    /\ UNCHANGED <<itemVars, actionVars, keyUsed, trialVars>>

ItemNext ==
    \E i \in Items, k \in FeedbackKeys :
        \/ CreateItem(i, k)
        \/ \E s \in ItemSteps, v \in 1 .. 3, sound \in BOOLEAN : TransitionItem(i, s[2], v, k, sound)
        \/ \E t \in Targets4Feedback, v \in 1 .. 3 : Recommend(i, t, v)

ActionNext ==
    \E a \in Actions, k \in FeedbackKeys :
        \/ CreateAction(a, k)
        \/ \E s \in ActionSteps, safe \in BOOLEAN : TransitionAction(a, s[2], action[a].version, k, safe)

TrialNext ==
    \E k \in FeedbackKeys :
        \/ CreateExperiment(k) \/ RecordSample(k)
        \/ \E s \in TrialSteps : MoveExperiment(s[2], experiment.version, k)

LiveNext == \E r \in Requests4Window, k \in FeedbackKeys, n \in 1 .. 4 : IngestWindow(r, k, n)

-----------------------------------------------------------------------------
ActionStates == {s[1] : s \in ActionSteps} \cup {s[2] : s \in ActionSteps}
FactsKnown == UNION {Range(FactOf[r]) : r \in Requests4Window}

FeedbackTypeOK ==
    /\ \A i \in Items : \A row \in Range(item[i]) : row.approver \in BOOLEAN
    /\ recommended \subseteq Items \X Targets4Feedback
    /\ \A a \in Actions : action[a].version \in Nat /\ Range(actionTold[a]) \subseteq ActionStates
    /\ slipped \subseteq Actions /\ keyUsed \subseteq FeedbackKeys
    /\ samples \in 0 .. MaxSamples /\ experiment.version \in Nat
    /\ \A m \in Range(Facts4) : factRow[m] \in {NoFact} \cup FactsKnown

(* Nothing is carried out that was not approved: an item, by its history;  *)
(* an action, whatever commands were refused on the way.                   *)
ApprovedFirst ==
    /\ \A i \in Items : \A v \in DOMAIN item[i] : item[i][v].status = "executed" =>
        item[i][v].approver /\ \E u \in 1 .. v - 1 : item[i][u].status = "approved"
    /\ \A a \in Actions : action[a].status \in {"executing", "executed", "failed"} => action[a].approver

(* The events of an action number its versions, and the last one tells its *)
(* status unless a refused command has changed it since; those of an item  *)
(* tell its history but for the steps whose event was refused.             *)
AsTold ==
    /\ \A a \in Actions : action[a] # NoAction =>
        Len(actionTold[a]) = action[a].version /\ (a \notin slipped => Last(actionTold[a]) = action[a].status)
    /\ \A i \in Items : Len(itemTold[i]) <= Len(item[i])
    /\ \A i \in Items, n \in 1 .. 3 : n \in DOMAIN itemTold[i] =>
        \E v \in n .. Len(item[i]) : item[i][v].status = itemTold[i][n]

(* What an experiment concludes from is not added to.                      *)
SamplesFrozen ==
    experiment.status = "concluded" => experiment.counted = samples

(* A window that was answered is stored as it was answered, all four       *)
(* metrics of it, though ingestions of it failed on the way or others      *)
(* asked for another content.                                              *)
WindowWhole ==
    \A k \in FeedbackKeys : windowOf[k] # NoFact => \A n \in 1 .. 4 : factRow[Facts4[n]] = FactOf[windowOf[k]][n]
=============================================================================

----------------------------- MODULE ServicesMC -----------------------------
(***************************************************************************)
(* TLC instances of the in-memory services that share no state with each   *)
(* other: chosen is the one whose commands are called in a behaviour, so   *)
(* that one run goes through the states of each and not through their      *)
(* product. Distribution is the approval desk, the kill switches and the   *)
(* execution of intents together.                                          *)
(***************************************************************************)
EXTENDS Scheduler, ModelBudget, FakeDelivery, TokenLeases, Deletion, Distribution,
        WorkflowRuns, Accounts, Metrics, Feedback, Operations, PolicyGate,
        Evaluations, Handover, Recovery, TLC

CONSTANT Services \* the services the run goes through

VARIABLE chosen

memoryVars == <<schedVars, budgetVars, fakeVars, authVars, deletionVars>>
flowVars == <<workflowVars, dispatchVars>>
accessVars == <<accountVars, targetVars>>
governVars == <<metricVars, feedbackVars, consoleVars>>
servedVars == <<memoryVars, distributionVars, flowVars, accessVars, governVars>>
decideVars == <<gateVars, evalVars, handVars>>
recoverVars == <<planVars, recoveryVars>>
allVars == <<chosen, servedVars, decideVars, recoverVars>>

(* What an observation says.                                               *)
Said(d, what, unsure) == [day |-> d, outcome |-> what, raw |-> unsure]

(* An approval that was granted, as the executions of a piece find it.     *)
Granted == [status |-> "approved", requester |-> "p1", quorum |-> 2, expires |-> 1, override |-> 1,
            decisions |-> [reviewer : {"p2", "p3"}, decision : {"approved"}]]

(* An evaluation's bodies: what a template needs, what a case has, and     *)
(* what is allowed.                                                        *)
Allows4(exact, errors, drop, rise, total, each) ==
    [exact |-> exact, errors |-> errors, drop |-> drop, rise |-> rise, total |-> total, each |-> each]
MCRegistered ==
    "prompt" :> <<[needs |-> {"v"}], [needs |-> {}]>> @@ "golden_set" :> <<<<{"v"}, {}>>, <<{"v"}>>>>
    @@ "threshold" :> <<Allows4(50, 50, 0, 50, 2, 2)>>
ASSUME MCVersions ==
    DOMAIN MCRegistered = VersionKinds /\ \A kind \in VersionKinds : MCRegistered[kind] \in Seq(BodiesOf[kind])

(* What is observed first when snapshots are made.                         *)
FirstRow == [metric |-> 1, version |-> 1, found |-> TRUE, body |-> Said(0, "for", FALSE)]

(* The measure, the recorders and the keys the run goes through.           *)
ASSUME ServicesBounds ==
    /\ {"w1", "w2"} \subseteq Recorders /\ {"k1", "k2"} \subseteq ReportKeys
    /\ "m1" \in Measures /\ "published" \in MetricNames /\ Said(0, "for", FALSE) \in Bodies

Init ==
    /\ chosen \in Services
    /\ SchedInit /\ BudgetInit /\ FakeInit /\ AuthInit /\ DeletionInit
    /\ SwitchInit /\ ExecutionInit /\ WorkflowInit /\ DispatchInit
    /\ AccountInit /\ TargetInit
    /\ MetricInit(IF chosen = "reports" THEN <<FirstRow>> ELSE <<>>)
    /\ FeedbackInit
    /\ OperationInit /\ SessionInit /\ GateInit
    /\ EvalInit(IF chosen = "evaluations" THEN MCRegistered ELSE [k \in VersionKinds |-> <<>>])
    /\ HandInit /\ PlanInit /\ RecoveryInit
    /\ optIn # {} => chosen = "session" /\ optIn = {"publish", "reply"}
    /\ IF chosen = "execution"
       THEN today = 0 /\ approval = [a \in Approvals |-> Granted] /\ granted = Approvals
       ELSE DeskInit

(* The desk with one caller and one key, while no switch is set; and the   *)
(* executions of two callers under two keys, once the approval is granted, *)
(* of which the second is busy with one intent.                            *)
ApprovalNext ==
    /\ UNCHANGED <<switch, setter>>
    /\ DistributionNext
    /\ \A c \in Callers : call'[c] # NoCall => c = "c1" /\ call'[c].key = "k1"

ExecutionsNext ==
    /\ UNCHANGED deskVars /\ DistributionNext
    /\ call'["c2"] # NoCall => call'["c2"].intent = "i1"

(* The versions of one metric and what is first observed under it, by one  *)
(* recorder that looks them up and one that supplies one; and the          *)
(* snapshots of observations, one of which is of no use to each report,    *)
(* with revisions under the definition there is or a caller's own.         *)
Supplied(d) == d # NoRead /\ ~d.found
MetricsNext ==
    /\ CatalogNext("published") \/ RecordNext("w1", "m1", {"k1"}) \/ RecordNext("w2", "m1", {"k2"})
    /\ Len(observations'["m1"]) <= 1
    /\ ~Supplied(reading'["w1"]) /\ (Supplied(reading'["w2"]) => reading'["w2"].version = 1)
ReportsNext ==
    /\ ReportNext({{"m1"}, Measures}) \/ RecordNext("w1", "m1", {"k1"})
    /\ Supplied(reading'["w1"]) => reading'["w1"].metric = 1 /\ reading'["w1"].version = 2
    /\ \A kind \in {"kpi", "geo"} : reportOf'[<<kind, "k2">>] # NoDigest => reportOf'[<<kind, "k1">>] # NoDigest

(* A deletion that one thread propagates from its first version on while   *)
(* the other does anything.                                                *)
ErasureNext ==
    /\ DeletionNext
    /\ (delCall["t2"] = NotCalling /\ delCall'["t2"] # NotCalling) => delCall'["t2"] = [at |-> "propagate", next |-> 1, expected |-> 0]

(* Publications by two threads, of which one stands still while the desk   *)
(* is at work, and the second, who alone goes on to another attempt, never *)
(* begins alone.                                                           *)
PublishingNext ==
    /\ FakeNext
    /\ atDesk'["o1"] # AwayFromDesk => \E t \in Publishers : publishing'[t] = NotPublishing
    /\ (\A t \in Publishers : publishing[t] = NotPublishing) => publishing'["t2"] = NotPublishing
    /\ publishing["t1"] = NotPublishing /\ publishing'["t1"] # NotPublishing => publishing'["t1"].no = 1

(* Codes that are issued, and events that are appended, in their order;    *)
(* the second thread takes callbacks only.                                 *)
SessionsNext ==
    /\ AuthNext
    /\ authCall'["t2"].at \in {"idle", "callback"}
    /\ issuedCode'["c2"].status # "unissued" => issuedCode["c1"].status # "unissued"

EventsNext ==
    /\ DispatchNext
    /\ \A e \in OutEvents : out'[e].status # "none" => \A f \in OutEvents : f < e => out'[f].status # "none"
    /\ out'[3].status # "none" => out[1].status \in {"published", "failed", "dead_letter"}

(* Launches of one account by rules that are put once, runners in order,   *)
(* the second for the first launch, the third launch through the queue;    *)
(* the rules with two requests they decide; and two pilot runs, of which   *)
(* one is only created.                                                    *)
BrowserNext ==
    /\ \/ SessionNext
       \/ /\ policy = Unread /\ UNCHANGED sessionVars
          /\ ReplacePolicy(Rules4(FALSE, TRUE, TRUE, 1, 2))
    /\ editor' # Typed /\ request'["j3"] # "spawn"
    /\ runner'["r2"].first \in {"j1", NoLaunch}
    /\ (runner["r1"] = Idle4 /\ runner["r2"] = Idle4) => runner'["r2"] = Idle4

RulesNext ==
    \/ \E j \in Launches \ {"j2"} : LetThrough(j)
    \/ /\ UNCHANGED sessionVars
       /\ \/ ReadPolicy \/ NextRuleDay \/ RestartOperations
          \/ \E p \in Policies : ReplacePolicy(p)
          \/ \E paused \in BOOLEAN : UpdateStop(paused)
          \/ \E d \in {0, Undated} : PutConsole([posted EXCEPT ![d] = 1 - @])

PlansNext ==
    /\ UNCHANGED sessionVars /\ PilotNext
    /\ pilot'["p2"] \in {NoPilot, [NoPilot EXCEPT !.status = "planned"]}

(* The check of a snapshot follows the gate and looks at the same moment.  *)
AsksNext ==
    /\ GateNext
    /\ \A k \in GateKeys : looked'[k] # NotAsked =>
          /\ judged'[k] # NotAsked
          /\ looked'[k].snapshot = judged'[k].snapshot /\ looked'[k].now = judged'[k].now

(* Runs of versions that are registered, under keys in their order; of the *)
(* second golden set only one that is compared.                            *)
TestsNext ==
    /\ RunNext
    /\ evaluating'.key = "k2" => evalRuns # <<>>
    /\ evaluating'.key # "none" => evaluating'.request.golden = 1 \/ evaluating'.request.baseline # 0

(* Packages, deliveries and matrices, under keys in their order; a package *)
(* is fetched by the second thread beside the first.                       *)
HandoverNext ==
    /\ \/ chosen = "packages" /\ PackageNext
       \/ chosen = "webhooks" /\ WebhookNext
       \/ chosen = "matrices" /\ MatrixNext
    /\ fetching["f1"] = Fetched => fetching'["f2"] = Fetched \/ fetching["f2"] # Fetched
    /\ \A k \in HandKeys \ {1} : handKey'[k] # NoCommand => handKey[k - 1] # NoCommand

(* A job whose status is changed by the first of two workers.              *)
WorkersNext == SchedNext /\ schedCall'["w2"].at \notin {"pause", "resume", "retire"}

(* Calls that begin once there is a policy, which is followed by another   *)
(* the first day while a call is under way; the third call is never first. *)
CallsNext ==
    /\ BudgetNext
    /\ budgetDay' # 0 => policies' = policies
    /\ policies' # policies => policies = <<>> \/ reserved # {}
    /\ callRecord["k1"] = NotCalled /\ reserved = {} => callRecord'["k3"] = NotCalled /\ \A b \in reserved' : b.key # "k3"
    /\ policies = <<>> => callRecord' = callRecord \/ callRecord'["k2"].status = "budget_exceeded"

ServedNext ==
    /\ UNCHANGED decideVars
    /\ \/ /\ chosen = "scheduler" /\ WorkersNext
          /\ UNCHANGED <<budgetVars, fakeVars, authVars, deletionVars, distributionVars, flowVars, accessVars, governVars>>
       \/ /\ chosen = "budget" /\ CallsNext
          /\ UNCHANGED <<schedVars, fakeVars, authVars, deletionVars, distributionVars, flowVars, accessVars, governVars>>
       \/ /\ chosen = "fake" /\ PublishingNext
          /\ UNCHANGED <<schedVars, budgetVars, authVars, deletionVars, distributionVars, flowVars, accessVars, governVars>>
       \/ /\ chosen = "tokens" /\ SessionsNext
          /\ UNCHANGED <<schedVars, budgetVars, fakeVars, deletionVars, distributionVars, flowVars, accessVars, governVars>>
       \/ /\ chosen = "deletion" /\ ErasureNext
          /\ UNCHANGED <<schedVars, budgetVars, fakeVars, authVars, distributionVars, flowVars, accessVars, governVars>>
       \/ /\ \/ chosen = "approval" /\ ApprovalNext
             \/ chosen = "execution" /\ ExecutionsNext
          /\ UNCHANGED <<schedVars, budgetVars, fakeVars, authVars, deletionVars, flowVars, accessVars, governVars>>
       \/ /\ chosen = "workflow" /\ WorkflowNext
          /\ UNCHANGED <<memoryVars, distributionVars, dispatchVars, accessVars, governVars>>
       \/ /\ chosen = "dispatch" /\ EventsNext
          /\ UNCHANGED <<memoryVars, distributionVars, workflowVars, accessVars, governVars>>
       \/ /\ chosen = "accounts" /\ AccountNext
          /\ UNCHANGED <<memoryVars, distributionVars, flowVars, targetVars, governVars>>
       \/ /\ chosen = "targets" /\ TargetNext
          /\ UNCHANGED <<memoryVars, distributionVars, flowVars, accountVars, governVars>>
       \/ /\ \/ chosen = "metrics" /\ MetricsNext
             \/ chosen = "reports" /\ ReportsNext
          /\ UNCHANGED <<memoryVars, distributionVars, flowVars, accessVars, feedbackVars, consoleVars>>
       \/ /\ \/ chosen = "items" /\ ItemNext
             \/ chosen = "actions" /\ ActionNext
             \/ chosen = "trials" /\ TrialNext
             \/ chosen = "windows" /\ LiveNext
          /\ UNCHANGED <<memoryVars, distributionVars, flowVars, accessVars, metricVars, consoleVars>>
       \/ /\ \/ chosen = "session" /\ BrowserNext
             \/ chosen = "rules" /\ RulesNext
             \/ chosen = "pilots" /\ PlansNext
          /\ UNCHANGED <<memoryVars, distributionVars, flowVars, accessVars, metricVars, feedbackVars>>

DecideNext ==
    /\ UNCHANGED servedVars
    /\ \/ chosen = "gate" /\ AsksNext /\ UNCHANGED <<evalVars, handVars>>
       \/ /\ \/ chosen = "registry" /\ RegisterNext
             \/ chosen = "evaluations" /\ TestsNext
          /\ UNCHANGED <<gateVars, handVars>>
       \/ HandoverNext /\ UNCHANGED <<gateVars, evalVars>>

(* Plans of which the second key is for the first thread while the other   *)
(* is idle, and a restart that finds one under way; and drills with a key  *)
(* or two for each kind of command, on a source that is at rest once it is *)
(* backed up, which the first driller does; the second restores over it.   *)
RegionPlansNext ==
    /\ PlanNext
    /\ planCall'["t2"] # NotPlanning => planCall'["t2"].key = "k1" /\ planCall'["t1"] # NotPlanning
    /\ planCall'["t1"] # NotPlanning /\ planCall'["t1"].key = "k2" =>
          planCall'["t2"] = NotPlanning /\ ~planCall'["t1"].plan.ask.held
    /\ planCommand' # planCommand => \E t \in DeletionThreads : planCall[t] # NotPlanning

DrillsNext ==
    /\ RecoveryNext
    /\ drill'["d2"].at \notin {"objects", "create", "files"}
    /\ \A t \in Drillers : LET c == drill'[t] IN
          /\ c.at = "objects" => c.key = "k1"
          /\ c.at = "put" => IF t = "d1" THEN c.key = "k2" ELSE c.key = "k3" /\ c.request.met
          /\ c.at = "release" => c.key \in {"k3", "k4"}
    /\ backups # <<>> => source' = source

RecoverNext ==
    /\ UNCHANGED <<servedVars, decideVars>>
    /\ \/ chosen = "plans" /\ RegionPlansNext /\ UNCHANGED recoveryVars
       \/ chosen = "drills" /\ DrillsNext /\ UNCHANGED planVars

Next ==
    /\ UNCHANGED chosen
    /\ \/ (ServedNext \/ DecideNext) /\ UNCHANGED recoverVars
       \/ RecoverNext

Spec == Init /\ [][Next]_allVars

ServicesTypeOK ==
    /\ SchedTypeOK /\ BudgetTypeOK /\ FakeTypeOK /\ AuthTypeOK /\ DeletionTypeOK /\ DeliveryTypeOK
    /\ WorkflowTypeOK /\ DispatchTypeOK /\ AccountTypeOK /\ TargetTypeOK
    /\ MetricTypeOK /\ FeedbackTypeOK /\ PolicyTypeOK /\ SessionTypeOK /\ EvalTypeOK
    /\ HandTypeOK /\ RecoveryTypeOK

(* What a delivery is let through by: decisions of the gate, leases of     *)
(* tokens, connections backed by evidence, versions of targets in the      *)
(* order they were made; what is clicked in the browser of an account,     *)
(* once and as the rules let it; and what is fetched or comes in by hand.  *)
AccessKept ==
    /\ DenialStands /\ BetterHelps /\ OneLifecycle
    /\ TokensServed /\ ConnectedBacked /\ BoundBacked /\ NumbersFollow /\ LifecycleKept
    /\ ClickedOnce /\ ClickTold
    /\ StaysShut /\ HandledOnce /\ MappedWhole

(* What is reported rests on definitions in force, and counts each thing   *)
(* once; and what follows from it was approved, and is as it was told.     *)
ReportsKept ==
    /\ MetricServed /\ OneMeaning /\ CountedOnce
    /\ ApprovedFirst /\ AsTold /\ SamplesFrozen /\ WindowWhole

(* Work has one taker: the lease of a scheduled job, the events and jobs   *)
(* of workflows, the commands for an open browser; and what a run is told  *)
(* to be, it is.                                                           *)
WorkHeld == OneHolder /\ RunsTold /\ TakenOnce /\ QueuedHeld /\ DraftKept

(* What is on record is so: of a deletion and its plans, of a recovery     *)
(* drill, of a pilot run, of a prompt that was evaluated.                  *)
RecordsKept ==
    /\ DeletionTold /\ PlansBacked /\ DrillTold
    /\ PilotAnswered /\ PilotAssigned /\ GateSound /\ AskedWithin /\ VersionsTold

MCBodiesOf ==
    "prompt" :> {[needs |-> {"v"}], [needs |-> {}]} @@ "golden_set" :> {<<{"v"}, {}>>, <<{"v"}>>}
    @@ "threshold" :> {Allows4(50, 50, 0, 50, 2, 2)}
MCAnswers ==
    {[says |-> "right", cost |-> 1], [says |-> "right", cost |-> 2], [says |-> "wrong", cost |-> 1],
     [says |-> "malformed", cost |-> 1], [says |-> "raises", cost |-> 0]}

MCExports == {[intent |-> "i1", body |-> b, generated |-> 0, expires |-> 2] : b \in {"b1"}}
Delivered(event, body, signed, fits) == [event |-> event, body |-> body, signed |-> signed, fits |-> fits]
MCDeliveries ==
    {Delivered("e1", "b1", TRUE, TRUE), Delivered("e1", "b2", TRUE, FALSE), Delivered("e2", "b1", FALSE, TRUE),
     Delivered("e2", "b1", TRUE, TRUE)}
MCMappings ==
    {[version |-> v, fields |-> f] : v \in {1, 2}, f \in {"title" :> "t" @@ "body" :> "b", "title" :> "b" @@ "body" :> "t",
                                                           "title" :> "t" @@ "body" :> "t"}}
MCPayloads == [{"title", "body"} -> {"x", "y"}] \cup [{"title"} -> {"x", "y"}]

MCFactValues ==
    [risks |-> {{"R1"}, {}, {"R2"}, {"R1", "R3"}, {"R1", "unknown"}}, qa |-> {"passed", "failed", "unknown"},
     rights |-> {"yes", "no", "unknown"}, region |-> {"allow", "deny", "unknown"},
     data |-> {"yes", "no", "unknown"}, model |-> {"yes", "no", "unknown"},
     account |-> {"healthy", "revoked", "not_required", "unknown"},
     approval |-> {"ok", "short", "denied", "denied_short"}, outside |-> {"known", "unknown"},
     release |-> {[level |-> l, mode |-> o] : l \in {"architecture_mvp", "scale", "other"},
                                              o \in {"manual_export", "authorized_api"}}]
MCGoodFacts ==
    [risks |-> {"R1"}, qa |-> "passed", rights |-> "yes", region |-> "allow", data |-> "yes", model |-> "yes",
     account |-> "healthy", approval |-> "ok", outside |-> "known",
     release |-> [level |-> "architecture_mvp", mode |-> "manual_export"]]
MCSnapshots == {[status |-> "active", from |-> 1, review |-> 2, expires |-> 3],
                [status |-> "active", from |-> 0, review |-> 1, expires |-> 0],
                [status |-> "revoked", from |-> 0, review |-> 0, expires |-> 0]}
MCNameOf == "m1" :> "published" @@ "m2" :> "cost" @@ "m3" :> "mentioned"
MCBodies == {Said(0, "for", FALSE), Said(1, "against", FALSE), Said(0, "unknown", TRUE)}
MCWindows == {[from |-> 0, to |-> 1], [from |-> 0, to |-> 2]}
MCFactOf == "x" :> <<"u", "v", "u", "v">> @@ "y" :> <<"u", "w", "u", "w">>
Order4(what, auto, send) == [target |-> what, auto |-> auto, send |-> send, stay |-> FALSE]
MCOrderOf == "j1" :> Order4("publish", TRUE, FALSE) @@ "j2" :> Order4("inbox", FALSE, TRUE) @@ "j3" :> Order4("publish", FALSE, FALSE)
MCPolicies == {Rules4(FALSE, TRUE, TRUE, 1, 2), Rules4(TRUE, TRUE, FALSE, 1, 2), Rules4(FALSE, FALSE, FALSE, 3, 2)}
Item4(i, a) == [id |-> i, account |-> a]
MCItemLists == {<<>>, <<Item4(1, "x")>>, <<Item4(1, "x"), Item4(1, "x")>>, <<Item4(2, "y")>>}

MCSchedules == {[kind |-> "once", every |-> 1], [kind |-> "interval", every |-> 1],
                [kind |-> "cron", every |-> 2]}

Asks(task, model, cents) == [task |-> task, model |-> model, cents |-> cents]
MCRequestOf == "k1" :> Asks("t1", "m1", 2) @@ "k2" :> Asks("t1", "m2", 1) @@ "k3" :> Asks("t2", "m1", 2)
MCGatewayOf == "k1" :> "g1" @@ "k2" :> "g2" @@ "k3" :> "g2"

Limit(scope, period, key, cents) == [scope |-> scope, period |-> period, key |-> key, cents |-> cents]
MCLimitSets ==
    {{Limit("org", "day", "-", 3), Limit("task", "task", "*", 3),
      Limit("model", "month", "m1", 2), Limit("model", "month", "*", 1)},
     {Limit("org", "month", "-", 4), Limit("task", "task", "t1", 2), Limit("model", "day", "*", 3)}}

Proof(kind, status, ends) == [kind |-> kind, status |-> status, ends |-> ends]
MCOffered == {Proof("oauth", "verified", 2), Proof("oauth", "revoked", 2), Proof("member", "verified", 1)}
MCOutcomes == {[provider |-> "healthy", expires |-> 2], [provider |-> "poor", expires |-> 2]}

MCStageOrder == <<"relational_db", "cache">>
MCDeletionAsks ==
    {[policy |-> TRUE, held |-> FALSE, wanted |-> TRUE, deleted |-> FALSE, anchor |-> n] : n \in {0, 1}}
    \cup {[policy |-> TRUE, held |-> TRUE, wanted |-> TRUE, deleted |-> FALSE, anchor |-> 0]}

MCForms == {[quorum |-> 2, expires |-> 2, override |-> 1], [quorum |-> 1, expires |-> 1, override |-> Never]}
MCScopeOrder == <<"global">>
MCBlockLists == {Modes}
MCIntentMode == "i1" :> "simulation" @@ "i2" :> "manual_export"
MCJobOf == [e \in OutEvents |-> IF e = 1 THEN BadSpec ELSE [key |-> <<"job", 1>>, payload |-> IF e = 2 THEN "x" ELSE "y"]]
MCIntentApproval == "i1" :> "a1" @@ "i2" :> "a1"
=============================================================================

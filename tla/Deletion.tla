------------------------------- MODULE Deletion -------------------------------
(***************************************************************************)
(* The propagation of one deletion request over the stores that hold the   *)
(* subject (modules/audit/deletion.py). process_stage() reads the request  *)
(* and the stage before it takes the lock, and writes, to SQLite and to    *)
(* memory, under it; propagate() asks the store of a stage first, and      *)
(* resolve_manual_task() writes its task last, in a transaction of its     *)
(* own. A restart finds the rows and none of the calls.                    *)
(*                                                                         *)
(* Left out: the replay of a command under its idempotency key, which      *)
(* changes nothing, the audit entries and the texts of errors. A caller    *)
(* who names another version than the one process_stage() reads is         *)
(* refused, which changes nothing either. After it come the plans that a   *)
(* region's deletion policy makes of such requests.                        *)
(***************************************************************************)
EXTENDS Integers, Sequences, FiniteSets

CONSTANTS
    StageOrder,        \* STAGES, in order
    DeletionThreads,   \* threads that call the service
    MaxDeletionVersion \* bound on the version of the request

ASSUME DeletionBounds ==
    /\ StageOrder \in Seq({StageOrder[n] : n \in DOMAIN StageOrder}) /\ StageOrder # <<>>
    /\ MaxDeletionVersion \in Nat \ {0}

VARIABLES
    deletion,  \* the request: status and version
    stage,     \* its stages: status and the evidence of the last success
    manual,    \* manual review tasks, in order
    gone,      \* stores that hold nothing of the subject any more
    delCall    \* the call a thread is in

deletionVars == <<deletion, stage, manual, gone, delCall>>

Stages == {StageOrder[n] : n \in DOMAIN StageOrder}
NotCalling == [at |-> "idle"]

DeletionTypeOK ==
    /\ deletion.status \in {"none", "requested", "running", "failed", "partially_completed", "completed"}
    /\ deletion.version \in 0 .. MaxDeletionVersion + Len(StageOrder)
    /\ stage \in [Stages -> [status : {"pending", "failed", "completed"},
                             evidence : {"none", "checked", "manual", "given"}]]
    /\ \A n \in DOMAIN manual : manual[n].stage \in Stages /\ manual[n].status \in {"queued", "resolved"}
    /\ gone \subseteq Stages

DeletionInit ==
    /\ deletion = [status |-> "none", version |-> 0]
    /\ stage = [s \in Stages |-> [status |-> "pending", evidence |-> "none"]]
    /\ manual = <<>>
    /\ gone = {}
    /\ delCall = [t \in DeletionThreads |-> NotCalling]

RequestDeletion ==
    /\ deletion.status = "none"
    /\ deletion' = [deletion EXCEPT !.status = "requested"]
    /\ UNCHANGED <<stage, manual, gone, delCall>>

MayCall(t) ==
    /\ delCall[t] = NotCalling
    /\ deletion.status # "none"
    /\ deletion.version < MaxDeletionVersion

(* process_stage() of a caller, who brings evidence of a success, up to    *)
(* the lock: it has read the request and the stage.                        *)
CallStage(t, s, success) ==
    /\ MayCall(t)
    /\ stage[s].status # "completed"
    /\ delCall' = [delCall EXCEPT ![t] =
         [at |-> "write", by |-> "caller", stage |-> s, success |-> success,
          evidence |-> "given", expected |-> deletion.version]]
    /\ UNCHANGED <<deletion, stage, manual, gone>>

(* propagate(): reads the request and goes through the stages, ...         *)
Propagate(t) ==
    /\ MayCall(t)
    /\ delCall' = [delCall EXCEPT ![t] = [at |-> "propagate", next |-> 1, expected |-> deletion.version]]
    /\ UNCHANGED <<deletion, stage, manual, gone>>

(* ... passes over those that are completed ...                            *)
SkipStage(t) ==
    LET c == delCall[t] IN
    /\ c.at = "propagate"
    /\ c.next \in DOMAIN StageOrder => stage[StageOrder[c.next]].status = "completed"
    /\ delCall' = [delCall EXCEPT ![t] =
         IF c.next \in DOMAIN StageOrder THEN [c EXCEPT !.next = @ + 1] ELSE NotCalling]
    /\ UNCHANGED <<deletion, stage, manual, gone>>

(* ... and asks the store of any other to delete and to look: it may raise *)
(* before or after it has deleted, or say it has and still hold something. *)
AskStore(t, deletes, raises) ==
    LET c == delCall[t]
        s == StageOrder[c.next]
    IN  /\ c.at = "propagate" /\ c.next \in DOMAIN StageOrder
        /\ stage[s].status # "completed"
        /\ gone' = IF deletes THEN gone \cup {s} ELSE gone
        /\ delCall' = [delCall EXCEPT ![t] =
             [at |-> "process", by |-> "propagate", stage |-> s, next |-> c.next,
              success |-> ~raises /\ s \in gone', evidence |-> "checked", expected |-> c.expected]]
        /\ UNCHANGED <<deletion, stage, manual>>

(* resolve_manual_task() reads the task and the version of the request.    *)
ResolveTask(t, n, success) ==
    /\ MayCall(t)
    /\ manual[n].status = "queued"
    /\ delCall' = [delCall EXCEPT ![t] =
         [at |-> "process", by |-> "manual", stage |-> manual[n].stage, task |-> n,
          success |-> success, evidence |-> "manual", expected |-> deletion.version]]
    /\ UNCHANGED <<deletion, stage, manual, gone>>

(* process_stage() of the other two, up to the lock.                       *)
StageReads(t) ==
    LET c == delCall[t] IN
    /\ c.at = "process"
    /\ delCall' = [delCall EXCEPT ![t] =
         IF deletion.version = c.expected /\ stage[c.stage].status # "completed"
         THEN [c EXCEPT !.at = "write"] ELSE NotCalling]
    /\ UNCHANGED <<deletion, stage, manual, gone>>

(* Mutant: a request is complete once nothing has failed.                  *)
DeletionStatusNoFailure(stages) ==
    LET is == {stages[s].status : s \in Stages} IN
    IF "failed" \notin is THEN "completed"
    ELSE IF "completed" \in is THEN "partially_completed" ELSE "failed"

(* The status that process_stage() derives from all stages.                *)
DeletionStatus(stages) ==
    LET is == {stages[s].status : s \in Stages} IN
    IF is = {"completed"} THEN "completed"
    ELSE IF "failed" \notin is THEN "running"
    ELSE IF "completed" \in is THEN "partially_completed" ELSE "failed"

Outcome(success, evidence) ==
    [status |-> IF success THEN "completed" ELSE "failed", evidence |-> IF success THEN evidence ELSE "none"]

Queued(s) == {n \in DOMAIN manual : manual[n].stage = s /\ manual[n].status = "queued"}

(* _new_manual(): one queued task per stage.                               *)
WithTask(s) == IF Queued(s) = {} THEN Append(manual, [stage |-> s, status |-> "queued"]) ELSE manual

(* process_stage() under the lock: the stage is written over what it has   *)
(* become, the request is one version after the copy.                      *)
StageWrites(t) ==
    LET c == delCall[t]
        stages == [stage EXCEPT ![c.stage] = Outcome(c.success, c.evidence)]
        version == c.expected + 1
    IN  /\ c.at = "write"
        /\ stage' = stages
        /\ deletion' = [status |-> DeletionStatus(stages), version |-> version]
        /\ manual' = IF c.success THEN manual ELSE WithTask(c.stage)
        /\ delCall' = [delCall EXCEPT ![t] =
             CASE c.by = "caller"    -> NotCalling
               [] c.by = "propagate" -> [at |-> "propagate", next |-> c.next + 1, expected |-> version]
               [] c.by = "manual"    -> [at |-> "task", task |-> c.task, success |-> c.success]]
        /\ UNCHANGED gone

(* The last step of resolve_manual_task().                                 *)
TaskWrites(t) ==
    LET c == delCall[t] IN
    /\ c.at = "task"
    /\ manual' = [manual EXCEPT ![c.task].status = IF c.success THEN "resolved" ELSE "queued"]
    /\ delCall' = [delCall EXCEPT ![t] = NotCalling]
    /\ UNCHANGED <<deletion, stage, gone>>

(* process_all() holds the lock from its first stage on; the first stage   *)
(* that is already completed stops it, and what it did before stays.       *)
ProcessAll(outcome) ==
    LET Done(n) == stage[StageOrder[n]].status = "completed"
        reached == {n \in DOMAIN StageOrder : \A k \in 1 .. n : ~Done(k)}
        touched == {StageOrder[n] : n \in reached}
        stages == [s \in Stages |-> IF s \in touched THEN Outcome(outcome[s], "given") ELSE stage[s]]
        fails == SelectSeq(StageOrder, LAMBDA s : s \in touched /\ ~outcome[s] /\ Queued(s) = {})
    IN  /\ deletion.status # "none" /\ deletion.version < MaxDeletionVersion
        /\ reached # {}
        /\ stage' = stages
        /\ deletion' = [status |-> DeletionStatus(stages), version |-> deletion.version + Cardinality(reached)]
        /\ manual' = manual \o [n \in DOMAIN fails |-> [stage |-> fails[n], status |-> "queued"]]
        /\ UNCHANGED <<gone, delCall>>

RestartDeletion ==
    /\ \E t \in DeletionThreads : delCall[t] # NotCalling
    /\ delCall' = [t \in DeletionThreads |-> NotCalling]
    /\ UNCHANGED <<deletion, stage, manual, gone>>

DeletionNext ==
    \/ RequestDeletion \/ RestartDeletion
    \/ \E outcome \in [Stages -> BOOLEAN] : ProcessAll(outcome)
    \/ \E t \in DeletionThreads :
         \/ Propagate(t) \/ SkipStage(t) \/ StageReads(t) \/ StageWrites(t) \/ TaskWrites(t)
         \/ \E deletes, raises \in BOOLEAN : AskStore(t, deletes, raises)
         \/ \E s \in Stages, success \in BOOLEAN : CallStage(t, s, success)
         \/ \E n \in DOMAIN manual, success \in BOOLEAN : ResolveTask(t, n, success)

-----------------------------------------------------------------------------

(* Whatever calls overlap, work on stale copies or are cut off by a        *)
(* restart, the request never claims more than its stages: it is completed *)
(* exactly when all of them are, no failed stage goes unseen, and a stage  *)
(* that propagate() confirmed holds nothing of the subject.                *)
DeletionTold ==
    /\ deletion.status = "completed" <=> \A s \in Stages : stage[s].status = "completed"
    /\ deletion.status \in {"requested", "running"} => \A s \in Stages : stage[s].status # "failed"
    /\ \A s \in Stages : stage[s].evidence = "checked" => s \in gone

-----------------------------------------------------------------------------
(***************************************************************************)
(* The deletion plans of a region (RegionDeletionService of                *)
(* modules/geo_region/policy.py). plan() asks whether its key was used,    *)
(* hands an eligible request on, remembers the command under the lock of   *)
(* its store and then stores the plan, whose id has no key in it: none of  *)
(* this is one step. The store is in memory, while the propagation service *)
(* keeps its requests. All plans here are for one subject and version, and *)
(* the caller brings no request of his own.                                *)
(***************************************************************************)
CONSTANTS
    PlanKeys,    \* idempotency keys of plan()
    DeletionAsks \* what is asked: the policy of the version, a legal hold and the date it counts from

ASSUME AskedBounds ==
    DeletionAsks \subseteq [policy : BOOLEAN, held : BOOLEAN, wanted : BOOLEAN, deleted : BOOLEAN, anchor : Nat]

VARIABLES
    handedOver,  \* keys with a request at the propagation service, and what was asked when it was made
    planCommand, \* _commands by key
    plans,       \* the plan stored for what was asked
    sentOn,      \* keys whose request was propagated
    planCall     \* the plan() a thread is in

planVars == <<handedOver, planCommand, plans, sentOn, planCall>>

NoAsk == [anchor |-> "none"]
NoPlan == [status |-> "none"]
NotPlanning == [at |-> "idle"]

PlanInit ==
    /\ handedOver = [k \in PlanKeys |-> NoAsk]
    /\ planCommand = [k \in PlanKeys |-> NoPlan]
    /\ plans = [a \in DeletionAsks |-> NoPlan]
    /\ sentOn = {}
    /\ planCall = [t \in DeletionThreads |-> NotPlanning]

PlanStatus(a) ==
    IF a.deleted \/ ~a.wanted THEN "completed" ELSE IF ~a.policy \/ a.held THEN "manual_review" ELSE "planned"

\* a key in use replays, or is refused
BeginPlan(t, k, a) ==
    /\ planCall[t] = NotPlanning /\ planCommand[k] = NoPlan
    /\ planCall' = [planCall EXCEPT ![t] =
         [at |-> IF PlanStatus(a) = "planned" THEN "hand" ELSE "save", key |-> k,
          plan |-> [status |-> PlanStatus(a), ask |-> a]]]
    /\ UNCHANGED <<handedOver, planCommand, plans, sentOn>>

(* The request of a key is made once, whatever the date it counts from;    *)
(* one that raises, before or after it has made it, goes to review.        *)
HandOver(t, makes, raises) ==
    LET c == planCall[t] IN
    /\ c.at = "hand" /\ (makes \/ raises)
    /\ handedOver' = IF makes /\ handedOver[c.key] = NoAsk
                     THEN [handedOver EXCEPT ![c.key] = c.plan.ask] ELSE handedOver
    /\ planCall' = [planCall EXCEPT ![t] =
         [at |-> "save", key |-> c.key,
          plan |-> IF raises THEN [status |-> "manual_review", ask |-> c.plan.ask]
                   ELSE [status |-> "queued", ask |-> c.plan.ask, request |-> c.key]]]
    /\ UNCHANGED <<planCommand, plans, sentOn>>

\* save_command(): the first with a key wins, and one that asks the same goes on
SavePlan(t) ==
    LET c == planCall[t]
        first == planCommand[c.key] = NoPlan
    IN  /\ c.at = "save"
        /\ planCommand' = IF first THEN [planCommand EXCEPT ![c.key] = c.plan] ELSE planCommand
        /\ planCall' = [planCall EXCEPT ![t] =
             IF first \/ planCommand[c.key].ask = c.plan.ask THEN [c EXCEPT !.at = "store"] ELSE NotPlanning]
        /\ UNCHANGED <<handedOver, plans, sentOn>>

StorePlan(t) ==
    LET c == planCall[t] IN
    /\ c.at = "store"
    /\ plans' = [plans EXCEPT ![c.plan.ask] = c.plan]
    /\ planCall' = [planCall EXCEPT ![t] = NotPlanning]
    /\ UNCHANGED <<handedOver, planCommand, sentOn>>

\* propagate() takes whatever plan it is given
PropagatePlan(p) ==
    /\ p.status = "queued"
    /\ sentOn' = sentOn \cup {p.request}
    /\ UNCHANGED <<handedOver, planCommand, plans, planCall>>

RestartPlans ==
    /\ planCommand' = [k \in PlanKeys |-> NoPlan]
    /\ plans' = [a \in DeletionAsks |-> NoPlan]
    /\ planCall' = [t \in DeletionThreads |-> NotPlanning]
    /\ UNCHANGED <<handedOver, sentOn>>

PlanNext ==
    \/ RestartPlans
    \/ \E t \in DeletionThreads :
         \/ SavePlan(t) \/ StorePlan(t)
         \/ \E k \in PlanKeys, a \in DeletionAsks : BeginPlan(t, k, a)
         \/ \E makes, raises \in BOOLEAN : HandOver(t, makes, raises)
    \/ \E k \in PlanKeys : PropagatePlan(planCommand[k])
    \/ \E a \in DeletionAsks : PropagatePlan(plans[a])

Deletable(a) == a.wanted /\ ~a.deleted /\ a.policy /\ ~a.held

(* Whoever plans at the same time, fails half-way or starts again over the *)
(* requests of before, nothing is propagated that was not deletable when   *)
(* it was handed over: under a legal hold or without a policy there is no  *)
(* request; a plan that is queued has one; and a plan that is stored is    *)
(* remembered under a key, with the request it may have been given.        *)
PlansBacked ==
    /\ \A k \in PlanKeys : handedOver[k] # NoAsk => Deletable(handedOver[k])
    /\ \A k \in PlanKeys : planCommand[k].status = "queued" =>
          handedOver[k] # NoAsk /\ Deletable(planCommand[k].ask)
    /\ \A a \in DeletionAsks : plans[a] # NoPlan =>
          /\ \E k \in PlanKeys : planCommand[k] # NoPlan /\ planCommand[k].ask = a
          /\ plans[a].status = "queued" => handedOver[plans[a].request] # NoAsk /\ Deletable(a)
    /\ sentOn \subseteq {k \in PlanKeys : handedOver[k] # NoAsk}
=============================================================================

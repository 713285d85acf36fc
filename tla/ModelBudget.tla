----------------------------- MODULE ModelBudget -----------------------------
(***************************************************************************)
(* Model calls under a budget (modules/model_gateway): a gateway reserves  *)
(* the budget of a request (BudgetService.reserve), asks the provider, and *)
(* settles what the answer cost (BudgetService.settle). A gateway serves   *)
(* one call at a time under its lock; gateways share one budget service,   *)
(* whose commands are atomic under its own.                                *)
(*                                                                         *)
(* Left out: configurations and their evidence, output and token counts,   *)
(* organizations other than one, commands that are refused because a key   *)
(* comes with another payload, and settlements that are refused for their  *)
(* status or date, which no gateway sends. A key is used with one request, *)
(* through one gateway, since the record of calls is the gateway's own.    *)
(***************************************************************************)
EXTENDS Integers, Sequences, FiniteSetsExt

CONSTANTS
    CallKeys,     \* idempotency keys of calls
    RequestOf,    \* the task, the model and budget_cents of each
    GatewayOf,    \* the gateway each is sent to
    Costs,        \* what an answer may cost
    PolicyNames,
    LimitSets,    \* the limits that policies are registered with
    MaxPolicies,  \* bound on the number of policy versions
    LastBudgetDay,\* bound of the clock
    MonthDays     \* days of a month

ASSUME BudgetBounds ==
    /\ MaxPolicies \in Nat /\ LastBudgetDay \in Nat /\ MonthDays \in Nat \ {0}
    /\ Costs \subseteq Nat /\ "none" \notin CallKeys
    /\ \A k \in CallKeys : RequestOf[k].cents \in Nat
    /\ \A ls \in LimitSets : \A l \in ls :
         l.scope \in {"org", "task", "model"} /\ l.period \in {"task", "day", "month"} /\ l.cents \in Nat

VARIABLES
    budgetDay,    \* the clock of the budget service
    policies,     \* policy versions in the order of their registration
    reserved,     \* open reservations
    usage,        \* settled facts, in order
    callRecord,   \* calls by key, as idempotency and calls of the gateway find them
    serving       \* the call a gateway is in and its attempt

budgetVars == <<budgetDay, policies, reserved, usage, callRecord, serving>>

Gateways == {GatewayOf[k] : k \in CallKeys}
NotCalled == [status |-> "none", cost |-> 0]
NotServing == [key |-> "none", left |-> 0]

BudgetTypeOK ==
    /\ budgetDay \in 0 .. LastBudgetDay
    /\ Len(policies) <= MaxPolicies
    /\ \A r \in reserved : r.key \in CallKeys /\ r.policy \in DOMAIN policies
    /\ \A k \in CallKeys :
         callRecord[k].status \in {"none", "succeeded", "failed", "timed_out", "budget_exceeded"}
    /\ \A g \in Gateways : serving[g] = NotServing \/ GatewayOf[serving[g].key] = g

BudgetInit ==
    /\ budgetDay = 0
    /\ policies = <<>>
    /\ reserved = {}
    /\ usage = <<>>
    /\ callRecord = [k \in CallKeys |-> NotCalled]
    /\ serving = [g \in Gateways |-> NotServing]

(* register_policy(): the next version of its key.                         *)
RegisterPolicy(name, limits) ==
    /\ Len(policies) < MaxPolicies
    /\ policies' = Append(policies,
         [name |-> name, limits |-> limits,
          version |-> 1 + Cardinality({n \in DOMAIN policies : policies[n].name = name})])
    /\ UNCHANGED <<budgetDay, reserved, usage, callRecord, serving>>

(* _active_policy(): the highest version number of any key, the first      *)
(* registered of equals.                                                   *)
ActivePolicy ==
    CHOOSE n \in DOMAIN policies : \A o \in DOMAIN policies :
        \/ policies[n].version > policies[o].version
        \/ policies[n].version = policies[o].version /\ n <= o

(* _applicable_limits(): per scope and period the limit of the task or the *)
(* model itself, or else the one of "*".                                   *)
Applies(l, limits, r) ==
    LET own == IF l.scope = "task" THEN r.task ELSE r.model IN
    \/ l.scope = "org"
    \/ l.key = own
    \/ /\ l.key = "*"
       /\ ~\E o \in limits : o.scope = l.scope /\ o.period = l.period /\ o.key = own

(* _matches(): which reservations and facts count against a limit for a    *)
(* request made on a day.                                                  *)
Matches(l, entry, day, r, now) ==
    /\ l.scope = "task" => l.key \in {"*", entry.task}
    /\ l.scope = "model" => l.key \in {"*", entry.model}
    /\ l.period = "task" => entry.task = r.task
    /\ l.period = "day" => day = now
    /\ l.period = "month" => day \div MonthDays = now \div MonthDays

Spent == [n \in DOMAIN usage |-> usage[n].cost]
SetAside == [b \in reserved |-> RequestOf[b.key].cents]

UsedFor(l, r, now) ==
    SumFunctionOnSet(Spent, {n \in DOMAIN usage : Matches(l, RequestOf[usage[n].key], usage[n].day, r, now)})

ReservedFor(l, r, now) ==
    SumFunctionOnSet(SetAside, {b \in reserved : Matches(l, RequestOf[b.key], b.day, r, now)})

WithinBudget(r) ==
    LET limits == policies[ActivePolicy].limits IN
    \A l \in limits : Applies(l, limits, r) =>
        UsedFor(l, r, budgetDay) + ReservedFor(l, r, budgetDay) + r.cents <= l.cents

Reservation(k) == {b \in reserved : b.key = k}

(* ModelGateway.call() up to the provider: a known key gets its call back, *)
(* which changes nothing; an open reservation of the key is taken over.    *)
BeginCall(k, retries) ==
    /\ serving[GatewayOf[k]] = NotServing
    /\ callRecord[k] = NotCalled
    /\ IF Reservation(k) = {} /\ (policies = <<>> \/ ~WithinBudget(RequestOf[k]))
       THEN /\ callRecord' = [callRecord EXCEPT ![k].status = "budget_exceeded"]
            /\ UNCHANGED <<reserved, serving>>
       ELSE /\ serving' = [serving EXCEPT ![GatewayOf[k]] = [key |-> k, left |-> retries]]
            /\ reserved' = IF Reservation(k) # {} THEN reserved
                           ELSE reserved \cup {[key |-> k, day |-> budgetDay, policy |-> ActivePolicy]}
            /\ UNCHANGED callRecord
    /\ UNCHANGED <<budgetDay, policies, usage>>

(* BudgetService.settle().                                                 *)
Settle(k, cost) ==
    /\ reserved' = reserved \ Reservation(k)
    /\ usage' = usage \o [n \in 1 .. Cardinality(Reservation(k)) |->
         [key |-> k, cost |-> cost, day |-> budgetDay,
          made |-> (CHOOSE b \in Reservation(k) : TRUE).day,
          policy |-> (CHOOSE b \in Reservation(k) : TRUE).policy]]

(* Mutant: a failed call is not remembered under its key.                  *)
EndedIfSucceeded(k, status, cost) ==
    callRecord' = IF status = "succeeded"
                  THEN [callRecord EXCEPT ![k] = [status |-> status, cost |-> cost]]
                  ELSE callRecord

(* A call that has ended is found under its key, whatever its end.         *)
Ended(k, status, cost) == callRecord' = [callRecord EXCEPT ![k] = [status |-> status, cost |-> cost]]

EndCall(g, status, cost) ==
    LET k == serving[g].key IN
    /\ serving[g] # NotServing
    /\ Settle(k, cost)
    /\ Ended(k, status, cost)
    /\ serving' = [serving EXCEPT ![g] = NotServing]
    /\ UNCHANGED <<budgetDay, policies>>

(* The provider answers; an answer dearer than the request allows is a     *)
(* failure and costs nothing.                                              *)
Answer(g, cost) ==
    /\ serving[g] # NotServing
    /\ IF cost <= RequestOf[serving[g].key].cents
       THEN EndCall(g, "succeeded", cost)
       ELSE EndCall(g, "failed", 0)

(* The provider times out or is unavailable and attempts are left.         *)
RetryCall(g) ==
    /\ serving[g] # NotServing /\ serving[g].left > 0
    /\ serving' = [serving EXCEPT ![g].left = @ - 1]
    /\ UNCHANGED <<budgetDay, policies, reserved, usage, callRecord>>

(* No attempt is left, or the error is one that is not tried again; one    *)
(* that says the budget is exceeded (MODEL_BUDGET_EXCEEDED) is recorded in *)
(* the words of a refusal, after its reservation was settled.              *)
GiveUp(g) ==
    \/ serving[g].left = 0 /\ EndCall(g, "timed_out", 0)
    \/ \E s \in {"failed", "budget_exceeded"} : EndCall(g, s, 0)

(* The provider raises something that is not a ModelError: the call        *)
(* leaves its reservation open and no record.                              *)
CallEscapes(g) ==
    /\ serving[g] # NotServing
    /\ serving' = [serving EXCEPT ![g] = NotServing]
    /\ UNCHANGED <<budgetDay, policies, reserved, usage, callRecord>>

NextBudgetDay ==
    /\ budgetDay < LastBudgetDay
    /\ budgetDay' = budgetDay + 1
    /\ UNCHANGED <<policies, reserved, usage, callRecord, serving>>

BudgetNext ==
    \/ NextBudgetDay
    \/ \E name \in PolicyNames, ls \in LimitSets : RegisterPolicy(name, ls)
    \/ \E k \in CallKeys, retries \in {0, 1} : BeginCall(k, retries)
    \/ \E g \in Gateways : RetryCall(g) \/ GiveUp(g) \/ CallEscapes(g) \/ \E c \in Costs : Answer(g, c)

-----------------------------------------------------------------------------

(* What a limit l of policy p was checked for, per day, and what it holds. *)
Held(p, l, r, now) ==
    LET Governed(e, made) ==
            /\ Applies(l, policies[p].limits, RequestOf[e.key])
            /\ e.policy = p
            /\ Matches(l, RequestOf[e.key], made, r, now)
    IN  SumFunctionOnSet(Spent, {n \in DOMAIN usage : Governed(usage[n], usage[n].made)})
        + SumFunctionOnSet(SetAside, {b \in reserved : Governed(b, b.day)})

(* Whatever gateways reserve and settle at the same time, the calls that   *)
(* were admitted under a limit in its period never hold more than it.      *)
WithinLimits ==
    \A p \in DOMAIN policies : \A l \in policies[p].limits :
        \A k \in CallKeys, now \in 0 .. budgetDay :
            Held(p, l, RequestOf[k], now) <= l.cents

(* A call that ended is charged exactly once, with its own cost, and       *)
(* leaves no reservation. One refused for its budget leaves none either    *)
(* and costs nothing, whether the policy refused it, which files no fact,  *)
(* or the provider.                                                        *)
ChargedOnce ==
    \A k \in CallKeys :
        LET facts == {n \in DOMAIN usage : usage[n].key = k} IN
        /\ Cardinality(facts) <= 1
        /\ callRecord[k].status \in {"succeeded", "failed", "timed_out"} =>
             /\ Reservation(k) = {}
             /\ \E n \in facts : usage[n].cost = callRecord[k].cost
        /\ callRecord[k].status = "none" => facts = {}
        /\ callRecord[k].status = "budget_exceeded" =>
             Reservation(k) = {} /\ \A n \in facts : usage[n].cost = 0

(* What reservations promise and settlements keep, for any overlap of the  *)
(* calls of several gateways.                                              *)
BudgetKept == WithinLimits /\ ChargedOnce
=============================================================================

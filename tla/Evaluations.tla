---------------------------- MODULE Evaluations ----------------------------
(***************************************************************************)
(* Offline evaluation of prompts (packages/prompt_registry): prompts,      *)
(* golden sets and thresholds are registered as versions that are never    *)
(* changed, and a run asks the model gateway every case of a golden set    *)
(* and judges what came of it by a version of the thresholds and, if there *)
(* is one, by an earlier run.                                              *)
(*                                                                         *)
(* The service holds no lock and is called by one caller at a time.  A run *)
(* may end in an exception with some of its cases asked; the gateway,      *)
(* which is the one of ModelBudget, keeps the calls under keys made of the *)
(* key of the run and the case.                                            *)
(*                                                                         *)
(* Left out: schemas beyond whether they are the same and whether an       *)
(* answer meets them (none admits null), rounding, the audit.              *)
(***************************************************************************)
EXTENDS Integers, Sequences, FiniteSetsExt, Functions, TLC

CONSTANTS
    EvalKeys,      \* idempotency keys
    VersionKinds,  \* "prompt", "golden_set" and "threshold", one name of each
    BodiesOf,      \* kind -> the bodies versions are registered with:
                   \*   a prompt is [needs]: the variables of its template;
                   \*   a golden set a sequence of cases, each the variables it has;
                   \*   thresholds [exact, errors, drop, rise]: percentages, [total, each]: cents
    CaseBudgets,   \* per_case_budget_cents of the requests
    Answers,       \* [says, cost]: what the provider may answer, or that it raises
    MaxKindVersions, MaxEvalRuns  \* bounds

ASSUME EvalBounds ==
    /\ VersionKinds = {"prompt", "golden_set", "threshold"}
    /\ BodiesOf["golden_set"] \subseteq Seq(SUBSET UNION {UNION Range(g) : g \in BodiesOf["golden_set"]})
    /\ BodiesOf["threshold"] \subseteq [exact : Nat, errors : Nat, drop : Nat, rise : Nat, total : Nat, each : Nat]
    /\ Answers \subseteq [says : {"right", "wrong", "malformed", "raises"}, cost : Nat] /\ CaseBudgets \subseteq Nat

VARIABLES
    registered, \* kind -> the bodies of its versions
    evalKey,    \* key -> the command it was used with and what that made
    evalRuns,   \* stored runs
    evaluating, \* the run in progress: its request, the results so far and their total cost
    gatewayCall,\* <<key, case>> -> the call the gateway keeps
    asked       \* history: the calls the provider was asked, in order

evalVars == <<registered, evalKey, evalRuns, evaluating, gatewayCall, asked>>

NotUsed == [command |-> "none"]
NotEvaluating == [key |-> "none"]
Counted(results, status) == Cardinality({i \in DOMAIN results : results[i].status = status})

EvalInit(versions) ==
    /\ registered = versions
    /\ evalKey = [k \in EvalKeys |-> NotUsed]
    /\ evalRuns = <<>> /\ evaluating = NotEvaluating
    /\ gatewayCall = <<>> /\ asked = <<>>

-----------------------------------------------------------------------------
(* register_prompt(), register_golden_set(), register_thresholds(): the    *)
(* number is the next one, and the caller has seen the one before.         *)
Register(k, kind, number, previous, body) ==
    /\ evaluating = NotEvaluating
    /\ evalKey[k] = NotUsed
    /\ previous = Len(registered[kind]) /\ number = previous + 1 /\ number <= MaxKindVersions
    /\ registered' = [registered EXCEPT ![kind] = Append(@, body)]
    /\ evalKey' = [evalKey EXCEPT ![k] = [command |-> kind, request |-> <<number, body>>, made |-> number]]
    /\ UNCHANGED <<evalRuns, evaluating, gatewayCall, asked>>

(* run_offline() up to its first case; baseline is 0 or a stored run of a  *)
(* golden set with the same content.                                       *)
EvalRequest(p, g, t, b, cents) == [prompt |-> p, golden |-> g, threshold |-> t, baseline |-> b, cents |-> cents]
CasesOf(req) == registered["golden_set"][req.golden]
LimitsOf(req) == registered["threshold"][req.threshold]

BeginRun(k, req) ==
    /\ evaluating = NotEvaluating
    /\ evalKey[k] = NotUsed /\ Len(evalRuns) < MaxEvalRuns
    /\ req.baseline # 0 => CasesOf(evalRuns[req.baseline].request) = CasesOf(req)
    /\ req.cents <= LimitsOf(req).each
    /\ evaluating' = [key |-> k, request |-> req, results |-> <<>>, total |-> 0]
    /\ UNCHANGED <<registered, evalKey, evalRuns, gatewayCall, asked>>

-----------------------------------------------------------------------------
(* The next case of the run in progress.                                   *)
Case == Len(evaluating.results) + 1
Remaining == LimitsOf(evaluating.request).total - evaluating.total
CallKey == <<evaluating.key, Case>>
CasePayload ==
    [prompt |-> evaluating.request.prompt, has |-> CasesOf(evaluating.request)[Case],
     cents |-> IF evaluating.request.cents < Remaining THEN evaluating.request.cents ELSE Remaining]
Rendered == registered["prompt"][evaluating.request.prompt].needs \subseteq CasesOf(evaluating.request)[Case]
Asking ==
    /\ evaluating # NotEvaluating /\ Case <= Len(CasesOf(evaluating.request))
    /\ Remaining > 0 /\ Rendered
Result(status, cost) ==
    evaluating' =
        [key |-> evaluating.key, request |-> evaluating.request,
         results |-> Append(evaluating.results, [status |-> status, cost |-> cost]), total |-> evaluating.total + cost]

SkipCase ==
    /\ evaluating # NotEvaluating /\ Case <= Len(CasesOf(evaluating.request))
    /\ Remaining <= 0
    /\ Result("error", 0)
    /\ UNCHANGED <<registered, evalKey, evalRuns, gatewayCall, asked>>

(* The gateway asks the provider under a key it has no call of; an answer  *)
(* that costs more than the budget is an error of the call.                *)
Judge(says) == CASE says = "right" -> "passed" [] says = "wrong" -> "failed" [] OTHER -> "error"
AskModel(answer) ==
    LET payload == CasePayload
        fails == answer.says = "raises" \/ answer.cost > payload.cents
        said == IF fails THEN [says |-> "none", cost |-> 0] ELSE answer IN
    /\ Asking /\ CallKey \notin DOMAIN gatewayCall
    /\ gatewayCall' = [c \in DOMAIN gatewayCall \cup {CallKey} |->
                           IF c = CallKey THEN [payload |-> payload, answer |-> said] ELSE gatewayCall[c]]
    /\ asked' = Append(asked, CallKey)
    /\ Result(Judge(said.says), said.cost)
    /\ UNCHANGED <<registered, evalKey, evalRuns>>

(* It returns the call it has, a failed one too, whose output is none, and *)
(* refuses the key for another request.                                    *)
RepeatCall ==
    LET known == gatewayCall[CallKey] IN
    /\ Asking /\ CallKey \in DOMAIN gatewayCall
    /\ IF known.payload = CasePayload THEN Result(Judge(known.answer.says), known.answer.cost) ELSE Result("error", 0)
    /\ UNCHANGED <<registered, evalKey, evalRuns, gatewayCall, asked>>

(* A case without a variable of the template ends the run in an exception, *)
(* and so may the clock or the contract of the result at its end.          *)
RunRaises ==
    /\ evaluating # NotEvaluating
    /\ Case <= Len(CasesOf(evaluating.request)) => Remaining > 0 /\ ~Rendered
    /\ evaluating' = NotEvaluating
    /\ UNCHANGED <<registered, evalKey, evalRuns, gatewayCall, asked>>

-----------------------------------------------------------------------------
(* _build_run(): the reasons to fail.                                      *)
Reasons(req, results, cost) ==
    LET limits == LimitsOf(req)
        count == Len(results)
        passed == Counted(results, "passed")
        base == evalRuns[req.baseline] IN
    {reason \in {"exact", "errors", "total", "each", "quality", "cost"} :
        CASE reason = "exact" -> 100 * passed < limits.exact * count
          [] reason = "errors" -> 100 * Counted(results, "error") > limits.errors * count
          [] reason = "total" -> cost > limits.total
          [] reason = "each" -> \E i \in DOMAIN results : results[i].cost > limits.each
          [] reason = "quality" -> req.baseline # 0 /\ 100 * (Counted(base.results, "passed") - passed) > limits.drop * count
          [] reason = "cost" -> req.baseline # 0 /\
               IF base.total = 0 THEN cost > 0 ELSE 100 * (cost - base.total) > limits.rise * base.total}

FinishRun ==
    /\ evaluating # NotEvaluating /\ Case > Len(CasesOf(evaluating.request))
    /\ LET req == evaluating.request
           made == Len(evalRuns) + 1 IN
       /\ evalRuns' = Append(evalRuns,
             [key |-> evaluating.key, request |-> req, results |-> evaluating.results, total |-> evaluating.total,
              gate |-> IF Reasons(req, evaluating.results, evaluating.total) = {} THEN "passed" ELSE "failed"])
       /\ evalKey' = [evalKey EXCEPT ![evaluating.key] = [command |-> "run", request |-> req, made |-> made]]
    /\ evaluating' = NotEvaluating
    /\ UNCHANGED <<registered, gatewayCall, asked>>

RegisterNext ==
    \E k \in EvalKeys, kind \in VersionKinds, n, previous \in 0 .. MaxKindVersions :
        \E body \in BodiesOf[kind] : Register(k, kind, n, previous, body)
RunNext ==
    \/ \E k \in EvalKeys, b \in 0 .. Len(evalRuns), cents \in CaseBudgets, p \in DOMAIN registered["prompt"],
          g \in DOMAIN registered["golden_set"], t \in DOMAIN registered["threshold"] : BeginRun(k, EvalRequest(p, g, t, b, cents))
    \/ SkipCase \/ RepeatCall \/ RunRaises \/ FinishRun
    \/ \E answer \in Answers : AskModel(answer)

-----------------------------------------------------------------------------
EvalTypeOK ==
    /\ \A kind \in VersionKinds : Len(registered[kind]) <= MaxKindVersions
    /\ Len(evalRuns) <= MaxEvalRuns
    /\ \A r \in Range(evalRuns) : /\ r.gate \in {"passed", "failed"}
                                 /\ r.total = MapThenSumSet(LAMBDA i : r.results[i].cost, DOMAIN r.results)

(* A run that passed the gate has a result for every case, what it says    *)
(* was right was an answer to its own prompt, and neither the thresholds   *)
(* nor the run it is compared with, of the same cases, speak against it.   *)
GateSound ==
    \A r \in Range(evalRuns) : r.gate = "passed" =>
        LET cases == CasesOf(r.request)
            limits == LimitsOf(r.request)
            Told(i) == gatewayCall[<<r.key, i>>]
            right == {i \in DOMAIN cases : <<r.key, i>> \in DOMAIN gatewayCall /\ Told(i).answer.says = "right"
                                            /\ Told(i).payload.prompt = r.request.prompt /\ Told(i).payload.has = cases[i]} IN
        /\ DOMAIN r.results = DOMAIN cases
        /\ {i \in DOMAIN cases : r.results[i].status = "passed"} \subseteq right
        /\ 100 * Cardinality(right) >= limits.exact * Len(cases)
        /\ r.request.baseline # 0 =>
             LET base == evalRuns[r.request.baseline] IN
             /\ CasesOf(base.request) = cases
             /\ 100 * (Counted(base.results, "passed") - Cardinality(right)) <= limits.drop * Len(cases)

(* A case is asked once under a key, though the run was broken off and     *)
(* repeated; and what its answers cost stays within the thresholds.        *)
AskedWithin ==
    /\ IsInjective(asked) /\ Range(asked) = DOMAIN gatewayCall
    /\ \A r \in Range(evalRuns) \cup ({evaluating} \ {NotEvaluating}) :
         LET limits == LimitsOf(r.request) IN
         /\ r.total <= limits.total
         /\ \A i \in DOMAIN r.results : r.results[i].cost <= limits.each

(* Each version and each run is of one key, which is answered with it as   *)
(* it was made.                                                            *)
VersionsTold ==
    \A k \in EvalKeys :
        LET c == evalKey[k] IN
        /\ c.command \in VersionKinds =>
             c.request[1] = c.made /\ registered[c.command][c.made] = c.request[2]
        /\ c.command = "run" => evalRuns[c.made].key = k /\ evalRuns[c.made].request = c.request
        /\ \A l \in EvalKeys : l # k /\ c.command # "none" /\ evalKey[l].command = c.command => evalKey[l].made # c.made
=============================================================================

------------------------------- MODULE Agents -------------------------------
(***************************************************************************)
(* The agents (modules/agent): planner, research, rights provenance,       *)
(* transform and QA.  Each reads what another component supplies, asks a   *)
(* model about it under its definition in the registry, refuses an answer  *)
(* that does not keep to what was read, and keeps the result under the     *)
(* caller's key.                                                           *)
(*                                                                         *)
(* An agent holds its lock from the look at its keys to the result, the    *)
(* call of the model included, while what it read may change.  The planner *)
(* reads, and registers its definition, before it takes the lock; the      *)
(* registry has none.                                                      *)
(*                                                                         *)
(* Left out: texts and hashes beyond whether they are the same, the shape  *)
(* of an answer (a misshapen one is refused like a wrong one), the audit;  *)
(* a call whose key is known is answered or refused and changes nothing.   *)
(***************************************************************************)
EXTENDS Naturals, Sequences, FiniteSets, SequencesExt

CONSTANTS
    AgentThreads,  \* callers of the agents
    AgentKeys,     \* idempotency keys
    AgentRequests, \* agent -> what it may be asked
    Supplies,      \* agent -> what the component it reads may answer:
                   \*   planner [status, hash] of the brief
                   \*   research source -> [usable, excerpts]
                   \*   rights the references of the version
                   \*   transform [withdrawn, sections]: a section is [key, claim, words],
                   \*     words how often each of Words stands in it
                   \*   qa [status, findings, ours]: the report of the checker
    ModelAnswers,  \* agent -> what the model may answer
    Literals,      \* words that are numbers, code or links
    MappingName,   \* the name the code gives a literal's mapping
    MaxAgentRuns, MaxDefinitions \* bounds

Agents == {"planner", "research", "rights", "transform", "qa"}

VARIABLES
    definitions, \* agent -> its definitions, by version
    supply,      \* agent -> what it would read now
    agentCall,   \* thread -> the call it is in
    agentRuns,   \* runs the runner recorded, in order
    agentKept,   \* agent -> key -> the request and the run its result is of
    ledger,      \* runs it has a record and a model call of
    reviewed     \* key -> what the QA checker was asked under it, and its report

agentVars == <<definitions, supply, agentCall, agentRuns, agentKept, ledger, reviewed>>

NotAsking == [at |-> "idle"]
NotKept == [run |-> 0]
SafeDefinition == [safe |-> TRUE]

AgentInit(given) ==
    /\ definitions = [a \in Agents |-> <<>>]
    /\ supply \in given
    /\ agentCall = [t \in AgentThreads |-> NotAsking]
    /\ agentRuns = <<>>
    /\ agentKept = [a \in Agents |-> [k \in AgentKeys |-> NotKept]]
    /\ ledger = <<>>
    /\ reviewed = [k \in AgentKeys |-> NotKept]

SupplyChanges(a) ==
    /\ \E s \in Supplies[a] : supply' = [supply EXCEPT ![a] = s]
    /\ UNCHANGED <<definitions, agentCall, agentRuns, agentKept, ledger, reviewed>>

(* register(): an administrator's definition is the next version, with or  *)
(* without tools.                                                          *)
RegisterAgent(a, safe) ==
    /\ Len(definitions[a]) < MaxDefinitions
    /\ definitions' = [definitions EXCEPT ![a] = Append(@, [safe |-> safe])]
    /\ UNCHANGED <<supply, agentCall, agentRuns, agentKept, ledger, reviewed>>

-----------------------------------------------------------------------------
(* What is read: fit to ask about, and what of it the answer is held to.   *)
ExcerptsOf(sources, given) == UNION {{<<s, e>> : e \in given[s].excerpts} : s \in sources}
SourcesFit(sources, given) == \A s \in sources : given[s].usable /\ given[s].excerpts # {}

ExcerptsKnown(excerpts, refs) == \A e \in excerpts : e[1] \in refs

SectionOf(given, key) == given.sections[CHOOSE n \in DOMAIN given.sections : given.sections[n].key = key]
SectionKeys(given) == {given.sections[n].key : n \in DOMAIN given.sections}
TermsFit(terms, given) ==
    /\ ~given.withdrawn
    /\ \A m \in terms : m.section \in SectionKeys(given) /\ SectionOf(given, m.section).words[m.from] > 0

Mapping(name, section, from, to, given) ==
    [name |-> name, section |-> section, from |-> from, to |-> to, count |-> SectionOf(given, section).words[from]]
TermMappings(terms, given) == {Mapping(m.name, m.section, m.from, m.to, given) : m \in terms}
LiteralMappings(given) ==
    {Mapping(MappingName[p], p[1], p[2], p[2], given) :
        p \in {q \in SectionKeys(given) \X Literals : SectionOf(given, q[1]).words[q[2]] > 0}}
ProtectedBy(terms, given) == TermMappings(terms, given) \cup LiteralMappings(given)

(* By name, as the answer's own mappings are compared: of two with one     *)
(* name the later, which is the literal's.                                 *)
NamedMappings(terms, given) ==
    LiteralMappings(given)
    \cup {m \in TermMappings(terms, given) : \A l \in LiteralMappings(given) : l.name # m.name}

-----------------------------------------------------------------------------
(* What an answer is refused for.  Keys of one kind are unique.            *)
KeysOf(items) == {items[n].key : n \in DOMAIN items}
KeysUnique(items) == Cardinality(KeysOf(items)) = Len(items)
Refer(items, keys) == \A n \in DOMAIN items : items[n].about \subseteq keys

ValidPlan(read, out) ==
    /\ out.ours
    /\ KeysUnique(out.steps)
    /\ \A n \in DOMAIN out.steps : out.steps[n].about \subseteq KeysOf(SubSeq(out.steps, 1, n - 1))

ValidResearch(read, out) ==
    /\ out.facts # <<>> \/ out.items # <<>>
    /\ KeysUnique(out.facts) /\ \A n \in DOMAIN out.facts : out.facts[n].cites \subseteq read
    /\ KeysUnique(out.items) /\ Refer(out.items, KeysOf(out.facts))

ValidClues(read, out) ==
    /\ out.clues # <<>> \/ out.gaps # <<>>
    /\ KeysUnique(out.clues) /\ \A n \in DOMAIN out.clues : out.clues[n].cites \in read
    /\ KeysUnique(out.scopes) /\ KeysUnique(out.gaps)
    /\ Refer(out.scopes, KeysOf(out.clues)) /\ Refer(out.gaps, KeysOf(out.clues))

BlockOf(out, key) == out.blocks[CHOOSE n \in DOMAIN out.blocks : out.blocks[n].key = key]
ValidTransform(read, out) ==
    /\ Len(out.blocks) = Len(read.given.sections)
    /\ \A n \in DOMAIN out.blocks :
         out.blocks[n].key = read.given.sections[n].key /\ out.blocks[n].claim = read.given.sections[n].claim
    /\ out.kept = NamedMappings(read.terms, read.given)
    /\ \A m \in ProtectedBy(read.terms, read.given) : BlockOf(out, m.section).words[m.to] >= m.count

(* Every explanation is of some finding and repeats it; which ones are     *)
(* explained is not compared.                                              *)
ValidReview(read, out) ==
    /\ Len(out.findings) = Len(read.findings)
    /\ KeysUnique(out.findings)
    /\ \A n \in DOMAIN out.findings :
         out.findings[n].index \in DOMAIN read.findings /\ out.findings[n].code = read.findings[out.findings[n].index]
    /\ KeysUnique(out.tasks) /\ Refer(out.tasks, KeysOf(out.findings))
    /\ (read.status = "passed") = (out.tasks = <<>>)

ValidAnswer(a, read, out) ==
    CASE a = "planner" -> ValidPlan(read, out)
      [] a = "research" -> ValidResearch(read, out)
      [] a = "rights" -> ValidClues(read, out)
      [] a = "transform" -> ValidTransform(read, out)
      [] a = "qa" -> ValidReview(read, out)

-----------------------------------------------------------------------------
(* An agent's lock is held by the call that asks the model.                *)
AgentBusy(a) == \E t \in AgentThreads : agentCall[t].at = "asking" /\ agentCall[t].agent = a

(* _definition(): the last version, registered when there is none; one     *)
(* with tools is refused.                                                  *)
Usable(a) == definitions[a] # <<>> => Last(definitions[a]).safe
Defined(a) == IF definitions[a] = <<>> THEN [definitions EXCEPT ![a] = <<SafeDefinition>>] ELSE definitions

Asks(t, a, k, request, read) ==
    /\ agentCall[t] = NotAsking /\ ~AgentBusy(a)
    /\ agentKept[a][k] = NotKept
    /\ Usable(a) /\ Len(agentRuns) < MaxAgentRuns
    /\ definitions' = Defined(a)
    /\ agentCall' = [agentCall EXCEPT ![t] = [at |-> "asking", agent |-> a, key |-> k, request |-> request,
                                              read |-> read, definition |-> Last(Defined(a)[a])]]
    /\ UNCHANGED <<supply, agentRuns, agentKept, ledger>>

AskResearch(t, k, sources) ==
    /\ SourcesFit(sources, supply["research"])
    /\ Asks(t, "research", k, sources, ExcerptsOf(sources, supply["research"]))
    /\ UNCHANGED reviewed

AskRights(t, k, excerpts) ==
    /\ ExcerptsKnown(excerpts, supply["rights"])
    /\ Asks(t, "rights", k, excerpts, excerpts)
    /\ UNCHANGED reviewed

AskTransform(t, k, terms) ==
    /\ TermsFit(terms, supply["transform"])
    /\ Asks(t, "transform", k, terms, [terms |-> terms, given |-> supply["transform"]])
    /\ UNCHANGED reviewed

(* The checker, which has keys of its own, is asked before the model, and  *)
(* refuses one it was asked something else under.                          *)
ReportOn(k, subject) == IF reviewed[k] = NotKept THEN [run |-> 1, request |-> subject, report |-> supply["qa"]] ELSE reviewed[k]
AskReview(t, k, subject) ==
    LET told == ReportOn(k, subject) IN
    /\ told.request = subject
    /\ reviewed' = [reviewed EXCEPT ![k] = told]
    /\ \/ told.report.ours /\ Asks(t, "qa", k, subject, told.report)
       \/ /\ ~told.report.ours \/ ~Usable("qa")
          /\ agentCall[t] = NotAsking /\ ~AgentBusy("qa") /\ agentKept["qa"][k] = NotKept
          /\ UNCHANGED <<definitions, supply, agentCall, agentRuns, agentKept, ledger>>

(* plan() before its lock: the brief, the definition, and the next version *)
(* to register one under, which another thread may take first.             *)
PlanReads(t, k, goal) ==
    LET brief == supply["planner"] IN
    /\ agentCall[t] = NotAsking
    /\ brief.status \in {"locked", "approved"} /\ Usable("planner")
    /\ agentCall' = [agentCall EXCEPT ![t] =
           [at |-> IF definitions["planner"] = <<>> THEN "undefined" ELSE "defined",
            agent |-> "planner", key |-> k, request |-> [goal |-> goal, hash |-> brief.hash], read |-> brief, version |-> 0,
            definition |-> IF definitions["planner"] = <<>> THEN SafeDefinition ELSE Last(definitions["planner"])]]
    /\ UNCHANGED <<definitions, supply, agentRuns, agentKept, ledger, reviewed>>

PlanCounts(t) ==
    /\ agentCall[t].at = "undefined"
    /\ agentCall' = [agentCall EXCEPT ![t] = [@ EXCEPT !.at = "counted", !.version = Len(definitions["planner"]) + 1]]
    /\ UNCHANGED <<definitions, supply, agentRuns, agentKept, ledger, reviewed>>

PlanRegisters(t) ==
    /\ agentCall[t].at = "counted"
    /\ definitions' = [definitions EXCEPT !["planner"] =
           IF agentCall[t].version \in DOMAIN @ THEN [@ EXCEPT ![agentCall[t].version] = SafeDefinition] ELSE Append(@, SafeDefinition)]
    /\ agentCall' = [agentCall EXCEPT ![t].at = "defined"]
    /\ UNCHANGED <<supply, agentRuns, agentKept, ledger, reviewed>>

PlanAsks(t) ==
    /\ agentCall[t].at = "defined" /\ ~AgentBusy("planner")
    /\ Len(agentRuns) < MaxAgentRuns
    /\ agentCall' = [agentCall EXCEPT ![t] =
           IF agentKept["planner"][agentCall[t].key] = NotKept THEN [@ EXCEPT !.at = "asking"] ELSE NotAsking]
    /\ UNCHANGED <<definitions, supply, agentRuns, agentKept, ledger, reviewed>>

-----------------------------------------------------------------------------
(* The runner asks the model, once.  A run the model or the answer fails   *)
(* is recorded as failed, unless the model raises what the runner does not *)
(* expect; nothing else of it is kept.                                     *)
AgentRun(call, status, out) ==
    [agent |-> call.agent, key |-> call.key, request |-> call.request, read |-> call.read,
     safe |-> call.definition.safe, status |-> status, output |-> out]

ModelFails(t, expected) ==
    /\ agentCall[t].at = "asking"
    /\ agentCall' = [agentCall EXCEPT ![t] = NotAsking]
    /\ agentRuns' = IF expected THEN Append(agentRuns, AgentRun(agentCall[t], "failed", "none")) ELSE agentRuns
    /\ UNCHANGED <<definitions, supply, agentKept, ledger, reviewed>>

(* needs_review is fixed in the answers of all agents but the planner.     *)
RunStatus(a, out) == IF a = "planner" /\ out.sure THEN "succeeded" ELSE "needs_review"

ModelAnswered(t, out) ==
    LET call == agentCall[t]
        made == Len(agentRuns) + 1 IN
    /\ call.at = "asking"
    /\ agentCall' = [agentCall EXCEPT ![t] = NotAsking]
    /\ IF ValidAnswer(call.agent, call.read, out)
       THEN /\ agentRuns' = Append(agentRuns, AgentRun(call, RunStatus(call.agent, out), out))
            /\ agentKept' = [agentKept EXCEPT ![call.agent][call.key] = [run |-> made, request |-> call.request]]
            /\ ledger' = Append(ledger, made)
       ELSE /\ agentRuns' = Append(agentRuns, AgentRun(call, "failed", out))
            /\ UNCHANGED <<agentKept, ledger>>
    /\ UNCHANGED <<definitions, supply, reviewed>>

(* The calls of one agent.                                                 *)
AgentAsks(a) ==
    \E t \in AgentThreads, k \in AgentKeys, request \in AgentRequests[a] :
        \/ a = "research" /\ AskResearch(t, k, request)
        \/ a = "rights" /\ AskRights(t, k, request)
        \/ a = "transform" /\ AskTransform(t, k, request)
        \/ a = "qa" /\ AskReview(t, k, request)
        \/ a = "planner" /\ (PlanReads(t, k, request) \/ PlanCounts(t) \/ PlanRegisters(t) \/ PlanAsks(t))

AgentNext(a) ==
    \/ SupplyChanges(a)
    \/ \E safe \in BOOLEAN : RegisterAgent(a, safe)
    \/ AgentAsks(a)
    \/ \E t \in AgentThreads, expected \in BOOLEAN : ModelFails(t, expected)
    \/ \E t \in AgentThreads, out \in ModelAnswers[a] : ModelAnswered(t, out)

-----------------------------------------------------------------------------
AgentTypeOK ==
    /\ \A a \in Agents : Len(definitions[a]) <= MaxDefinitions + Cardinality(AgentThreads)
    /\ \A t \in AgentThreads : agentCall[t].at \in {"idle", "undefined", "counted", "defined", "asking"}
    /\ \A n \in DOMAIN agentRuns : agentRuns[n].status \in {"succeeded", "needs_review", "failed"}

(* A result is of one run, which answered its request under a definition   *)
(* without tools, every run that did not fail is the result of its key,    *)
(* and the ledger has each of those once, and no other.                    *)
ResultsBacked ==
    /\ \A a \in Agents, k \in AgentKeys : agentKept[a][k] # NotKept =>
         LET n == agentKept[a][k].run IN
         /\ n \in DOMAIN agentRuns
         /\ agentRuns[n].agent = a /\ agentRuns[n].key = k /\ agentRuns[n].request = agentKept[a][k].request
         /\ agentRuns[n].status # "failed" /\ agentRuns[n].safe
    /\ \A n \in DOMAIN agentRuns : agentRuns[n].status # "failed" =>
         /\ agentKept[agentRuns[n].agent][agentRuns[n].key].run = n
         /\ \E i \in DOMAIN ledger : ledger[i] = n
    /\ \A i \in DOMAIN ledger : ledger[i] \in DOMAIN agentRuns /\ agentRuns[ledger[i]].status # "failed"
    /\ \A i, j \in DOMAIN ledger : ledger[i] = ledger[j] => i = j

(* A result holds to what was read, whatever that has become meanwhile: a  *)
(* plan is of a brief that was locked and can be carried out step by step, *)
(* a fact is quoted from a source that was asked about, a clue from an     *)
(* excerpt of the rights, a transformed text keeps its claims in place and *)
(* every term, number, code and link as often as it stood there, and a     *)
(* review asks for people exactly when the report did not pass.            *)
ResultHeld(r) ==
    CASE r.agent = "planner" ->
           /\ r.read.status \in {"locked", "approved"} /\ r.request.hash = r.read.hash
           /\ \A some \in SUBSET KeysOf(r.output.steps) : some # {} =>
                \E n \in DOMAIN r.output.steps : r.output.steps[n].key \in some /\ r.output.steps[n].about \cap some = {}
      [] r.agent = "research" -> \A n \in DOMAIN r.output.facts : \A c \in r.output.facts[n].cites : c[1] \in r.request /\ c \in r.read
      [] r.agent = "rights" ->
           /\ \A n \in DOMAIN r.output.clues : r.output.clues[n].cites \in r.request
           /\ \A n \in DOMAIN r.output.scopes : \A k \in r.output.scopes[n].about :
                \E i \in DOMAIN r.output.clues : r.output.clues[i].key = k
      [] r.agent = "transform" ->
           /\ [n \in DOMAIN r.output.blocks |-> r.output.blocks[n].claim] = [n \in DOMAIN r.read.given.sections |-> r.read.given.sections[n].claim]
           /\ ~r.read.given.withdrawn
           /\ \A n \in DOMAIN r.output.blocks :
                /\ \A l \in Literals : r.output.blocks[n].words[l] >= r.read.given.sections[n].words[l]
                /\ \A m \in r.request : m.section = r.output.blocks[n].key =>
                     r.output.blocks[n].words[m.to] >= r.read.given.sections[n].words[m.from]
      [] r.agent = "qa" ->
           /\ (r.output.tasks # <<>>) = (r.read.status # "passed")
           /\ \A n \in DOMAIN r.output.findings : \E i \in DOMAIN r.read.findings : r.output.findings[n].code = r.read.findings[i]
           /\ \A n \in DOMAIN r.output.tasks : \A k \in r.output.tasks[n].about :
                \E i \in DOMAIN r.output.findings : r.output.findings[i].key = k
           /\ \A k \in AgentKeys : reviewed[k] # NotKept /\ r.key = k => reviewed[k].report = r.read

AgentsHeld == \A n \in DOMAIN agentRuns : agentRuns[n].status # "failed" => ResultHeld(agentRuns[n])
=============================================================================

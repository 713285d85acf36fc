------------------------------- MODULE Topics -------------------------------
(***************************************************************************)
(* What is worth writing about: signals are imported, scored into          *)
(* opportunities, shortlisted, planned and turned into briefs, under a     *)
(* taxonomy of topics.                                                     *)
(*                                                                         *)
(* Opportunities, editorial plans and briefs share one connection and one  *)
(* lock, so each command is a step; the version a caller must name is the  *)
(* one it finds, and a repeated key, answered from the command table,      *)
(* changes nothing.  The taxonomy is read before its lock is taken.        *)
(***************************************************************************)
EXTENDS Naturals, Sequences, FiniteSets, SequencesExt

CONSTANTS
    TopicSignals,  \* signals, by what they are deduplicated on
    UsableSignals, \* those with verified rights, evidence and a use that allows publication
    Batches,       \* the batches imported, each a sequence of rows [signal, valid]
    TopicNames,    \* canonical topics
    Planners,      \* people who write, approve and edit
    BriefTexts,    \* the contents sent, by name: [plan, claims], sequences of
                   \* [key, required, refs] and of [key, needs]
    TaxKeys,       \* keys of the taxonomy
    MaxImports, MaxOpps, MaxOppVersions, MaxPlans, MaxBriefs, MaxTaxChanges \* bounds

ASSUME TopicAssumption == UsableSignals \subseteq TopicSignals

VARIABLES
    stored,     \* signals in the table
    imports,    \* the answers given to the batches, row by row
    opps,       \* opportunities [topic, signals, status, version, eligible, over, plan]
    stateLog,   \* the state events of each opportunity
    plans,      \* editorial plans [opp, number, status]
    briefs,     \* versions of briefs [opp, number, status, author, content]
    taxonomy,   \* taxonomies [key, status, version]
    taxLog,     \* the changes the table has taken, [id, before, after]
    copies      \* editor -> the row it read before it waits for the lock

oppVars == <<opps, stateLog, plans, briefs>>
taxVars == <<taxonomy, taxLog, copies>>
topicVars == <<stored, imports, oppVars, taxVars>>

Opps == DOMAIN opps
NoCopy == [id |-> 0]

TopicInit(known) ==
    /\ stored = known /\ imports = <<>>
    /\ opps = <<>> /\ stateLog = <<>> /\ plans = <<>> /\ briefs = <<>>
    /\ taxonomy = <<>> /\ taxLog = <<>>
    /\ copies = [p \in Planners |-> NoCopy]

-----------------------------------------------------------------------------
(* Signals.                                                                *)

(* What a row of a batch is answered: one that is not valid is rejected,   *)
(* one whose signal is there, also from an earlier row, is a duplicate.    *)
RowAnswer(batch, i) ==
    IF ~batch[i].valid THEN "rejected"
    ELSE IF \/ batch[i].signal \in stored
            \/ \E j \in 1 .. i - 1 : batch[j].valid /\ batch[j].signal = batch[i].signal
         THEN "duplicate" ELSE "accepted"

ImportBatch(batch) ==
    /\ Len(imports) < MaxImports
    /\ imports' = Append(imports, [i \in DOMAIN batch |->
                      [signal |-> batch[i].signal, answer |-> RowAnswer(batch, i)]])
    /\ stored' = stored \cup {batch[i].signal : i \in {j \in DOMAIN batch : batch[j].valid}}
    /\ UNCHANGED <<oppVars, taxVars>>

-----------------------------------------------------------------------------
(* Opportunities.                                                          *)

Live(o) == opps[o].status \in {"proposed", "shortlisted"} /\ ~opps[o].over

Score(topic, signals) ==
    /\ Len(opps) < MaxOpps
    /\ signals # {} /\ signals \subseteq stored
    /\ \A o \in Opps : opps[o].topic = topic => ~Live(o)
    /\ opps' = Append(opps, [topic |-> topic, signals |-> signals, status |-> "proposed", version |-> 0,
                             eligible |-> signals \subseteq UsableSignals, over |-> FALSE, plan |-> 0])
    /\ stateLog' = Append(stateLog, <<>>)
    /\ UNCHANGED <<stored, imports, plans, briefs, taxVars>>

(* The clock passes expires_at.                                            *)
OppOver(o) ==
    /\ ~opps[o].over
    /\ opps' = [opps EXCEPT ![o].over = TRUE]
    /\ UNCHANGED <<stored, imports, stateLog, plans, briefs, taxVars>>

Versioned(o) == opps[o].version < MaxOppVersions

Shortlist(o) ==
    /\ Versioned(o)
    /\ ~opps[o].over /\ opps[o].status = "proposed" /\ opps[o].eligible
    /\ opps' = [opps EXCEPT ![o].status = "shortlisted", ![o].version = @ + 1]
    /\ UNCHANGED <<stored, imports, stateLog, plans, briefs, taxVars>>

TargetOf == [reject |-> "rejected", defer |-> "deferred", expire |-> "expired", resume |-> "proposed"]

Allowed(status) ==
    CASE status \in {"proposed", "shortlisted"} -> {"reject", "defer", "expire"}
      [] status = "deferred" -> {"reject", "expire", "resume"}
      [] OTHER -> {}

InForce(b) == briefs[b].status \in {"locked", "approved"}

(* A broken variant: a brief in force does not hold its opportunity.       *)
UnheldAlways(o) == TRUE

(* No brief of the opportunity is in force.                                *)
Unheld(o) == \A b \in DOMAIN briefs : briefs[b].opp = o => ~InForce(b)

(* Whatever made it ineligible, an opportunity that is resumed is eligible *)
(* again; neither its expiry nor another one of its topic is looked at.    *)
TransitionOpp(o, action) ==
    LET to == TargetOf[action]
    IN  /\ Versioned(o)
        /\ action \in Allowed(opps[o].status) /\ Unheld(o)
        /\ opps' = [opps EXCEPT ![o].status = to, ![o].version = @ + 1, ![o].eligible = (to = "proposed")]
        /\ stateLog' = [stateLog EXCEPT ![o] = Append(@,
               [from |-> opps[o].status, to |-> to, version |-> opps[o].version + 1])]
        /\ UNCHANGED <<stored, imports, plans, briefs, taxVars>>

ActivePlans(o) == {p \in DOMAIN plans : plans[p].opp = o /\ plans[p].status = "active"}

Schedule(o, override) ==
    LET active == ActivePlans(o)
        old == CHOOSE p \in active : \A q \in active : plans[q].number <= plans[p].number
        number == IF active = {} THEN 1 ELSE plans[old].number + 1
    IN  /\ Versioned(o) /\ Len(plans) < MaxPlans
        /\ ~opps[o].over
        /\ active # {} => override
        /\ plans' = Append([p \in DOMAIN plans |->
                               IF active # {} /\ p = old THEN [plans[p] EXCEPT !.status = "superseded"] ELSE plans[p]],
                           [opp |-> o, number |-> number, status |-> "active"])
        /\ opps' = [opps EXCEPT ![o].plan = Len(plans) + 1, ![o].version = @ + 1]
        /\ UNCHANGED <<stored, imports, stateLog, briefs, taxVars>>

-----------------------------------------------------------------------------
(* Briefs.                                                                 *)

BriefRow(o, number, status, author, body) ==
    [opp |-> o, number |-> number, status |-> status, author |-> author, content |-> body]

(* _content(): there are plans and claims, none twice, and each claim      *)
(* needs plans that are there.                                             *)
RowKeys(rows) == {rows[i].key : i \in DOMAIN rows}
WellFormed(text) ==
    /\ text.plan # <<>> /\ text.claims # <<>>
    /\ Cardinality(RowKeys(text.plan)) = Len(text.plan) /\ Cardinality(RowKeys(text.claims)) = Len(text.claims)
    /\ \A i \in DOMAIN text.claims :
          text.claims[i].needs # {} /\ text.claims[i].needs \subseteq RowKeys(text.plan)

(* _ensure_complete(): nothing that was asked for is gone.                 *)
Complete(text) == text.plan # <<>> /\ text.claims # <<>>

CreateBrief(o, author, body) ==
    /\ Len(briefs) < MaxBriefs
    /\ WellFormed(BriefTexts[body])
    /\ \A b \in DOMAIN briefs : briefs[b].opp # o
    /\ briefs' = Append(briefs, BriefRow(o, 1, "draft", author, body))
    /\ UNCHANGED <<stored, imports, opps, stateLog, plans, taxVars>>

BriefEligible(o) == ~opps[o].over /\ opps[o].status = "shortlisted"

EvidenceThere(text) == \A i \in DOMAIN text.plan : text.plan[i].required => text.plan[i].refs # {}

(* The policy gate, which may refuse any of these, is left out.            *)
CheckLock(o, body) == BriefEligible(o) /\ EvidenceThere(BriefTexts[body])

Settle(b, status) ==
    /\ briefs[b].status = "draft" /\ CheckLock(briefs[b].opp, briefs[b].content)
    /\ briefs' = [briefs EXCEPT ![b].status = status]
    /\ UNCHANGED <<stored, imports, opps, stateLog, plans, taxVars>>

LockBrief(b) == Settle(b, "locked")
ApproveBrief(b, actor) ==
    actor # briefs[b].author /\ Complete(BriefTexts[briefs[b].content]) /\ Settle(b, "approved")

(* A locked version is followed by a locked one, an approved one by a      *)
(* draft.                                                                  *)
SupersedeBrief(b, actor, body) ==
    LET o == briefs[b].opp
    IN  /\ Len(briefs) < MaxBriefs
        /\ InForce(b) /\ WellFormed(BriefTexts[body])
        /\ \A c \in DOMAIN briefs : briefs[c].opp = o => briefs[c].number <= briefs[b].number
        /\ BriefEligible(o)
        /\ briefs[b].status = "locked" => CheckLock(o, body)
        /\ briefs' = Append([briefs EXCEPT ![b].status = "superseded"],
                            BriefRow(o, briefs[b].number + 1,
                                     IF briefs[b].status = "locked" THEN "locked" ELSE "draft", actor, body))
        /\ UNCHANGED <<stored, imports, opps, stateLog, plans, taxVars>>

-----------------------------------------------------------------------------
(* The taxonomy.                                                           *)

KeyTaken(key) == \E i \in DOMAIN taxonomy : taxonomy[i].key = key

CreateTaxonomy(key) ==
    /\ Len(taxLog) < MaxTaxChanges
    /\ ~KeyTaken(key)
    /\ taxonomy' = Append(taxonomy, [key |-> key, status |-> "draft", version |-> 0])
    /\ taxLog' = Append(taxLog, [id |-> Len(taxonomy) + 1, before |-> <<>>, after |-> Last(taxonomy')])
    /\ UNCHANGED <<stored, imports, oppVars, copies>>

ReadTaxonomy(p, id) ==
    /\ copies[p] = NoCopy
    /\ copies' = [copies EXCEPT ![p] = [id |-> id, row |-> taxonomy[id]]]
    /\ UNCHANGED <<stored, imports, oppVars, taxonomy, taxLog>>

(* A row is replaced only while it has the version the copy was read at.   *)
Persist(p, id, row) ==
    /\ Len(taxLog) < MaxTaxChanges
    /\ taxonomy[id].version = row.version - 1
    /\ taxonomy' = [taxonomy EXCEPT ![id] = row]
    /\ taxLog' = Append(taxLog, [id |-> id, before |-> taxonomy[id], after |-> row])
    /\ copies' = [copies EXCEPT ![p] = NoCopy]
    /\ UNCHANGED <<stored, imports, oppVars>>

(* The copy, not the row, is compared with what the caller expects and     *)
(* looked at for its status.                                               *)
UpdateTaxonomy(p, key) ==
    LET row == copies[p].row
    IN  /\ copies[p] # NoCopy
        /\ row.status # "retired"
        /\ key # row.key => ~KeyTaken(key)
        /\ Persist(p, copies[p].id, [row EXCEPT !.key = key, !.version = @ + 1])

TaxTargets(status) ==
    CASE status = "draft" -> {"active", "retired"} [] status = "active" -> {"retired"} [] OTHER -> {}

TransitionTaxonomy(p, to) ==
    LET row == copies[p].row
    IN  /\ copies[p] # NoCopy
        /\ to \in TaxTargets(row.status)
        /\ Persist(p, copies[p].id, [row EXCEPT !.status = to, !.version = @ + 1])

ForgetCopy(p) ==
    /\ copies[p] # NoCopy
    /\ copies' = [copies EXCEPT ![p] = NoCopy]
    /\ UNCHANGED <<stored, imports, oppVars, taxonomy, taxLog>>

-----------------------------------------------------------------------------
SignalNext == \E batch \in Batches : ImportBatch(batch)

OppNext ==
    \/ \E t \in TopicNames, s \in SUBSET TopicSignals : Score(t, s)
    \/ \E o \in Opps :
        \/ OppOver(o) \/ Shortlist(o)
        \/ \E action \in DOMAIN TargetOf : TransitionOpp(o, action)

PlanNext == \E o \in Opps, override \in BOOLEAN : Schedule(o, override)

BriefNext ==
    \/ \E o \in Opps, p \in Planners, body \in DOMAIN BriefTexts : CreateBrief(o, p, body)
    \/ \E b \in DOMAIN briefs :
        \/ LockBrief(b)
        \/ \E p \in Planners :
            \/ ApproveBrief(b, p)
            \/ \E body \in DOMAIN BriefTexts : SupersedeBrief(b, p, body)

TaxNext ==
    \/ \E key \in TaxKeys : CreateTaxonomy(key)
    \/ \E p \in Planners :
        \/ \E id \in DOMAIN taxonomy : ReadTaxonomy(p, id)
        \/ \E key \in TaxKeys : UpdateTaxonomy(p, key)
        \/ \E to \in {"active", "retired"} : TransitionTaxonomy(p, to)
        \/ ForgetCopy(p)

-----------------------------------------------------------------------------
TopicTypeOK ==
    /\ stored \subseteq TopicSignals
    /\ \A o \in Opps : opps[o].version \in 0 .. MaxOppVersions /\ opps[o].plan \in 0 .. Len(plans)
    /\ DOMAIN stateLog = Opps
    /\ \A b \in DOMAIN briefs : briefs[b].opp \in Opps /\ briefs[b].number \in 1 .. MaxBriefs
    /\ DOMAIN copies = Planners

(* Each stored signal was taken in by exactly one row of one batch: rows   *)
(* and batches that overlap make one signal.                               *)
ImportedOnce ==
    imports # <<>> =>
        \A s \in stored :
            Cardinality({row \in (DOMAIN imports) \X (1 .. 3) :
                            /\ row[2] \in DOMAIN imports[row[1]]
                            /\ imports[row[1]][row[2]] = [signal |-> s, answer |-> "accepted"]}) = 1

Resumed(o) == \E n \in DOMAIN stateLog[o] : stateLog[o][n].to = "proposed"

(* A brief in force is the last version for its opportunity, which stays   *)
(* shortlisted under it.                                                   *)
BriefBacked ==
    \A b \in DOMAIN briefs : InForce(b) =>
        /\ opps[briefs[b].opp].status = "shortlisted"
        /\ \A c \in DOMAIN briefs : briefs[c].opp = briefs[b].opp => briefs[c].number <= briefs[b].number

(* But for those resumed, one opportunity of a topic is live, and what is  *)
(* shortlisted may be published.                                           *)
OneLive ==
    \A o \in Opps : ~Resumed(o) =>
        /\ opps[o].status = "shortlisted" => opps[o].signals \subseteq UsableSignals
        /\ \A q \in Opps \ {o} : Live(o) /\ Live(q) /\ opps[q].topic = opps[o].topic => Resumed(q)

(* The state events tell what became of an opportunity: each starts where  *)
(* the one before it ended, a shortlisting aside, and the last one ends    *)
(* where it is.                                                            *)
StatesTold ==
    \A o \in Opps :
        LET log == stateLog[o]
            ended(n) == IF n = 0 THEN "proposed" ELSE log[n].to
            follows(from, to) == to = from \/ (from = "proposed" /\ to = "shortlisted")
        IN  /\ \A n \in DOMAIN log : follows(ended(n - 1), log[n].from)
            /\ \A n, m \in DOMAIN log : n < m => log[n].version < log[m].version
            /\ follows(ended(Len(log)), opps[o].status)

(* An opportunity that was planned points at its one active plan, the last *)
(* of those numbered in order.                                             *)
PlanCurrent ==
    \A o \in Opps :
        LET own == {p \in DOMAIN plans : plans[p].opp = o}
        IN  /\ {plans[p].number : p \in own} = 1 .. Cardinality(own)
            /\ own # {} => ActivePlans(o) = {opps[o].plan} /\ plans[opps[o].plan].number = Cardinality(own)

(* No change of a taxonomy is lost: each starts from the row the one       *)
(* before it left, a retired row does not change, and a key names one row. *)
TaxonomyLinear ==
    /\ \A n \in DOMAIN taxLog : taxLog[n].before # <<>> =>
           /\ taxLog[n].before.status # "retired"
           /\ taxLog[n].after.version = taxLog[n].before.version + 1
           /\ taxLog[n].after.key = taxLog[n].before.key \/ taxLog[n].after.status = taxLog[n].before.status
    /\ \A i, j \in DOMAIN taxonomy : taxonomy[i].key = taxonomy[j].key => i = j
=============================================================================

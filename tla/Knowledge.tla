------------------------------ MODULE Knowledge ------------------------------
(***************************************************************************)
(* Claims, the evidence they rest on and a knowledge core that collects    *)
(* them in immutable versions (modules/knowledge/service.py and            *)
(* core_service.py), over the snapshots and rights of Provenance, whose    *)
(* tables the commands read in their own transaction.                      *)
(*                                                                         *)
(* A command carries the version it expects, so one formed on an older     *)
(* state changes nothing and is left out; so are events, the replay of an  *)
(* idempotency key, and the applicable regions, locales and dates. A claim *)
(* marked review_due or stale is due: nothing tells the two apart.         *)
(***************************************************************************)
EXTENDS Provenance

CONSTANTS
    Claims,         \* claims, all about the one entity
    ScopeOf,        \* fact type and entities of each claim
    StatementOf,    \* what each claim states
    Evidences,      \* pieces of evidence
    SnapshotOf,     \* the snapshot each quotes
    RightsOf,       \* the version of the rights record each cites (0: none)
    MaxCoreVersions \* bound on the versions of the core

NoClaim == "none"

ASSUME KnowledgeBounds ==
    /\ MaxCoreVersions \in Nat /\ NoClaim \notin Claims
    /\ SnapshotOf \in [Evidences -> Snapshots]
    /\ RightsOf \in [Evidences -> 0 .. MaxRights]

VARIABLES
    entity,    \* status of the entity
    claim,     \* status and freshness of each claim
    evidence,  \* status of each evidence and the claim in its own row
    links,     \* claim_evidences: which evidence was attached to which claim
    conflicts, \* conflict sets: their key and the claims they name
    core,      \* status of the core and whether it needs review
    facts      \* versions of the core, in order; the last one is current

knowVars == <<entity, claim, evidence, links, conflicts, core, facts>>

FactStates == {"draft", "needs_review", "verified"}
Exists(c) == claim[c].status # "none"
Known == {e \in Evidences : evidence[e].status # "none"}

KnowTypeOK ==
    /\ entity \in {"none", "draft", "active", "retired"}
    /\ claim \in [Claims -> [status : {"none", "draft", "verified", "withdrawn"},
                             fresh : {"fresh", "due", "withdrawn"}]]
    /\ evidence \in [Evidences -> [status : {"none", "captured", "valid", "expired", "revoked"},
                                   about : Claims \cup {NoClaim}]]
    /\ links \subseteq Claims \X Evidences
    /\ \A x \in conflicts : x.claims \subseteq Claims
    /\ core \in [status : {"none", "draft", "validated", "stale"}, review : BOOLEAN]
    /\ \A n \in DOMAIN facts :
          /\ facts[n].claims \in (SUBSET Claims) \ {{}} /\ facts[n].evidence \subseteq Evidences
          /\ facts[n].status \in FactStates

KnowInit ==
    /\ entity = "none"
    /\ claim = [c \in Claims |-> [status |-> "none", fresh |-> "fresh"]]
    /\ evidence = [e \in Evidences |-> [status |-> "none", about |-> NoClaim]]
    /\ links = {} /\ conflicts = {} /\ facts = <<>>
    /\ core = [status |-> "none", review |-> FALSE]

EntityStep ==
    /\ \/ entity = "none" /\ entity' = "draft"
       \/ entity = "draft" /\ entity' = "active"
       \/ entity = "active" /\ entity' = "retired"
    /\ UNCHANGED <<claim, evidence, links, conflicts, core, facts>>

CreateClaim(c) ==
    /\ ~Exists(c) /\ entity \notin {"none", "retired"}
    /\ claim' = [claim EXCEPT ![c].status = "draft"]
    /\ UNCHANGED <<entity, evidence, links, conflicts, core, facts>>

\* valid evidence attached to the claim, in the relation or in its own row
Supported(c) == \E e \in Evidences : evidence[e].status = "valid" /\ (<<c, e>> \in links \/ evidence[e].about = c)

VerifyClaim(c) ==
    /\ claim[c].status = "draft" /\ Supported(c)
    /\ claim' = [claim EXCEPT ![c].status = "verified"]
    /\ UNCHANGED <<entity, evidence, links, conflicts, core, facts>>

WithdrawClaim(c) ==
    /\ claim[c].status = "verified"
    /\ claim' = [claim EXCEPT ![c] = [status |-> "withdrawn", fresh |-> "withdrawn"]]
    /\ UNCHANGED <<entity, evidence, links, conflicts, core, facts>>

MarkFreshness(c, fresh) ==
    /\ claim[c].status = "verified"
    /\ claim' = [claim EXCEPT ![c].fresh = fresh]
    /\ UNCHANGED <<entity, evidence, links, conflicts, core, facts>>

MayReceive(c) == claim[c].status \notin {"none", "withdrawn"}

CreateEvidence(e, c) ==
    /\ evidence[e].status = "none"
    /\ snapshot[SnapshotOf[e]] \notin {"none"} \cup Terminal
    /\ c # NoClaim => MayReceive(c)
    /\ RightsOf[e] \in Versions \cup {0}
    /\ evidence' = [evidence EXCEPT ![e] = [status |-> "captured", about |-> c]]
    /\ links' = IF c = NoClaim THEN links ELSE links \cup {<<c, e>>}
    /\ UNCHANGED <<entity, claim, conflicts, core, facts>>

LinkEvidence(c, e) ==
    /\ MayReceive(c) /\ evidence[e].status # "none"
    /\ links' = links \cup {<<c, e>>}
    /\ evidence' = IF evidence[e].about = NoClaim THEN [evidence EXCEPT ![e].about = c] ELSE evidence
    /\ UNCHANGED <<entity, claim, conflicts, core, facts>>

RightsVerified(v) == rights[v].status = "verified"

MayValidate(e) ==
    /\ snapshot[SnapshotOf[e]] = "usable"
    /\ RightsOf[e] # 0 => RightsVerified(RightsOf[e])

EvidenceStep(e, to) ==
    /\ \/ evidence[e].status = "captured" /\ to = "valid" /\ MayValidate(e)
       \/ evidence[e].status = "valid" /\ to \in {"expired", "revoked"}
    /\ evidence' = [evidence EXCEPT ![e].status = to]
    /\ UNCHANGED <<entity, claim, links, conflicts, core, facts>>

\* _relation_evidence(): the relation, or the evidence's own row where it has none
Related(c) ==
    LET linked == {e \in Evidences : <<c, e>> \in links}
    IN IF linked # {} THEN linked ELSE {e \in Evidences : evidence[e].about = c}

\* _scope(): evidence not given by the caller is collected from the claims
Collected(claims, given) == IF given # {} THEN given ELSE UNION {Related(c) : c \in claims}

\* claims of one scope that state different things, and a group the caller declares
ConflictGroups(claims, declared) ==
    {[key |-> {ScopeOf[c]}, claims |-> {d \in claims : ScopeOf[d] = ScopeOf[c]}] :
        c \in {x \in claims : \E y \in claims : ScopeOf[x] = ScopeOf[y] /\ StatementOf[x] # StatementOf[y]}}
    \cup {[key |-> g, claims |-> g] : g \in {h \in declared : Cardinality(h) > 1}}

\* a set whose key exists is used as it is
WithConflicts(groups) == conflicts \cup {g \in groups : \A x \in conflicts : x.key # g.key}

AddFacts(claims, given, status, declared) ==
    /\ Len(facts) < MaxCoreVersions
    /\ facts' = Append(facts, [claims |-> claims, evidence |-> given, status |-> status, keys |-> declared])

NewFacts(claims, given, declared, status) ==
    LET groups == ConflictGroups(claims, declared)
    IN /\ claims # {} /\ \A c \in claims : Exists(c)
       /\ AddFacts(claims, given, IF groups = {} THEN "draft" ELSE "needs_review", {g.key : g \in groups})
       /\ conflicts' = WithConflicts(groups)
       /\ core' = [status |-> status, review |-> groups # {}]

\* the claims' evidence is read before the lock is taken: what is linked by
\* then may be missing from the list
CreateCore(claims, given, declared) ==
    /\ core.status = "none"
    /\ NewFacts(claims, given, declared, "draft")
    /\ UNCHANGED <<entity, claim, evidence, links>>

RefreshCore(claims, given, declared) ==
    /\ core.status # "none"
    /\ NewFacts(claims, Collected(claims, given), declared, "stale")
    /\ UNCHANGED <<entity, claim, evidence, links>>

Backs(e) ==
    /\ evidence[e].status = "valid" /\ RightsOf[e] # 0
    /\ snapshot[SnapshotOf[e]] = "usable"
    /\ RightsVerified(RightsOf[e]) /\ ~rights[RightsOf[e]].over

ContentsValid(version) ==
    /\ version.keys = {}
    /\ \A c \in version.claims :
          /\ claim[c] = [status |-> "verified", fresh |-> "fresh"]
          /\ \E e \in Related(c) \cap version.evidence : Backs(e)

\* a new version with the same contents
ValidateCore ==
    /\ facts # <<>>
    /\ LET current == facts[Len(facts)]
       IN ContentsValid(current) /\ AddFacts(current.claims, current.evidence, "verified", {})
    /\ core' = [status |-> "validated", review |-> FALSE]
    /\ UNCHANGED <<entity, claim, evidence, links, conflicts>>

ClaimNext ==
    \/ EntityStep
    \/ \E c \in Claims :
          \/ CreateClaim(c) \/ VerifyClaim(c) \/ WithdrawClaim(c)
          \/ \E fresh \in {"fresh", "due"} : MarkFreshness(c, fresh)
          \/ \E e \in Evidences : LinkEvidence(c, e)
    \/ \E e \in Evidences :
          \/ \E c \in Claims \cup {NoClaim} : CreateEvidence(e, c)
          \/ \E to \in {"valid", "expired", "revoked"} : EvidenceStep(e, to)

CoreNext ==
    \/ \E claims \in SUBSET Claims, given \in SUBSET Known, declared \in SUBSET {Claims} :
          CreateCore(claims, given, declared) \/ RefreshCore(claims, given, declared)
    \/ ValidateCore

KnowNext == ClaimNext \/ CoreNext

Once(status) == status \notin {"none", "draft", "pending", "captured", "quarantined"}

(***************************************************************************)
(* What a verified version of the core says was grounded: its claims were  *)
(* verified and do not contradict each other, each was verified on         *)
(* evidence that had been valid, whose snapshot had been usable and whose  *)
(* rights, which it must have, had been verified, whatever was withdrawn,  *)
(* expired, relinked or refreshed in between and since.                    *)
(***************************************************************************)
FactsGrounded ==
    /\ \A e \in Evidences : Once(evidence[e].status) =>
          /\ snapshot[SnapshotOf[e]] \in {"usable"} \cup Terminal
          /\ RightsOf[e] # 0 => Once(rights[RightsOf[e]].status)
    /\ \A c \in Claims : Once(claim[c].status) =>
          \E e \in Evidences : Once(evidence[e].status) /\ (<<c, e>> \in links \/ evidence[e].about = c)
    /\ \A n \in DOMAIN facts : facts[n].status = "verified" =>
          /\ \A c, d \in facts[n].claims : ScopeOf[c] = ScopeOf[d] => StatementOf[c] = StatementOf[d]
          /\ \A c \in facts[n].claims : Once(claim[c].status) /\
                \E e \in facts[n].evidence : RightsOf[e] # 0 /\ Once(evidence[e].status) /\ <<c, e>> \in links
    /\ core.review <=> facts # <<>> /\ facts[Len(facts)].keys # {}
=============================================================================

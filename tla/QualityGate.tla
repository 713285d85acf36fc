---------------------------- MODULE QualityGate ----------------------------
(***************************************************************************)
(* What a variant has to pass (modules/qa): the check of its facts against *)
(* its source, claims and evidence; the check of its likeness, disclosures *)
(* and rights; and the sandbox its code is run in.  Every report is given  *)
(* under a key, which answers the same request as before and refuses       *)
(* another; neither changes anything.                                      *)
(*                                                                         *)
(* A report fails on an error, needs a review on a warning, and passes     *)
(* when there is neither.  The ports, and the executor of the sandbox, are *)
(* outside: they answer as they like or raise.                             *)
(*                                                                         *)
(* Left out: schemas, tokens and scores beyond what they are found to be;  *)
(* what a command or a file must not hold beyond that it does; the audit.  *)
(***************************************************************************)
EXTENDS Integers, FiniteSets

CONSTANTS
    FactQuestions,    \* what the first check is asked with
    RightsQuestions,  \* what the second check is asked with
    SandboxKeys,      \* idempotency keys of the sandbox
    SandboxRequests,  \* [inputs, limit, allowed]: files, image and commands; how long
                      \* they may take; whether the list of the task holds the commands
    MaxLimit          \* the longest the service allows

ASSUME QualityBounds == MaxLimit \in Nat /\ \A r \in SandboxRequests : r.limit \in Nat

VARIABLES
    factReport,   \* the question of a report of the first check, and its findings
    rightsReport, \* the same of the second
    sandboxRun,   \* key -> the request answered under it and the run
    kept,         \* inputs -> the run that is kept of them
    ranCommands   \* history: runs of commands, each with what came of it

qualityVars == <<factReport, rightsReport, sandboxRun, kept, ranCommands>>

NotReported == [status |-> "none"]
ReportStatus(findings) ==
    IF "error" \in findings THEN "failed" ELSE IF "warning" \in findings THEN "needs_review" ELSE "passed"
Finding(condition, finding) == IF condition THEN {finding} ELSE {}
OutOfTime(x, now) == now < x.from \/ now >= x.to
ReviewDue(x, now) == now >= x.review

-----------------------------------------------------------------------------
(* check_variant(): a claim is verified, of its time, and about this text; *)
(* evidence is usable and whole, of its time, and about a claim.           *)
ClaimFaults(c, now) ==
    Finding(c.status # "verified" \/ c.fresh = "stale" \/ OutOfTime(c, now) \/ ~c.here, "error")
    \cup Finding(c.fresh = "review_due" \/ (ReviewDue(c, now) /\ c.fresh # "stale"), "warning")

EvidenceFaults(e, claims, now) ==
    Finding(e.status \notin {"captured", "valid"} \/ OutOfTime(e, now) \/ ~e.whole, "error")
    \cup Finding(e.status \in {"captured", "valid"} /\ ReviewDue(e, now), "warning")
    \cup Finding(e.about # "none" /\ e.about \notin claims, "error")

TermFaults(port) ==
    CASE port \in {"none", "fine"} -> {}
      [] port \in {"raises", "warns"} -> {"warning"}
      [] port = "objects" -> {"error"}

\* q: [now, live, counts, claims: name -> claim, evidence, mapped, terms]
FactFaults(q) ==
    LET names == DOMAIN q.claims IN
    Finding(~q.live, "error")
    \cup Finding(\E t \in DOMAIN q.counts.source : q.counts.source[t] # q.counts.variant[t], "error")
    \cup UNION {ClaimFaults(q.claims[c], q.now) : c \in names}
    \cup UNION {EvidenceFaults(e, names, q.now) : e \in q.evidence}
    \cup Finding(\E c \in names : c \notin q.mapped \/ ~\E e \in q.evidence : e.about = c, "error")
    \cup TermFaults(q.terms)

CheckFacts(q) ==
    /\ factReport = NotReported
    /\ factReport' = [status |-> ReportStatus(FactFaults(q)), question |-> q]
    /\ UNCHANGED <<rightsReport, sandboxRun, kept, ranCommands>>

-----------------------------------------------------------------------------
(* check_variant() of qa-002: a version of the rights that covers the use  *)
(* is enough, and one that is not well formed is an error besides.         *)
RightsAllow(r, q) ==
    /\ r.wellFormed /\ r.status = "verified" /\ ~OutOfTime(r, q.now)
    /\ r.place = q.place /\ r.use >= q.use

RightsFaults(q) ==
    Finding(\E r \in q.rights : ~r.wellFormed, "error")
    \cup Finding((q.required \/ q.rights # {}) /\ ~\E r \in q.rights : RightsAllow(r, q), "error")
    \cup (IF q.port = "none" \/ (q.rights = {} /\ ~q.required) THEN {}
          ELSE CASE q.port = "raises" -> {"warning"} [] q.port = "blocks" -> {"error"} [] OTHER -> {})

(* Likeness to the source, to other variants and within; the port may      *)
(* raise or give no score, and then nothing is compared with the source.   *)
LikenessFaults(q) ==
    Finding(q.score = "raises" \/ q.score = "invalid", "warning")
    \cup Finding(q.score = "low", "error")
    \cup Finding(q.twin \/ q.repeats, "error")

DisclosureFaults(q) == Finding((q.ai /\ ~q.saysAi) \/ (q.ad /\ ~q.saysAd), "error")

UseFaults(q) ==
    Finding(~q.live, "error") \cup LikenessFaults(q) \cup DisclosureFaults(q) \cup RightsFaults(q)

CheckUse(q) ==
    /\ rightsReport = NotReported
    /\ rightsReport' = [status |-> ReportStatus(UseFaults(q)), question |-> q]
    /\ UNCHANGED <<factReport, sandboxRun, kept, ranCommands>>

-----------------------------------------------------------------------------
NotRun == [status |-> "none"]
SandboxBlocks(r) == ~r.allowed \/ r.limit > MaxLimit

AnswerRun(k, r, status, again, id) ==
    sandboxRun' = [sandboxRun EXCEPT ![k] = [request |-> r, status |-> status, reproducible |-> again, id |-> id]]

(* run(): a request with a command that is not on the list, or with a      *)
(* limit beyond the longest, starts nothing; inputs that were run before   *)
(* have the run that is kept, whatever its limit was; and the rest is      *)
(* executed, all under one lock.                                           *)
BlockRun(k, r) ==
    /\ sandboxRun[k] = NotRun /\ SandboxBlocks(r)
    /\ AnswerRun(k, r, "blocked", FALSE, k)
    /\ UNCHANGED <<factReport, rightsReport, kept, ranCommands>>

ReuseRun(k, r) ==
    /\ sandboxRun[k] = NotRun /\ ~SandboxBlocks(r) /\ kept[r.inputs] # NotRun
    /\ AnswerRun(k, r, kept[r.inputs].status, TRUE, kept[r.inputs].id)
    /\ UNCHANGED <<factReport, rightsReport, kept, ranCommands>>

ExecuteRun(k, r, status) ==
    /\ sandboxRun[k] = NotRun /\ ~SandboxBlocks(r) /\ kept[r.inputs] = NotRun
    /\ AnswerRun(k, r, status, FALSE, k)
    /\ kept' = [kept EXCEPT ![r.inputs] = [status |-> status, id |-> k]]
    /\ ranCommands' = ranCommands \cup {[request |-> r, status |-> status, id |-> k]}
    /\ UNCHANGED <<factReport, rightsReport>>

(* The executor raises: nothing is kept, though commands may have run.     *)
ExecutorRaises(k, r) ==
    /\ sandboxRun[k] = NotRun /\ ~SandboxBlocks(r) /\ kept[r.inputs] = NotRun
    /\ ranCommands' = ranCommands \cup {[request |-> r, status |-> "raised", id |-> "none"]}
    /\ UNCHANGED <<factReport, rightsReport, sandboxRun, kept>>

QualityInit ==
    /\ factReport = NotReported /\ rightsReport = NotReported
    /\ sandboxRun = [k \in SandboxKeys |-> NotRun] /\ ranCommands = {}
    /\ kept = [i \in {r.inputs : r \in SandboxRequests} |-> NotRun]

FactsNext == factReport = NotReported /\ \E q \in FactQuestions : CheckFacts(q)
UseNext == rightsReport = NotReported /\ \E q \in RightsQuestions : CheckUse(q)
SandboxNext ==
    \E k \in SandboxKeys, r \in SandboxRequests :
        \/ BlockRun(k, r) \/ ReuseRun(k, r) \/ ExecutorRaises(k, r)
        \/ \E status \in {"passed", "failed", "timed_out"} : ExecuteRun(k, r, status)

-----------------------------------------------------------------------------
QualityTypeOK ==
    /\ factReport.status \in {"none", "passed", "needs_review", "failed"}
    /\ rightsReport.status \in {"none", "passed", "needs_review", "failed"}
    /\ \A k \in SandboxKeys : sandboxRun[k].status \in {"none", "blocked", "passed", "failed", "timed_out"}

(* A variant passes only on what it says itself and its source says alike, *)
(* and on claims that evidence of the same moment stands behind; and not   *)
(* when a port could not be asked.                                         *)
PassedGrounded ==
    factReport.status = "passed" =>
        LET q == factReport.question IN
        /\ q.counts.source = q.counts.variant /\ q.terms \in {"none", "fine"}
        /\ \A c \in DOMAIN q.claims :
             /\ q.claims[c].status = "verified" /\ q.claims[c].fresh = "fresh" /\ c \in q.mapped
             /\ \E e \in q.evidence : e.about = c /\ e.whole /\ e.from <= q.now /\ q.now < e.to /\ q.now < e.review

(* A use that needs rights, or that has any, passes under one version that *)
(* covers all of it at the moment, and never past a port that was unsure.  *)
PassedCovered ==
    rightsReport.status = "passed" =>
        LET q == rightsReport.question IN
        /\ (q.required \/ q.rights # {}) =>
             \E r \in q.rights : r.status = "verified" /\ r.from <= q.now /\ q.now < r.to /\ r.place = q.place /\ r.use >= q.use
        /\ q.score = "high" /\ ~q.twin /\ (q.ad => q.saysAd) /\ (q.ai => q.saysAi)
        /\ (q.required \/ q.rights # {}) => q.port \notin {"raises", "blocks"}

(* What the sandbox says of inputs is what came of them, once, under every *)
(* key; nothing that is forbidden has been run.                            *)
RunOnce ==
    /\ \A k \in SandboxKeys : sandboxRun[k].status \in {"passed", "failed", "timed_out"} =>
          LET runs == {x \in ranCommands : x.request.inputs = sandboxRun[k].request.inputs /\ x.status # "raised"} IN
          /\ Cardinality(runs) = 1
          /\ \A x \in runs : x.status = sandboxRun[k].status /\ x.id = sandboxRun[k].id /\ (sandboxRun[k].reproducible <=> x.id # k)
    /\ \A x \in ranCommands : x.request.allowed /\ x.request.limit <= MaxLimit
=============================================================================

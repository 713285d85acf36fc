----------------------------- MODULE PolicyGate -----------------------------
(***************************************************************************)
(* What is decided about a subject before it goes on (modules/policy): the *)
(* lifecycle check looks at its policy snapshot alone, the gate at that    *)
(* and at the facts the caller brings.  Both answer a key once for what it *)
(* was asked with, the moment included.                                    *)
(*                                                                         *)
(* The gate goes through its checks in order and the last one that has     *)
(* something to say about a policy is what counts; so it is written here   *)
(* as a list of rules, of which the last that holds decides.               *)
(*                                                                         *)
(* The moment is the clock or one the caller gives: any moment, so there   *)
(* is no clock here.  The same question under its key is answered as       *)
(* before, and another one is refused: neither changes anything.           *)
(*                                                                         *)
(* Left out: schemas, hashes and the audit; facts of another type than the *)
(* one they should have, beyond those that are told apart.                 *)
(***************************************************************************)
EXTENDS Integers, Sequences, FiniteSetsExt, TLC

CONSTANTS
    FactValues,   \* fact -> what callers may say of it
    GoodFacts,    \* fact -> what lets everything through
    Snapshots,    \* snapshots: [status, from, review, expires]
    GateKeys,     \* idempotency keys
    LastGateHour  \* bound: the last moment

Facts6 == {"risks", "qa", "rights", "region", "data", "model", "account", "approval", "outside", "release"}
Risks == {"R1", "R2", "R3", "R4"}

ASSUME GateBounds ==
    /\ LastGateHour \in Nat
    /\ DOMAIN FactValues = Facts6 /\ DOMAIN GoodFacts = Facts6
    /\ \A f \in Facts6 : GoodFacts[f] \in FactValues[f]
    /\ \A risks \in FactValues["risks"] : risks \subseteq Risks \cup {"unknown"}

(* Good facts are good, of a release that needs no account.                *)
ASSUME GoodBounds ==
    /\ GoodFacts.risks = {"R1"} /\ GoodFacts.qa = "passed" /\ GoodFacts.region = "allow"
    /\ {GoodFacts.rights, GoodFacts.data, GoodFacts.model} = {"yes"}
    /\ GoodFacts.account = "healthy" /\ GoodFacts.approval = "ok" /\ GoodFacts.outside = "known"
    /\ GoodFacts.release.level = "architecture_mvp" /\ GoodFacts.release.mode \in {"manual_export", "simulation"}

VARIABLES
    judged,      \* key -> the question the gate answered under it, and its answer
    looked,      \* key -> the same of the lifecycle check
    reviewTasks  \* keys of the lifecycle check with a task for a review

gateVars == <<judged, looked, reviewTasks>>

Subjects6 == {"content", "region", "distribution", "account", "data", "model"}

(* A snapshot comes into effect, falls due for a review and expires, or    *)
(* has no review or expiry (0); it may be marked as expired or revoked.    *)
SnapshotOver(s, now) == s.expires # 0 /\ now >= s.expires
NotYet(s, now) == now < s.from
DueForReview(s, now) == s.review # 0 /\ now >= s.review

-----------------------------------------------------------------------------
(* check_snapshot()                                                        *)
Lifecycle(s, now) ==
    IF s.status # "active" \/ SnapshotOver(s, now) \/ NotYet(s, now) THEN "deny"
    ELSE IF DueForReview(s, now) THEN "manual_review" ELSE "allow"

(* evaluate()                                                              *)
SnapshotDenied(s, now) == s.status # "active" \/ NotYet(s, now) \/ SnapshotOver(s, now)

ModesOf(level) ==
    CASE level = "architecture_mvp"   -> {"manual_export", "simulation"}
      [] level = "distribution_pilot" -> {"manual_export", "simulation", "draft_only"}
      [] level = "scale"              -> {"manual_export", "simulation", "draft_only", "authorized_api"}
      [] OTHER -> {}

Levels == {"architecture_mvp", "distribution_pilot", "scale"}

(* The worst of the risks that are known, R2 if none is.                   *)
Rank(r) == CASE r = "R1" -> 1 [] r = "R2" -> 2 [] r = "R3" -> 3 [] r = "R4" -> 4
RiskOf(risks) ==
    LET known == {r \in risks : r # "unknown"} IN
    IF known = {} THEN "R2" ELSE CHOOSE r \in known : \A q \in known : Rank(q) <= Rank(r)

NoAccountNeeded(f) ==
    f.account = "not_required" /\ f.release.level = "architecture_mvp" /\ f.release.mode \in ModesOf("architecture_mvp")

Rule(when, which, value) == [when |-> when, which |-> which, value |-> value]

Checks(s, f, now) == <<
    Rule(SnapshotDenied(s, now), {"content", "region", "distribution"}, "deny"),
    Rule(RiskOf(f.risks) \in {"R3", "R4"}, {"content", "distribution"}, "deny"),
    Rule(RiskOf(f.risks) = "R2", {"content", "distribution"}, "manual_review"),
    Rule(f.qa = "failed", {"content"}, "deny"),
    Rule(f.qa \in {"needs_review", "unknown"}, {"content"}, "manual_review"),
    Rule(f.rights = "no", {"distribution"}, "deny"),
    Rule(f.rights = "unknown", {"distribution"}, "manual_review"),
    Rule(f.region = "deny", {"region", "distribution"}, "deny"),
    Rule(f.region = "unknown", {"region", "distribution"}, "manual_review"),
    Rule(f.release.mode \notin ModesOf(f.release.level), {"distribution"}, "deny"),
    Rule(f.account = "revoked", {"account"}, "deny"),
    Rule(f.account \notin {"revoked", "healthy"} /\ ~NoAccountNeeded(f), {"account"}, "unknown"),
    Rule(f.account \notin {"revoked", "healthy"} /\ ~NoAccountNeeded(f), {"distribution"}, "manual_review"),
    Rule(f.data = "no", {"data"}, "deny"),
    Rule(f.data = "unknown", {"data"}, "manual_review"),
    Rule(f.model = "no", {"model"}, "deny"),
    Rule(f.model = "unknown", {"model"}, "manual_review"),
    Rule(f.approval \in {"denied", "denied_short"}, {"distribution"}, "deny"),
    Rule(f.approval \in {"short", "denied_short"}, {"distribution"}, "manual_review"),
    Rule(f.outside = "unknown", {"distribution"}, "manual_review") >>

(* The denials that are applied again at the end.                          *)
HardBlocks(s, f, now) == <<
    Rule(SnapshotDenied(s, now), {"content", "region", "distribution"}, "deny"),
    Rule(f.qa = "failed" \/ RiskOf(f.risks) \in {"R3", "R4"}, {"content"}, "deny"),
    Rule(\/ RiskOf(f.risks) \in {"R3", "R4"} \/ f.rights = "no" \/ f.region = "deny"
         \/ f.release.level \in Levels /\ f.release.mode \notin ModesOf(f.release.level)
         \/ f.approval \in {"denied", "denied_short"}, {"distribution"}, "deny"),
    Rule(f.region = "deny", {"region"}, "deny") >>

Ruled(rules, p) ==
    LET hits == {n \in DOMAIN rules : rules[n].when /\ p \in rules[n].which} IN
    IF hits = {} THEN "allow" ELSE rules[Max(hits)].value

(* Reasons there are besides those of a policy.                            *)
Doubts(s, f, now) == "unknown" \in f.risks \/ (DueForReview(s, now) /\ ~SnapshotOver(s, now))

Judgement(s, f, now) ==
    LET rules == Checks(s, f, now) \o HardBlocks(s, f, now)
        policies == [p \in Subjects6 |-> Ruled(rules, p)]
        said == {policies[p] : p \in Subjects6}
    IN  [policies |-> policies,
         final |-> IF "deny" \in said THEN "deny"
                   ELSE IF said # {"allow"} \/ Doubts(s, f, now) THEN "manual_review" ELSE "allow"]

-----------------------------------------------------------------------------
NotAsked == [now |-> -1]

GateInit ==
    /\ judged = [k \in GateKeys |-> NotAsked]
    /\ looked = [k \in GateKeys |-> NotAsked]
    /\ reviewTasks = {}

(* What callers may say of a subject: facts of which two at most are not   *)
(* good.                                                                   *)
FactSets ==
    UNION {{[GoodFacts EXCEPT ![x[1]] = v, ![x[2]] = w] : v \in FactValues[x[1]], w \in FactValues[x[2]]} :
             x \in (DOMAIN FactValues) \X (DOMAIN FactValues)}

Evaluate(k, s, f, now) ==
    /\ judged[k] = NotAsked
    /\ judged' = [judged EXCEPT ![k] = [now |-> now, snapshot |-> s, facts |-> f, answer |-> Judgement(s, f, now)]]
    /\ UNCHANGED <<looked, reviewTasks>>

CheckSnapshot(k, s, now) ==
    /\ looked[k] = NotAsked
    /\ looked' = [looked EXCEPT ![k] = [now |-> now, snapshot |-> s, answer |-> Lifecycle(s, now)]]
    /\ reviewTasks' = IF Lifecycle(s, now) = "manual_review" THEN reviewTasks \cup {k} ELSE reviewTasks
    /\ judged' = judged

GateNext ==
    \E k \in GateKeys, s \in Snapshots, now \in 0 .. LastGateHour :
        \/ CheckSnapshot(k, s, now)
        \/ judged[k] = NotAsked /\ \E f \in FactSets : Evaluate(k, s, f, now)

-----------------------------------------------------------------------------
Judged == {judged[k] : k \in GateKeys} \ {NotAsked}

(* A subject is let through only if nothing at all speaks against it, and  *)
(* a denial stands whatever is unknown besides: except that of a level of  *)
(* release nobody knows.                                                   *)
DenialStands ==
    \A q \in Judged :
        LET f == q.facts
            refused == \/ q.snapshot.status # "active" \/ q.now < q.snapshot.from
                       \/ q.snapshot.expires # 0 /\ q.now >= q.snapshot.expires
                       \/ f.risks \cap {"R3", "R4"} # {} \/ f.qa = "failed" \/ "no" \in {f.rights, f.data, f.model}
                       \/ f.region = "deny" \/ f.account = "revoked" \/ f.approval \in {"denied", "denied_short"}
                       \/ f.release.level \in Levels /\ f.release.mode \notin ModesOf(f.release.level)
        IN  /\ refused => q.answer.final = "deny"
            /\ q.answer.final = "deny" => refused \/ f.release.level \notin Levels
            /\ q.answer.final = "allow" =>
                 /\ Lifecycle(q.snapshot, q.now) = "allow"
                 /\ \A r \in f.risks : Rank(r) < 2
                 /\ "unknown" \notin {f.qa, f.rights, f.data, f.model, f.region, f.account, f.outside}

(* Putting one fact right never makes the answer worse.                    *)
BetterHelps ==
    LET Badness(final) == CASE final = "allow" -> 0 [] final = "manual_review" -> 1 [] final = "deny" -> 2 IN
    \A q \in Judged : q.facts.release.level \in Levels =>
        \A x \in DOMAIN FactValues :
            Badness(Judgement(q.snapshot, [q.facts EXCEPT ![x] = GoodFacts[x]], q.now).final) <= Badness(q.answer.final)

(* The check and the gate do not disagree about a snapshot at a moment:    *)
(* what the check does not allow the gate does not, and a review it asks   *)
(* for has a task.                                                         *)
OneLifecycle ==
    /\ \A q \in Judged, k \in GateKeys :
          (looked[k] # NotAsked /\ looked[k].snapshot = q.snapshot /\ looked[k].now = q.now) =>
              /\ looked[k].answer = "deny" => q.answer.final = "deny"
              /\ looked[k].answer = "manual_review" => q.answer.final # "allow"
    /\ \A k \in GateKeys : k \in reviewTasks <=> looked[k] # NotAsked /\ looked[k].answer = "manual_review"
=============================================================================

------------------------------ MODULE Canonical ------------------------------
(***************************************************************************)
(* One canonical content, its immutable versions and the queue of          *)
(* refreshes they need (modules/canonical_content/service.py), over the    *)
(* claims, evidence, rights and knowledge versions its commands read in    *)
(* their own transaction. Times are those the caller gives with the        *)
(* command, as the API lets it, so they need not agree with each other.    *)
(*                                                                         *)
(* Left out: the replay of idempotency keys, events, the cached diffs, and *)
(* all of the editorial text but whether two versions have the same; a     *)
(* version binds one claim.                                                *)
(***************************************************************************)
EXTENDS Knowledge

CONSTANTS
    Texts,       \* editorial contents a version may carry
    BindingOf,   \* claim each text makes, whether at high priority, evidence and rights it names
    Refreshers,  \* actors that work on refreshes
    CanonTimes,  \* times a command may be given
    GivenFreshness, \* freshness a caller gives a new version
    Expiries,    \* when a new version may expire
    Window,      \* review window of a freshness check
    MaxEditions, \* bound on the versions of the content
    MaxItems     \* bound on the items of the refresh queue

Nobody == "nobody" \* the owner of an item nobody holds
Reasons == {"review_due", "stale", "expired", "conflict", "manual"}

ASSUME CanonicalBounds ==
    /\ GivenFreshness \subseteq Reasons \cup {"fresh"} /\ Nobody \notin Refreshers
    /\ CanonTimes \subseteq Nat /\ Window \in Nat /\ MaxEditions \in Nat /\ MaxItems \in Nat
    /\ BindingOf \in [Texts -> [claim : Claims \cup {NoClaim}, high : BOOLEAN,
                                evidence : SUBSET Evidences, rights : SUBSET Nat]]

VARIABLES
    brief,    \* status of the topic brief, owned by the topic module
    content,  \* status of the content and its current version (0: none)
    editions, \* versions of the content, in order
    checks,   \* for each version the date of its latest freshness checks and what they found
    queue     \* items of the refresh queue, in order

canonVars == <<brief, content, editions, checks, queue>>

NoCheck == [at |-> 0, found |-> {}]
Editions == DOMAIN editions
Open == {"queued", "claimed"}

CanonTypeOK ==
    /\ brief \in {"draft", "locked", "approved"}
    /\ content.status \in {"none", "draft", "in_review"} /\ content.current \in Editions \cup {0}
    /\ \A n \in Editions :
          /\ editions[n].text \in Texts /\ editions[n].facts \in DOMAIN facts \cup {0}
          /\ editions[n].evidence \subseteq Evidences /\ editions[n].rights \subseteq Versions
    /\ DOMAIN checks = 1 .. MaxEditions
    /\ \A i \in DOMAIN queue :
          /\ queue[i].edition \in Editions /\ queue[i].reason \in Reasons
          /\ queue[i].status \in Open \cup {"completed"}
          /\ queue[i].owner \in Refreshers \cup {Nobody} /\ (queue[i].owner # Nobody <=> queue[i].status = "claimed")

CanonInit ==
    /\ brief = "draft"
    /\ content = [status |-> "none", current |-> 0]
    /\ editions = <<>> /\ queue = <<>>
    /\ checks = [n \in 1 .. MaxEditions |-> NoCheck]

MoveBrief(to) ==
    /\ brief' = to
    /\ UNCHANGED <<content, editions, checks, queue>>

\* evidence the caller named, or that has the claim in its own row
EvidenceFor(b) ==
    IF b.evidence # {} \/ b.claim = NoClaim THEN b.evidence
    ELSE {e \in Evidences : evidence[e].about = b.claim}

Kept(b) == {e \in EvidenceFor(b) : evidence[e].status \in {"captured", "valid"}}

BoundRights(b) == b.rights \cup ({RightsOf[e] : e \in Kept(b)} \ {0})

RightsCleared(versions) == \A v \in versions : RightsVerified(v)

MayBind(b) ==
    /\ b.claim # NoClaim => Exists(b.claim)
    /\ \A e \in EvidenceFor(b) : /\ evidence[e].status # "none"
                                 /\ b.claim # NoClaim => evidence[e].about \in {NoClaim, b.claim}
    /\ b.rights \subseteq Versions
    /\ b.high => /\ b.claim # NoClaim /\ claim[b.claim].status = "verified"
                 /\ Kept(b) # {} /\ BoundRights(b) # {} /\ RightsCleared(BoundRights(b))

\* mutant: any version of the core will do
FactsUsableAny(f) == f # 0 => f \in DOMAIN facts

FactsUsable(f) == f # 0 => facts[f].status = "verified"

\* mutant: no item is used again
EnqueueAlways(n, reason, available) ==
    /\ Len(queue) < MaxItems
    /\ queue' = Append(queue, [edition |-> n, reason |-> reason, status |-> "queued", attempts |-> 0,
                               available |-> available, owner |-> Nobody, until |-> 0])

\* an item for the version and reason that is not finished is used again
Enqueue(n, reason, available) ==
    IF \E i \in DOMAIN queue : queue[i].edition = n /\ queue[i].reason = reason /\ queue[i].status \in Open
    THEN UNCHANGED queue
    ELSE /\ Len(queue) < MaxItems
         /\ queue' = Append(queue, [edition |-> n, reason |-> reason, status |-> "queued", attempts |-> 0,
                                    available |-> available, owner |-> Nobody, until |-> 0])

\* same content, bound to the same: the version there is is returned, nothing is written
Repeats(t, f) ==
    LET b == BindingOf[t]
    IN \E n \in Editions : /\ editions[n].text = t /\ editions[n].facts = f
                           /\ editions[n].evidence = Kept(b) /\ editions[n].rights = BoundRights(b)

NewEdition(t, f, freshness, expires) ==
    LET b == BindingOf[t]
    IN [text |-> t, claim |-> b.claim, high |-> b.high, evidence |-> Kept(b), rights |-> BoundRights(b),
        facts |-> f, freshness |-> freshness, expires |-> expires]

AddEdition(t, f, freshness, expires) ==
    LET b == BindingOf[t]
    IN /\ brief \in {"locked", "approved"}
       /\ MayBind(b) /\ FactsUsable(f) /\ ~Repeats(t, f)
       /\ Len(editions) < MaxEditions
       /\ editions' = Append(editions, NewEdition(t, f, freshness, expires))
       /\ IF freshness = "fresh" THEN UNCHANGED queue ELSE Enqueue(Len(editions'), freshness, 0)
       /\ UNCHANGED <<brief, checks>>

CreateContent ==
    /\ content.status = "none" /\ brief \in {"locked", "approved"}
    /\ content' = [status |-> "draft", current |-> 0]
    /\ UNCHANGED <<brief, editions, checks, queue>>

CreateWithVersion(t, f, freshness, expires) ==
    /\ content.status = "none"
    /\ AddEdition(t, f, freshness, expires)
    /\ content' = [status |-> "draft", current |-> 1]

CreateVersion(t, f, freshness, expires) ==
    /\ content.status # "none"
    /\ AddEdition(t, f, freshness, expires)
    /\ content' = [content EXCEPT !.current = Len(editions')]

SubmitReview ==
    /\ content.status = "draft" /\ content.current # 0
    /\ content' = [content EXCEPT !.status = "in_review"]
    /\ UNCHANGED <<brief, editions, checks, queue>>

\* conflict: the caller may declare one, or that there is none
Assessed(n, at, force, conflict) ==
    CASE force -> "stale"
      [] ~force /\ conflict -> "conflict"
      [] ~force /\ ~conflict /\ editions[n].expires <= at -> "expired"
      [] ~force /\ ~conflict /\ editions[n].expires \in at + 1 .. at + Window -> "review_due"
      [] OTHER -> "fresh"

\* what the latest date found: a check dated before it changes nothing
LatestCheck(check, at, found) ==
    IF at > check.at \/ check.found = {} THEN [at |-> at, found |-> {found}]
    ELSE IF at = check.at THEN [check EXCEPT !.found = @ \cup {found}] ELSE check

AssessFreshness(n, at, force, conflict) ==
    /\ LET found == Assessed(n, at, force, conflict)
       IN /\ checks' = [checks EXCEPT ![n] = LatestCheck(@, at, found)]
          /\ IF found = "fresh" THEN UNCHANGED queue ELSE Enqueue(n, found, 0)
    /\ UNCHANGED <<brief, content, editions>>

EnqueueRefresh(n, reason, available) ==
    /\ Enqueue(n, reason, available)
    /\ UNCHANGED <<brief, content, editions, checks>>

\* not while another holds it; its holder may claim it again
RefreshClaimable(item, w, at) ==
    /\ item.status \in Open /\ item.available <= at
    /\ item.status = "claimed" => item.until <= at \/ item.owner = w

ClaimedBy(item, w, at) ==
    [item EXCEPT !.status = "claimed", !.attempts = @ + 1, !.owner = w, !.until = at + 1]

ClaimRefresh(i, w, at) ==
    /\ RefreshClaimable(queue[i], w, at) /\ queue[i].attempts < 2
    /\ queue' = [queue EXCEPT ![i] = ClaimedBy(@, w, at)]
    /\ UNCHANGED <<brief, content, editions, checks>>

MayComplete(item, w, at, attempts) ==
    /\ item.status = "claimed" /\ item.owner = w /\ item.until > at
    /\ attempts \in {0, item.attempts}

\* mutant: a completed item keeps its owner
CompleteRefreshOwned(i, w, at, attempts) ==
    /\ MayComplete(queue[i], w, at, attempts)
    /\ queue' = [queue EXCEPT ![i].status = "completed"]
    /\ UNCHANGED <<brief, content, editions, checks>>

Completed(item) == [item EXCEPT !.status = "completed", !.owner = Nobody, !.until = 0]

\* attempts: what the worker expects, 0 if it does not say
CompleteRefresh(i, w, at, attempts) ==
    /\ MayComplete(queue[i], w, at, attempts)
    /\ queue' = [queue EXCEPT ![i] = Completed(@)]
    /\ UNCHANGED <<brief, content, editions, checks>>

\* a version created as withdrawn is refused by the queue
EditionNext ==
    \/ \E to \in {"draft", "locked", "approved"} : MoveBrief(to)
    \/ CreateContent \/ SubmitReview
    \/ \E t \in Texts, f \in DOMAIN facts \cup {0}, freshness \in GivenFreshness, expires \in Expiries :
          CreateWithVersion(t, f, freshness, expires) \/ CreateVersion(t, f, freshness, expires)

RefreshNext ==
    \/ \E n \in Editions :
          \/ \E at \in CanonTimes, force, conflict \in BOOLEAN : AssessFreshness(n, at, force, conflict)
          \/ \E available \in CanonTimes : EnqueueRefresh(n, "manual", available)
    \/ \E i \in DOMAIN queue, w \in Refreshers, at \in CanonTimes :
          \/ ClaimRefresh(i, w, at)
          \/ \E attempts \in 0 .. 2 : CompleteRefresh(i, w, at, attempts)

\* sources, knowledge and content, each moved by its own commands at any time
PipelineInit == ProvInit /\ KnowInit /\ CanonInit

PipelineNext ==
    \/ ProvNext /\ UNCHANGED <<knowVars, canonVars>>
    \/ KnowNext /\ UNCHANGED <<provVars, canonVars>>
    \/ (EditionNext \/ RefreshNext) /\ UNCHANGED <<provVars, knowVars>>

PipelineSpec == PipelineInit /\ [][PipelineNext]_<<provVars, knowVars, canonVars>>

(***************************************************************************)
(* Every version kept is grounded, whatever happened to its sources since: *)
(* a claim of high priority had been verified, rests on evidence taken     *)
(* from a snapshot there is and on rights that had all been verified, the  *)
(* evidence's own among them, and the facts are a verified version of the  *)
(* core, whose claims do not contradict each other.                        *)
(***************************************************************************)
EditionsGrounded ==
    \A n \in Editions :
        LET x == editions[n]
        IN /\ x.high => /\ Once(claim[x.claim].status) /\ x.evidence # {} /\ x.rights # {}
                        /\ \A v \in x.rights : Once(rights[v].status)
                        /\ \A e \in x.evidence : snapshot[SnapshotOf[e]] # "none" /\ RightsOf[e] \in x.rights \cup {0}
           /\ x.facts # 0 => /\ facts[x.facts].keys = {}
                             /\ \A c, d \in facts[x.facts].claims : ScopeOf[c] = ScopeOf[d] => StatementOf[c] = StatementOf[d]
                             /\ \A c \in facts[x.facts].claims : Once(claim[c].status)

(***************************************************************************)
(* The whole pipeline: verified knowledge and kept versions are grounded.  *)
(***************************************************************************)
Grounded == FactsGrounded /\ EditionsGrounded

(***************************************************************************)
(* What a version was created with or was last found to be, if it is not   *)
(* fresh, has an item in the refresh queue, and never two that are open    *)
(* for one reason: claims, take-overs and completions of the items by      *)
(* several workers and checks dated out of order neither lose a refresh    *)
(* nor start it twice.                                                     *)
(***************************************************************************)
RefreshQueued ==
    /\ \A n \in Editions, r \in Reasons : (r \in checks[n].found \/ r = editions[n].freshness) =>
          \E i \in DOMAIN queue : queue[i].edition = n /\ queue[i].reason = r
    /\ \A i, j \in DOMAIN queue :
          /\ queue[i].edition = queue[j].edition /\ queue[i].reason = queue[j].reason
          /\ queue[i].status \in Open /\ queue[j].status \in Open
          => i = j
    /\ content.current = Len(editions)
=============================================================================

-------------------------------- MODULE Geo --------------------------------
(***************************************************************************)
(* GEO: the regions a page is for, then fixtures, samples and runs, then   *)
(* the assessment of pages, and at the end all of it together.             *)
(*                                                                         *)
(* One region profile with its versions (modules/geo_region/service.py,    *)
(* whose commands each hold the lock of the service) and the filter of the *)
(* pages that may be listed for a region (modules/geo_region/policy.py),   *)
(* which holds no lock: it reads the version, then its memory of earlier   *)
(* decisions, then the profile. Every page is for one version.             *)
(*                                                                         *)
(* A command with a stale version or pointer is refused and left out, as   *)
(* are replays of the commands on the profile. The policy and the validity *)
(* of a version are its terms. publish_version() is a draft and its        *)
(* activation, between which others may act. Locale, market, platform,     *)
(* topic and disclosure rules of the check are constant for a page: every  *)
(* page here satisfies them.                                               *)
(***************************************************************************)
EXTENDS Integers, Sequences, FiniteSets

CONSTANTS
    Terms,             \* validity intervals: first day and the day after the last
    NoTerms,           \* a draft without policy or validity
    Sites,             \* renderers that list pages
    AskedTimes,        \* times of evaluation that are given
    Omitted,           \* no time is given: the clock is used
    LastRegionDay,     \* bound of the clock
    MaxRegionVersions  \* bound on the versions of the profile

ASSUME RegionBounds ==
    /\ LastRegionDay \in Nat /\ MaxRegionVersions \in Nat
    /\ Terms \subseteq [from : 0 .. LastRegionDay, to : 0 .. LastRegionDay]
    /\ NoTerms \notin Terms /\ AskedTimes \subseteq Nat /\ Omitted \notin Nat

VARIABLES
    regionDay,  \* the clock
    profile,    \* status of the profile and its current version (0: none)
    region,     \* versions of the profile, by number
    listing,    \* the page a renderer is asking about and what it has read
    decided,    \* the decision remembered for each page
    listed      \* the last answer to a renderer: page, when asked for, whether listed and whether eligible

regionVars == <<regionDay, profile, region, listing, decided, listed>>

RegionDays == 0 .. LastRegionDay
Numbers == DOMAIN region
NotListing == [at |-> "idle"]
Undecided == [eligible |-> FALSE, asked |-> {}]

RegionTypeOK ==
    /\ regionDay \in RegionDays
    /\ profile \in [status : {"none", "active", "retired"}, current : Numbers \cup {0}]
    /\ \A n \in Numbers : /\ region[n].status \in {"draft", "active", "retired"}
                          /\ region[n].terms \in Terms \cup {NoTerms}
                          /\ region[n].terms = NoTerms => region[n].status = "draft"
    /\ \A s \in Sites : listing[s].at \in {"idle", "read", "fresh"}

RegionInit ==
    /\ regionDay = 0
    /\ profile = [status |-> "none", current |-> 0]
    /\ region = <<>>
    /\ listing = [s \in Sites |-> NotListing]
    /\ decided = [n \in 1 .. MaxRegionVersions |-> Undecided]
    /\ listed = {}

NextRegionDay ==
    /\ regionDay < LastRegionDay
    /\ regionDay' = regionDay + 1
    /\ UNCHANGED <<profile, region, listing, decided, listed>>

CreateProfile ==
    /\ profile.status = "none"
    /\ profile' = [profile EXCEPT !.status = "active"]
    /\ UNCHANGED <<regionDay, region, listing, decided, listed>>

NewVersion(terms) == [status |-> "draft", terms |-> terms]

\* the caller names the pointer it drafts on
CreateDraft(terms) ==
    /\ profile.status = "active" /\ Len(region) < MaxRegionVersions
    /\ region' = Append(region, NewVersion(terms))
    /\ UNCHANGED <<regionDay, profile, listing, decided, listed>>

\* terms: those given with the activation, or the draft's own
Activatable(n, terms) ==
    /\ profile.status = "active" /\ region[n].status = "draft" /\ terms # NoTerms
    /\ profile.current # 0 => region[profile.current].status = "active"

Activated(n, terms) ==
    [m \in Numbers |-> CASE m = n -> [status |-> "active", terms |-> terms]
                         [] m # n /\ m = profile.current -> [region[m] EXCEPT !.status = "retired"]
                         [] OTHER -> region[m]]

\* nothing asks that the pointer is still the one the draft was made on
ActivateRegion(n, terms) ==
    /\ Activatable(n, terms)
    /\ region' = Activated(n, terms)
    /\ profile' = [profile EXCEPT !.current = n]
    /\ UNCHANGED <<regionDay, listing, decided, listed>>

\* publish_version() goes on with the draft it made, on the terms it has
PublishRegion(n) == ActivateRegion(n, region[n].terms)

RetireRegion(n) ==
    /\ region[n].status = "active"
    /\ region' = [region EXCEPT ![n].status = "retired"]
    /\ profile' = IF profile.current = n THEN [profile EXCEPT !.current = 0] ELSE profile
    /\ UNCHANGED <<regionDay, listing, decided, listed>>

RetireProfile ==
    /\ profile.status = "active" /\ profile.current = 0
    /\ profile' = [profile EXCEPT !.status = "retired"]
    /\ UNCHANGED <<regionDay, region, listing, decided, listed>>

Within(terms, day) == terms # NoTerms /\ terms.from <= day /\ day < terms.to

\* the page's version is read; holds: what an instant of the call says of it
AskListing(s, n, asked) ==
    LET day == IF asked = Omitted THEN regionDay ELSE asked
        valid == region[n].status = "active" /\ Within(region[n].terms, day)
    IN /\ listing[s] = NotListing
       /\ listing' = [listing EXCEPT ![s] = [at |-> "read", page |-> n, asked |-> asked, valid |-> valid,
                                             holds |-> valid /\ profile.status = "active"]]
       /\ UNCHANGED <<regionDay, profile, region, decided, listed>>

Answer(s, shown) ==
    /\ listed' = {[page |-> listing[s].page, shown |-> shown, holds |-> listing[s].holds]}
    /\ listing' = [listing EXCEPT ![s] = NotListing]

\* a decision for the page is given again, or refused if asked for another
\* time; a page whose check raises is not listed
RecallDecision(s) ==
    /\ listing[s].at = "read"
    /\ LET prior == decided[listing[s].page]
       IN IF prior = Undecided
          THEN listing' = [listing EXCEPT ![s].at = "fresh"] /\ UNCHANGED listed
          ELSE Answer(s, listing[s].asked \in prior.asked /\ prior.eligible)
    /\ UNCHANGED <<regionDay, profile, region, decided>>

\* the profile is read and the decision is kept, unless another was meanwhile
DecideListing(s) ==
    LET q == listing[s]
        eligible == q.valid /\ profile.status = "active"
        prior == decided[q.page]
    IN /\ q.at = "fresh"
       /\ decided' = IF prior = Undecided
                     THEN [decided EXCEPT ![q.page] = [eligible |-> eligible, asked |-> {q.asked}]] ELSE decided
       /\ Answer(s, eligible /\ (prior # Undecided => q.asked \in prior.asked))
       /\ UNCHANGED <<regionDay, profile, region>>

RegionNext ==
    \/ NextRegionDay \/ CreateProfile \/ RetireProfile
    \/ \E terms \in Terms \cup {NoTerms} : CreateDraft(terms)
    \/ \E n \in Numbers :
          \/ RetireRegion(n) \/ PublishRegion(n)
          \/ \E terms \in Terms : ActivateRegion(n, terms)
          \/ \E s \in Sites, asked \in AskedTimes \cup {Omitted} : AskListing(s, n, asked)
    \/ \E s \in Sites : RecallDecision(s) \/ DecideListing(s)

(***************************************************************************)
(* The pointer of the profile names its one active version and a retired   *)
(* profile has none, whichever drafts are activated, replaced and retired  *)
(* in whatever order; and a page that is eligible by a decision is for a   *)
(* version that was once activated.                                        *)
(***************************************************************************)
RegionPointer ==
    /\ {n \in Numbers : region[n].status = "active"} = {profile.current} \ {0}
    /\ profile.status # "active" => profile.current = 0
    /\ \A n \in DOMAIN decided : decided[n].eligible => n \in Numbers /\ region[n].status # "draft"

-----------------------------------------------------------------------------
(***************************************************************************)
(* The query fixtures with the samples and runs taken on them              *)
(* (modules/geo_content/fixtures.py, sampling.py and runs.py). The         *)
(* services share the fixture store, but each has a lock of its own: a run *)
(* reads its fixture first and is saved later, and the fixture may be      *)
(* activated or retired between the two.                                   *)
(*                                                                         *)
(* A hash is the tuple it is computed from. Predecessors, policy, page,    *)
(* locale and region are one with the request, and the answers it captures *)
(* are constant. Refusals leave only an audit row and are not steps.       *)
(***************************************************************************)

CONSTANTS
    Fixtures,      \* fixture ids
    BodyOf,        \* the immutable payload of each
    Expects,       \* fixtures with an expected entity or claim
    Claiming,      \* those of them with an expected claim
    Captured,      \* captured answers
    Requests,      \* run requests: a fixture and the answers captured for it
    GeoKeys        \* idempotency keys, of which each service has its own

ASSUME GeoRunAssumption ==
    /\ Expects \subseteq Fixtures /\ Claiming \subseteq Expects
    /\ Captured \subseteq [text : BOOLEAN, unknown : BOOLEAN, cites : BOOLEAN, names : SUBSET Fixtures,
                           says : {"nothing", "correct", "incorrect", "unknown"}]
    /\ \A q \in Requests : q.fixture \in Fixtures /\ q.answers \in Seq(Captured) /\ Len(q.answers) >= 2

VARIABLES
    fixture,       \* fixture id to status and version
    sampled,       \* commands of the sampling service by key
    running,       \* the run that holds the lock of the run service
    runOf,         \* request_index and runs: hash of the request to the run
    ran            \* commands of the run service by key

geoRunVars == <<fixture, sampled, running, runOf, ran>>

NoRun == [at |-> "idle"]
NoAnswer == [hash |-> <<>>]
FixtureStates == {"none", "created", "active", "retired"}

GeoRunTypeOK ==
    /\ fixture \in [Fixtures -> [status : FixtureStates, version : 0 .. 3]]
    /\ running # NoRun => running.key \in GeoKeys /\ running.request \in Requests
    /\ DOMAIN ran = GeoKeys /\ DOMAIN sampled = GeoKeys
    /\ \A h \in DOMAIN runOf : h[1] \in Requests

GeoRunInit ==
    /\ fixture = [f \in Fixtures |-> [status |-> "none", version |-> 0]]
    /\ sampled = [k \in GeoKeys |-> NoAnswer]
    /\ running = NoRun
    /\ runOf = <<>>
    /\ ran = [k \in GeoKeys |-> NoAnswer]

NewFixture == [status |-> "created", version |-> 1]

\* one fixture of a payload, whatever its id
CreateFixture(f) ==
    /\ \A g \in Fixtures : fixture[g].status # "none" => g # f /\ BodyOf[g] # BodyOf[f]
    /\ fixture' = [fixture EXCEPT ![f] = NewFixture]
    /\ UNCHANGED <<sampled, running, runOf, ran>>

FixtureStep(f, from, to) ==
    /\ fixture[f].status = from
    /\ fixture' = [fixture EXCEPT ![f] = [status |-> to, version |-> @.version + 1]]
    /\ UNCHANGED <<sampled, running, runOf, ran>>

ActivateFixture(f) == f \in Expects /\ FixtureStep(f, "created", "active")

RetireFixture(f) == FixtureStep(f, "active", "retired")

(***************************************************************************)
(* What the sampler reads from a captured answer: whether it has a text,   *)
(* whether it is said to be unknown or under review, the fixtures of which *)
(* the text names an expected entity, whether it cites anything and what   *)
(* it says of its own correctness.                                         *)
(***************************************************************************)
Mentioned(f, a) == a.text /\ f \in a.names

\* a claim that is expected asks for a citation
Correctness(f, a) ==
    IF a.unknown THEN "unknown"
    ELSE IF a.says # "nothing" THEN a.says
    ELSE IF ~a.text \/ (Mentioned(f, a) /\ ~a.cites /\ f \in Claiming) THEN "unknown"
    ELSE IF Mentioned(f, a) THEN "correct" ELSE "incorrect"

Meaning(f, a) == [mentioned |-> Mentioned(f, a), cited |-> a.cites, correctness |-> Correctness(f, a)]

\* the status is asked, and the current version hashed, before a replay
Sample(k, f, answer, created) ==
    LET hash == <<f, fixture[f].version, answer>> IN
    /\ fixture[f].status \in {"active"} \cup (IF created THEN {"created"} ELSE {})
    /\ sampled[k] = NoAnswer
    /\ sampled' = [sampled EXCEPT ![k] = [hash |-> hash, value |-> Meaning(f, answer)]]
    /\ UNCHANGED <<fixture, running, runOf, ran>>

\* _aggregate(): answers with one content hash count once
Aggregate(f, answers) ==
    LET unique == {answers[n] : n \in DOMAIN answers}
        known == {a \in unique : Meaning(f, a).correctness # "unknown"}
    IN [mentions |-> Cardinality({a \in unique : Meaning(f, a).mentioned}),
        citations |-> Cardinality({a \in unique : Meaning(f, a).cited}),
        status |-> IF known = {} THEN "failed" ELSE "succeeded"]

\* mutant: the hash of a replay has the version the fixture has by now
CurrentVersion(k, f) == fixture[f].version

\* the version of a key's first call is in the hash of the later ones
HashVersion(k, f) == IF ran[k] = NoAnswer THEN fixture[f].version ELSE ran[k].version

Digest(k, q) == <<q, HashVersion(k, q.fixture)>>

\* _unwrap(): a file of answers may name the fixture they are for, even twice
Unwrapped(q, named) == named \subseteq {q.fixture}

\* run() up to its saves: a key in use replays or is refused, and a new one
\* needs an active fixture
BeginRun(k, q) ==
    /\ running = NoRun
    /\ ran[k] = NoAnswer
    /\ fixture[q.fixture].status = "active"
    /\ running' = [at |-> "parsing", key |-> k, request |-> q, hash |-> Digest(k, q),
                   version |-> fixture[q.fixture].version]
    /\ UNCHANGED <<fixture, sampled, runOf, ran>>

\* each answer is sampled again and must be of the fixture
NewRun(q) == Aggregate(q.fixture, q.answers)

\* the run of the request is the one there is, or a new one
SaveRun ==
    LET h == running.hash
        run == IF h \in DOMAIN runOf THEN runOf[h] ELSE NewRun(running.request)
    IN /\ running # NoRun
       /\ runOf' = [g \in DOMAIN runOf \cup {h} |-> IF g = h THEN run ELSE runOf[g]]
       /\ ran' = [ran EXCEPT ![running.key] =
                    [hash |-> h, value |-> run, request |-> running.request, version |-> running.version]]
       /\ running' = NoRun
       /\ UNCHANGED <<fixture, sampled>>

GeoRunNext ==
    \/ \E f \in Fixtures :
         \/ CreateFixture(f) \/ ActivateFixture(f) \/ RetireFixture(f)
         \/ \E k \in GeoKeys, a \in Captured, created \in BOOLEAN : Sample(k, f, a, created)
    \/ \E k \in GeoKeys, q \in Requests, named \in SUBSET Fixtures : Unwrapped(q, named) /\ BeginRun(k, q)
    \/ SaveRun

-----------------------------------------------------------------------------
(* run() asked once more with a key and its request gives the run of the   *)
(* first time, wherever the fixture has got to since; the same request     *)
(* under another key has that run too; and captured twice, an answer does  *)
(* not weigh twice: requests with the same answers agree.                  *)
RunsAnswered ==
    \A k \in GeoKeys : ran[k] # NoAnswer =>
        /\ Digest(k, ran[k].request) = ran[k].hash
        /\ \A j \in GeoKeys : ran[j] # NoAnswer =>
             LET p == ran[k].request
                 q == ran[j].request
             IN (p.fixture = q.fixture /\ {p.answers[n] : n \in DOMAIN p.answers} =
                                          {q.answers[n] : n \in DOMAIN q.answers})
                => ran[k].value = ran[j].value

-----------------------------------------------------------------------------
(***************************************************************************)
(* The readiness rules of GEO content (modules/geo_content/service.py):    *)
(* assess() collects findings over the page, its canonical version and the *)
(* records handed to it, and a dimension fails on an error and needs       *)
(* review on a warning. The records come from other services, which change *)
(* them between two assessments.                                           *)
(*                                                                         *)
(* A finding is its dimension and severity. Urls, robots directives, the   *)
(* page's text and scopes of locale, region and version are abstracted to  *)
(* whether the page can be crawled and whether a scope fits; statuses to   *)
(* good, missing or under review, and bad.                                 *)
(***************************************************************************)

CONSTANTS
    AssessedClaims, AssessedEvidence, AssessedSnapshots,
    AssessKeys,     \* idempotency keys
    Clean,          \* the records of a page that is ready to be cited
    MaxFlaws        \* bound on the changes made to them

Singles == {"entity", "page", "canonical", "source", "rights"}
Handed == AssessedClaims \cup AssessedEvidence \cup AssessedSnapshots \cup Singles
Dated == Handed \ {"entity"} \* entities have no time
Fitted == Handed \ {"entity", "source"} \* nor have sources a scope
Standings == {"good", "missing", "review", "bad"}
Spans == {"within", "early", "due", "over"}
Absent == "absent"

FileType ==
    [status : [Handed -> Standings], span : [Dated -> Spans],
     fresh : [AssessedClaims -> Standings],          \* freshness_status
     names : [AssessedClaims -> SUBSET AssessedEvidence], \* evidence_ids of a claim
     about : [AssessedEvidence -> SUBSET AssessedClaims], \* claim_ids of evidence
     taken : [AssessedEvidence -> AssessedSnapshots \cup {Absent}],
     covers : SUBSET AssessedSnapshots,               \* source_snapshot_ids of the rights
     unfit : SUBSET Fitted,                         \* scope, use, hash or quote not as it must be
     declared : BOOLEAN, \* the page declares its entity
     current : AssessedSnapshots \cup {Absent}]       \* of the source

ASSUME GeoAssessAssumption ==
    /\ Clean \in FileType /\ MaxFlaws \in Nat /\ Absent \notin AssessedSnapshots
    /\ Singles \cap (AssessedClaims \cup AssessedEvidence \cup AssessedSnapshots) = {}

VARIABLES
    file,    \* the records as the caller would hand them over
    flaws,   \* history: how often they were changed
    reports  \* commands of the service: assessment by key

assessVars == <<file, flaws, reports>>

NoReport == [made |-> FALSE]

AssessTypeOK ==
    /\ file \in FileType
    /\ flaws \in 0 .. MaxFlaws
    /\ \A k \in AssessKeys : reports[k].made => reports[k].file \in FileType

AssessInit ==
    /\ file = Clean
    /\ flaws = 0
    /\ reports = [k \in AssessKeys |-> NoReport]

\* any field of a record is something else by the next assessment
ChangeRecord ==
    /\ flaws < MaxFlaws
    /\ flaws' = flaws + 1
    /\ UNCHANGED reports
    /\ \/ \E r \in Handed :
            \/ \E s \in Standings \ {file.status[r]} : file' = [file EXCEPT !.status[r] = s]
            \/ r \in Dated /\ \E s \in Spans \ {file.span[r]} : file' = [file EXCEPT !.span[r] = s]
            \/ r \in Fitted /\ file' = [file EXCEPT !.unfit = @ \cup {r}]
       \/ \E c \in AssessedClaims :
            \/ \E s \in Standings \ {file.fresh[c]} : file' = [file EXCEPT !.fresh[c] = s]
            \/ \E es \in (SUBSET AssessedEvidence) \ {file.names[c]} : file' = [file EXCEPT !.names[c] = es]
       \/ \E e \in AssessedEvidence :
            \/ \E cs \in (SUBSET AssessedClaims) \ {file.about[e]} : file' = [file EXCEPT !.about[e] = cs]
            \/ \E s \in AssessedSnapshots \cup {Absent} : s # file.taken[e] /\ file' = [file EXCEPT !.taken[e] = s]
       \/ \E ss \in (SUBSET AssessedSnapshots) \ {file.covers} : file' = [file EXCEPT !.covers = ss]
       \/ file.declared /\ file' = [file EXCEPT !.declared = FALSE]
       \/ \E s \in AssessedSnapshots \cup {Absent} : s # file.current /\ file' = [file EXCEPT !.current = s]

Error(d) == {<<d, "error">>}
Warning(d) == {<<d, "warning">>}
If(condition, findings) == IF condition THEN findings ELSE {}

Standing(d, s) == CASE s = "bad" -> Error(d) [] s = "good" -> {} [] OTHER -> Warning(d)

\* _time_findings()
Span(d, s) == CASE s \in {"early", "over"} -> Error(d) [] s = "due" -> Warning(d) [] OTHER -> {}

EntityFindings(f) ==
    Standing("entity", f.status["entity"]) \cup If(~f.declared, Warning("entity"))

\* a claim that is not verified is an error only in a bad state
ClaimFindings(f, c) ==
    Standing("claim", f.status[c]) \cup Standing("fresh", f.fresh[c]) \cup Span("fresh", f.span[c])
    \cup If(c \in f.unfit, Error("claim"))

SnapshotFindings(f, s) ==
    Standing("fresh", f.status[s]) \cup Span("fresh", f.span[s])
    \cup If(s \in f.unfit, Error("citation") \cup Error("fresh"))

SourceFindings(f) ==
    Standing("fresh", f.status["source"]) \cup Span("fresh", f.span["source"])
    \cup If(f.current = Absent, Error("citation"))

RightsFindings(f) ==
    Standing("fresh", f.status["rights"]) \cup Span("fresh", f.span["rights"])
    \cup If("rights" \in f.unfit \/ f.covers = {}, Error("citation"))

\* evidence is linked to a claim by either of them
Linked(f, c, e) == e \in f.names[c] \/ c \in f.about[e]

LinkFindings(f) ==
    If(\E c \in AssessedClaims, e \in AssessedEvidence : (e \in f.names[c]) # (c \in f.about[e]), Error("claim"))
    \cup If(\E c \in AssessedClaims : ~\E e \in AssessedEvidence : Linked(f, c, e) /\ f.status[e] = "good", Error("claim"))
    \cup If(\E e \in AssessedEvidence : ~\E c \in AssessedClaims : Linked(f, c, e), Error("claim"))

EvidenceFindings(f, e) ==
    LET s == f.taken[e] IN
    Standing("fresh", f.status[e]) \cup Span("fresh", f.span[e])
    \cup If(e \in f.unfit, Error("citation"))
    \cup (IF s = Absent THEN Error("citation")
          ELSE Standing("citation", f.status[s]) \cup Span("citation", f.span[s]))
    \cup If(f.status["rights"] # "good", Error("citation"))
    \cup If(s # Absent /\ s \notin f.covers, Error("citation"))
    \cup Span("citation", f.span["rights"])

\* _crawlability()
CrawlFindings(f) ==
    If(f.status["page"] # "good" \/ "page" \in f.unfit, Error("crawl"))
    \cup If(f.status["page"] # "missing", Span("fresh", f.span["page"]))
    \cup Standing("crawl", f.status["canonical"]) \cup Standing("fresh", f.status["canonical"])
    \cup If("canonical" \in f.unfit, Error("crawl"))
    \cup Span("fresh", f.span["canonical"])

Findings(f) ==
    EntityFindings(f) \cup SourceFindings(f) \cup RightsFindings(f) \cup LinkFindings(f) \cup CrawlFindings(f)
    \cup (UNION {ClaimFindings(f, c) : c \in AssessedClaims})
    \cup (UNION {SnapshotFindings(f, s) : s \in AssessedSnapshots})
    \cup (UNION {EvidenceFindings(f, e) : e \in AssessedEvidence})

Passes(d, findings) == \A x \in findings : x[1] # d

Assessment(f) ==
    LET found == Findings(f)
        failed == \E x \in found : x[2] = "error"
    IN [made |-> TRUE, file |-> f,
        crawl |-> Passes("crawl", found) /\ ~failed,
        cite |-> \A d \in {"citation", "claim", "fresh", "entity", "crawl"} : Passes(d, found)]

\* a key in use replays its assessment or is refused
Assess(k) ==
    /\ ~reports[k].made
    /\ reports' = [reports EXCEPT ![k] = Assessment(file)]
    /\ UNCHANGED <<file, flaws>>

AssessNext == ChangeRecord \/ \E k \in AssessKeys : Assess(k)

-----------------------------------------------------------------------------
(* What a page must have to be cited: every claim is verified and fresh on *)
(* evidence that names it as it names the evidence, the evidence is valid  *)
(* and quoted from a usable snapshot that verified rights cover, no record *)
(* is before, at or past the end of its time, and the page is public under *)
(* a current canonical version.                                            *)
Citable(f) ==
    /\ \A r \in Handed : f.status[r] = "good"
    /\ \A r \in Dated : f.span[r] = "within"
    /\ f.unfit = {} /\ f.declared /\ f.current # Absent /\ f.covers # {}
    /\ \A c \in AssessedClaims :
         /\ f.fresh[c] = "good" /\ f.names[c] # {}
         /\ \A e \in AssessedEvidence : e \in f.names[c] <=> c \in f.about[e]
    /\ \A e \in AssessedEvidence : f.about[e] # {} /\ f.taken[e] \in f.covers

(* eligible_for_citation is said of a page exactly if its records make it  *)
(* citable, and only of one that may be crawled: no record escapes the     *)
(* rules because another one is looked at instead.                         *)
CitationSound ==
    \A k \in AssessKeys : reports[k].made =>
        /\ reports[k].cite <=> Citable(reports[k].file)
        /\ reports[k].cite => reports[k].crawl

-----------------------------------------------------------------------------
(* GEO as a whole: the services share no record, and each is called at any *)
(* time.                                                                   *)
geoVars == <<regionVars, geoRunVars, assessVars>>

GeoInit == RegionInit /\ GeoRunInit /\ AssessInit

GeoNext ==
    \/ RegionNext /\ UNCHANGED <<geoRunVars, assessVars>>
    \/ GeoRunNext /\ UNCHANGED <<regionVars, assessVars>>
    \/ AssessNext /\ UNCHANGED <<regionVars, geoRunVars>>

GeoSpec == GeoInit /\ [][GeoNext]_geoVars

(* What GEO says of a page can be relied on: each region has one version   *)
(* in force, a run is answered as it was made, and a page said to be ready *)
(* for citation is.                                                        *)
GeoKept == RegionPointer /\ RunsAnswered /\ CitationSound
=============================================================================

------------------------------ MODULE ContentMC ------------------------------
(***************************************************************************)
(* TLC instances of the content pipeline: topics, provenance, knowledge,   *)
(* canonical content, GEO, video, quality checks, the site, the agents and *)
(* variants.                                                               *)
(* chosen is the part whose commands are called in a behaviour. A part     *)
(* that builds on others begins with their records in place, as their      *)
(* commands would have left them, and a few commands that take the ground  *)
(* away are called among its own.                                          *)
(***************************************************************************)
EXTENDS Topics, Canonical, Geo, RenderJobs, MediaChain, MediaChecks, QualityGate, Site,
        Agents, Variants, TLC

CONSTANT Parts \* the parts the run goes through

VARIABLE chosen

sourceVars == <<provVars, knowVars, canonVars>>
contentVars == <<topicVars, sourceVars>>
videoVars == <<renderVars, mediaVars, checkVars>>
lateVars == <<qualityVars, siteVars>>
allVars == <<chosen, contentVars, geoVars, videoVars, lateVars, agentVars, productionVars>>

(* One usable snapshot under a verified version of the rights.             *)
Cleared ==
    /\ source = [status |-> "usable", current |-> "s1"]
    /\ snapshot = [s \in Snapshots |-> "usable"]
    /\ rights = <<[status |-> "verified", cites |-> Snapshots, over |-> FALSE]>>
    /\ record = [status |-> "verified", current |-> 1]
    /\ edges = {} /\ blocks = {} /\ expiring = {}
    /\ freeze = [v \in 1 .. MaxRights |-> "none"] /\ beneath = [v \in 1 .. MaxRights |-> {}]

(* A verified claim on valid evidence, a draft of another, and the given   *)
(* versions of the core.                                                   *)
Sourced(status, versions) ==
    /\ entity = "active"
    /\ claim = [c \in Claims |-> [status |-> IF c = "c1" THEN "verified" ELSE "draft", fresh |-> "fresh"]]
    /\ evidence = [e \in Evidences |-> [status |-> "valid", about |-> "c1"]]
    /\ links = {<<"c1", "e1">>}
    /\ conflicts = {}
    /\ facts = versions
    /\ core = [status |-> status, review |-> FALSE]

DraftFacts == [claims |-> {"c1"}, evidence |-> {"e1"}, status |-> "draft", keys |-> {}]

(* A content with one fresh version that will expire.                      *)
Published ==
    /\ brief = "locked"
    /\ content = [status |-> "draft", current |-> 1]
    /\ editions = <<[text |-> "t1", claim |-> "c1", high |-> TRUE, evidence |-> {"e1"}, rights |-> {1},
                     facts |-> 0, freshness |-> "fresh", expires |-> 2]>>
    /\ queue = <<>>
    /\ checks = [n \in 1 .. MaxEditions |-> NoCheck]

(* A video plan is followed from the version the service starts from.      *)
Row(line, body, material) == [line |-> line, number |-> 1, base |-> 0, body |-> body] @@ material
FirstScript == Row(<<"script", 4, 0>>, "b1", Material(0, 0, 0, 4, <<1, 5, 2>>))
FirstBoard == Row(<<"board", 1, 0>>, "p1", Material(1, 0, 0, 4, <<>>))
FirstVisuals == Row(<<"visuals", 1, 2>>, "i1", Material(1, 2, 0, 4, <<>>))
FirstSubtitle == Row(<<"subtitle", 1, 2>>, "c1", Material(1, 2, 0, 4, <<>>))
Planned ==
    CASE chosen = "boards" -> <<FirstScript>>
      [] chosen = "visuals" -> <<FirstScript, FirstBoard>>
      [] chosen = "subtitles" -> <<FirstScript, FirstBoard, FirstSubtitle>>
      [] chosen = "specs" -> <<FirstScript, FirstBoard, FirstVisuals>>
      [] OTHER -> <<>>

Init ==
    /\ chosen \in Parts
    /\ TopicInit(IF chosen \in {"plans", "briefs"} THEN TopicSignals ELSE {})
    /\ MediaInit(Planned)
    /\ RegionInit /\ GeoRunInit /\ AssessInit /\ RenderInit /\ CheckInit /\ QualityInit /\ SiteInit
    /\ AgentInit({[a \in Agents |-> CHOOSE s \in Supplies[a] : TRUE]})
    /\ VariantInit /\ (chosen # "variants" => injected)
    /\ IF chosen \in {"cores", "canonical", "refresh"} THEN Cleared ELSE ProvInit
    /\ CASE chosen = "cores" -> Sourced("none", <<>>)
         [] chosen \in {"canonical", "refresh"} -> Sourced("draft", <<DraftFacts>>)
         [] OTHER -> KnowInit
    /\ IF chosen = "refresh" THEN Published ELSE CanonInit

(* Of the ends of a snapshot, whose guards do not differ, one; the rights  *)
(* expire or are frozen, the first version's always for one reason.        *)
RightsPart ==
    /\ SourceNext \/ RightsNext \/ GuardNext
    /\ \A s \in Snapshots : snapshot'[s] \notin {"expired", "blocked"}
    /\ \A v \in DOMAIN rights' : rights'[v].status # "revoked"
    /\ \A b \in blocks' : b.for = 1 => b.reason = "r1"

(* A new knowledge base, while a snapshot becomes usable.                  *)
ClaimsPart ==
    \/ ClaimNext /\ UNCHANGED provVars
    \/ SourceNext /\ UNCHANGED knowVars
    \/ /\ CreateRights(Snapshots) \/ \E v \in Versions : VerifyRights(v)
       /\ UNCHANGED knowVars

Unsettle == TransitionSnapshot("s1", "revoked") \/ \E v \in Versions : TransitionRights(v, "revoked")
Renew == CreateRights(Snapshots) \/ \E v \in Versions : VerifyRights(v)

CoresPart ==
    \/ CoreNext /\ UNCHANGED provVars
    \/ UNCHANGED <<provVars, entity>> /\ ClaimNext
    \/ Unsettle /\ UNCHANGED knowVars

CanonicalPart ==
    \/ EditionNext /\ UNCHANGED <<provVars, knowVars>>
    \/ /\ \/ VerifyClaim("c2") \/ WithdrawClaim("c1") \/ LinkEvidence("c2", "e1")
          \/ EvidenceStep("e1", "revoked") \/ ValidateCore \/ RefreshCore(Claims, {}, {})
       /\ UNCHANGED <<provVars, canonVars>>
    \/ (Unsettle \/ Renew) /\ UNCHANGED <<knowVars, canonVars>>

TopicPart ==
    \/ chosen = "signals" /\ SignalNext
    \/ chosen = "plans" /\ OppNext
    \/ chosen = "briefs" /\ OppNext /\ Cardinality(Opps') <= 1
    \/ chosen = "plans" /\ PlanNext
    \/ chosen = "briefs" /\ BriefNext
    \/ chosen = "taxonomy" /\ TaxNext

(* What a line is made from moves on by one thread's one command.          *)
MovesBy(own, e, k) == own \/ (e = "w1" /\ k = "k1")

(* Beside a second worker the other commands are called while one failure  *)
(* is on record at most. A caller reports two at most, and gives another   *)
(* max_attempts only for the first.                                        *)
RenderPart ==
    /\ RenderNext
    /\ Cardinality(failures') <= 2
    /\ worker'["w2"].at # "deciding"
    /\ worker'["w1"].at = "deciding" => Cardinality(failures) <= 1
    /\ worker["w2"] = Resting => worker'["w2"].at # "filing"
    /\ worker["w1"] = Resting /\ worker'["w1"].at = "filing" =>
         LET r == worker'["w1"].report IN
         r.class = ClassifyError(r.code) /\ Cardinality(failures) <= 1 /\ (r.max # job.max => failures = {})

MediaPart ==
    \/ chosen \in {"scripts", "boards", "visuals", "subtitles", "specs"} /\ StoreNext
    \/ \E e \in Editors, k \in MediaKeys :
        \/ chosen \in {"scripts", "boards"} /\ MovesBy(chosen = "scripts", e, k) /\ ScriptNext(e, k)
        \/ chosen \in {"boards", "visuals"} /\ MovesBy(chosen = "boards", e, k) /\ BoardNext(e, k)
        \/ chosen \in {"visuals", "specs"} /\ MovesBy(chosen = "visuals", e, k) /\ VisualNext(e, k)
        \/ chosen = "subtitles" /\ SubtitleNext(e, k)
        \/ chosen = "specs" /\ SpecNext(e, k)

(* The part that goes with an agent. Plans are asked for by two threads    *)
(* under one key, which meet where the definition is registered.           *)
PartOf == "planner" :> "planner" @@ "research" :> "research" @@ "rights" :> "clues"
          @@ "transform" :> "transform" @@ "qa" :> "review"
AgentPart ==
    \E a \in Agents :
        /\ chosen = PartOf[a] /\ AgentNext(a)
        /\ a = "planner" =>
             /\ \A n \in DOMAIN definitions'[a] : definitions'[a][n].safe
             /\ \A t \in AgentThreads : agentCall'[t].at # "idle" => agentCall'[t].key = "k1"

(* Of two drafts, a first of v2 or for Germany says it is a copy, and the  *)
(* second is a copy that says it was adapted; then they are saved, each    *)
(* under either key and the keys in order, for r1 or r2.                   *)
VariantPart ==
    \/ /\ draftMade["k1"] = NothingKept
       /\ \E s \in VariantSources, a \in Audiences, mode \in Modes4Draft : \E words \in TextsFor(s) :
            /\ mode = "rule_copy" \/ (s = "v1" /\ a.market = "US")
            /\ GenerateDraft("k1", s, a, mode, words)
    \/ /\ draftMade["k1"] # NothingKept
       /\ \E s \in VariantSources : GenerateDraft("k2", s, draftMade["k1"].draft.audience, "adapted", CopiedText(s))
    \/ /\ draftMade["k2"] # NothingKept
       /\ \E k \in VariantKeys, r \in {"r1", "r2"}, d \in Made, disclosed \in Disclosures, expected \in NotGiven .. 1 :
            /\ k = "k2" => variantCommand["k1"] # NothingKept \/ regionDecision[<<"saved", "k1">>] # NothingKept
            /\ SaveDraft(k, d, r, expected, disclosed)
    \/ WithdrawVersion("v1") \/ RegionMoves("r1", "suspended") \/ VariantTick

DecisionPart ==
    /\ regionDecision[<<"asked", "k1">>] = NothingKept
    /\ \/ DecisionNext /\ regionDecision'[<<"asked", "k2">>] = NothingKept
       \/ \E r \in RegionVersions : RegionMoves(r, "suspended") /\ \A q \in RegionVersions : regionState[q] = "active"

ProductionPart ==
    \/ chosen = "variants" /\ VariantPart
    \/ chosen = "decisions" /\ DecisionPart
    \/ chosen = "terms" /\ TermNext

MadeNext ==
    /\ UNCHANGED <<agentVars, productionVars>>
    /\ \/ /\ TopicPart
          /\ UNCHANGED <<sourceVars, geoVars, videoVars, lateVars>>
       \/ /\ chosen = "rights" /\ RightsPart
          /\ UNCHANGED <<topicVars, knowVars, canonVars, geoVars, videoVars, lateVars>>
       \/ /\ \/ chosen = "claims" /\ ClaimsPart
             \/ chosen = "cores" /\ CoresPart
          /\ UNCHANGED <<topicVars, canonVars, geoVars, videoVars, lateVars>>
       \/ /\ chosen = "canonical" /\ CanonicalPart
          /\ UNCHANGED <<topicVars, geoVars, videoVars, lateVars>>
       \/ /\ chosen = "refresh" /\ RefreshNext
          /\ UNCHANGED <<topicVars, provVars, knowVars, geoVars, videoVars, lateVars>>
       \/ /\ chosen = "regions" /\ RegionNext
          /\ UNCHANGED <<contentVars, geoRunVars, assessVars, videoVars, lateVars>>
       \/ /\ chosen = "runs" /\ GeoRunNext
          /\ UNCHANGED <<contentVars, regionVars, assessVars, videoVars, lateVars>>
       \/ /\ chosen = "assess" /\ AssessNext
          /\ UNCHANGED <<contentVars, regionVars, geoRunVars, videoVars, lateVars>>
       \/ /\ chosen = "render" /\ RenderPart
          /\ UNCHANGED <<contentVars, geoVars, mediaVars, checkVars, lateVars>>
       \/ /\ MediaPart
          /\ UNCHANGED <<contentVars, geoVars, renderVars, checkVars, lateVars>>
       \/ /\ \/ chosen = "files" /\ FileNext
             \/ chosen = "checks" /\ AssetNext
          /\ UNCHANGED <<contentVars, geoVars, renderVars, mediaVars, lateVars>>
       \/ /\ \/ chosen = "quality" /\ FactsNext
             \/ chosen = "uses" /\ UseNext
             \/ chosen = "sandbox" /\ SandboxNext
          /\ UNCHANGED <<contentVars, geoVars, videoVars, siteVars>>
       \/ /\ \/ chosen = "pages" /\ PageNext
             \/ chosen = "site" /\ SiteNext
             \/ chosen = "structured" /\ DataNext
             \/ chosen = "audits" /\ AuditNext
             \/ chosen = "sitekeys" /\ SiteKeyNext
             \/ chosen = "datakeys" /\ DataKeyNext
             \/ chosen = "auditkeys" /\ AuditKeyNext
          /\ UNCHANGED <<contentVars, geoVars, videoVars, qualityVars>>

Next ==
    /\ UNCHANGED chosen
    /\ \/ MadeNext
       \/ AgentPart /\ UNCHANGED <<contentVars, geoVars, videoVars, lateVars, productionVars>>
       \/ ProductionPart /\ UNCHANGED <<contentVars, geoVars, videoVars, lateVars, agentVars>>

Spec == Init /\ [][Next]_allVars

ContentTypeOK ==
    /\ TopicTypeOK /\ ProvTypeOK /\ KnowTypeOK /\ CanonTypeOK
    /\ RegionTypeOK /\ GeoRunTypeOK /\ AssessTypeOK
    /\ RenderTypeOK /\ MediaTypeOK /\ CheckTypeOK /\ QualityTypeOK /\ SiteTypeOK
    /\ AgentTypeOK /\ VariantTypeOK

(* A render job that succeeded can show its artifact, a retry that fell    *)
(* due is carried out by one worker, what a video is made from belongs     *)
(* together, follows from the version before it and fills its time, and    *)
(* what its checks say of it is so.                                        *)
VideoKept ==
    /\ SuccessBacked /\ RetriedOnce
    /\ LinesLinear /\ MadeOnce /\ LineageKept /\ TimeKept
    /\ FileSound /\ ContentSound /\ RightsAgree /\ EdgesFiled

(* What is written is what was chosen, and stands on what it says: signals *)
(* count once, a brief in force keeps its opportunity shortlisted, a topic *)
(* has one opportunity that may be published, plans and taxonomy follow    *)
(* one line, and a text passes its checks only with its sources, claims,   *)
(* evidence, disclosures and rights behind it; the site shows the versions *)
(* that may be seen, and says of them what was found; what an agent        *)
(* answered holds to what it had read; and a variant is stored of a source *)
(* in force, where its region and its terms allow it.                      *)
WritingKept ==
    /\ ImportedOnce /\ BriefBacked /\ OneLive /\ StatesTold /\ PlanCurrent /\ TaxonomyLinear
    /\ PassedGrounded /\ PassedCovered /\ RunOnce
    /\ PagesLinear /\ SiteTold /\ DataTold /\ AuditsTold
    /\ ResultsBacked /\ AgentsHeld
    /\ VariantsLinear /\ VariantsBacked /\ DecisionTold /\ TermsLinear /\ TranslationTold

Line(s, v) == [signal |-> s, valid |-> v]
MCBatches == {<<Line("s1", TRUE), Line("s2", TRUE), Line("s1", TRUE)>>,
              <<Line("s2", FALSE), Line("s1", TRUE)>>, <<Line("s2", TRUE), Line("s2", FALSE)>>}
Brief(refs, needs) == [plan |-> <<[key |-> "e", required |-> TRUE, refs |-> refs]>>, claims |-> <<[key |-> "c", needs |-> needs]>>]
MCBriefTexts == "b1" :> Brief({"r"}, {"e"}) @@ "b2" :> Brief({}, {"e"}) @@ "b3" :> Brief({"r"}, {"x"})
MCParents == "d1" :> {Root, "d2"} @@ "d2" :> {"d1"}
MCScope == [c \in Claims |-> "f"]
MCStatement == "c1" :> "x" @@ "c2" :> "y"
MCSnapshot == [e \in Evidences |-> "s1"]
MCRights == [e \in Evidences |-> 1]
Binds(c, e) == [claim |-> c, high |-> TRUE, evidence |-> e, rights |-> {}]
MCBinding == "t1" :> Binds("c1", {}) @@ "t2" :> Binds("c2", {"e1"})
MCTerms == {[from |-> 0, to |-> 1]}
MCBody == [f \in Fixtures |-> "b"]
Answered(says, cites, names) ==
    [text |-> TRUE, unknown |-> FALSE, says |-> says, cites |-> cites, names |-> names]
MCAnswers == <<Answered("nothing", TRUE, {"f1"}), Answered("nothing", FALSE, {"f1"}),
               [Answered("correct", FALSE, {}) EXCEPT !.unknown = TRUE]>>
MCCaptured == {MCAnswers[n] : n \in DOMAIN MCAnswers}
MCRequests == {[fixture |-> "f1", answers |-> <<MCAnswers[1], MCAnswers[2]>>],
               [fixture |-> "f1", answers |-> <<MCAnswers[1], MCAnswers[2], MCAnswers[1]>>],
               [fixture |-> "f2", answers |-> <<MCAnswers[2], MCAnswers[3]>>]}
MCSegmentEnds == 4 :> <<1, 3, 4>> @@ 6 :> <<1, 5, 6>>
MCSpoken == 4 :> 8 @@ 6 :> 12
MCBlocks == "b1" :> [sentence |-> 2, words |-> 9] @@ "b2" :> [sentence |-> 0, words |-> 0]
MCEdits == "x1" :> [segment |-> 2, words |-> 3] @@ "x2" :> [segment |-> 1, words |-> 3]
Part(n, a, b) == [segment |-> n, start |-> a, end |-> b]
MCPlans == "p1" :> <<Part(1, 0, 1), Part(2, 1, 3), Part(3, 3, 4)>>
           @@ "p2" :> <<Part(1, 0, 1), Part(2, 2, 3), Part(3, 3, 4)>>
MCCues == "c1" :> <<Part(1, 0, 1), Part(2, 2, 3)>> @@ "c2" :> <<Part(2, 1, 3), Part(2, 2, 3)>>
MCItems == "i1" :> <<[role |-> "cover", time |-> 0], [role |-> "keyframe", time |-> 3]>>
           @@ "i2" :> <<[role |-> "cover", time |-> 0], [role |-> "keyframe", time |-> 4]>>
Sized(r, w, h) == [ratio |-> r, width |-> w, height |-> h]
MCProfiles == "o1" :> <<Sized("9:16", 1080, 1920), Sized("1:1", 720, 720)>>
              @@ "o2" :> <<Sized("1:1", 1080, 1080), Sized("1:1", 720, 720)>> @@ "o3" :> <<Sized("9:16", 1920, 1080)>>
MCClean ==
    [status |-> [r \in Handed |-> "good"], span |-> [r \in Dated |-> "within"],
     fresh |-> [c \in AssessedClaims |-> "good"], names |-> [c \in AssessedClaims |-> AssessedEvidence],
     about |-> [e \in AssessedEvidence |-> AssessedClaims], taken |-> [e \in AssessedEvidence |-> "s1"],
     covers |-> {"s1"}, unfit |-> {}, declared |-> TRUE, current |-> "s1"]
QClaim(status, fresh, from, to, review, here) ==
    [status |-> status, fresh |-> fresh, from |-> from, to |-> to, review |-> review, here |-> here]
QClaims ==
    {QClaim("verified", "fresh", 0, 3, 3, TRUE), QClaim("draft", "fresh", 0, 3, 3, TRUE),
     QClaim("verified", "stale", 0, 3, 0, TRUE), QClaim("verified", "fresh", 1, 2, 3, TRUE),
     QClaim("verified", "review_due", 0, 3, 3, TRUE), QClaim("verified", "fresh", 0, 3, 1, FALSE)}
QEvidence ==
    [about : {"none", "q1", "q2"}, status : {"valid"}, from : {0}, to : {1, 3}, review : {2}, whole : BOOLEAN]
    \cup [about : {"q1"}, status : {"withdrawn"}, from : {0}, to : {3}, review : {3}, whole : {TRUE}]
QCounts == [source : {[number |-> 1, url |-> 0]}, variant : [{"number", "url"} -> 0 .. 1]]
QEqual == [source |-> [number |-> 1, url |-> 0], variant |-> [number |-> 1, url |-> 0]]
QFew == {{}} \cup {{d, e} : d, e \in QEvidence}
MCFactQuestions ==
    [now : {0, 1, 2}, live : {TRUE}, counts : {QEqual}, claims : [{} -> QClaims] \cup [{"q1"} -> QClaims],
     evidence : QFew, mapped : {{}, {"q1"}}, terms : {"none"}]
    \cup [now : {0}, live : {TRUE}, counts : {QEqual}, evidence : QFew, mapped : {{"q1"}, {"q1", "q2"}}, terms : {"fine"},
          claims : [{"q1", "q2"} -> {QClaim("verified", "fresh", 0, 3, 3, TRUE)}]]
    \cup [now : {0}, live : BOOLEAN, counts : QCounts, claims : [{} -> QClaims], evidence : {{}}, mapped : {{}},
          terms : {"none", "fine", "raises", "warns", "objects"}]
QRights ==
    [wellFormed : BOOLEAN, status : {"verified", "draft"}, from : {0}, to : {1, 3}, place : {"here", "there"}, use : {1}]
    \cup [wellFormed : {TRUE}, status : {"verified"}, from : {0}, to : {3}, place : {"here"}, use : {0}]
QNo == {FALSE}
QUse(likes, twins, says, lives, covers, needs, ports) ==
    [now : {0, 1}, live : lives, score : likes, twin : twins, repeats : twins, ai : says, saysAi : says, ad : says,
     saysAd : says, rights : covers, required : needs, place : {"here"}, use : {1}, port : ports]
MCRightsQuestions ==
    QUse({"high"}, QNo, QNo, {TRUE}, {{}} \cup {{d, e} : d, e \in QRights}, BOOLEAN, {"none", "allows", "blocks", "raises"})
    \cup QUse({"high", "low", "raises", "invalid"}, BOOLEAN, BOOLEAN, BOOLEAN, {{}}, QNo, {"none"})
Asked(i, l, a) == [inputs |-> i, limit |-> l, allowed |-> a]
MCSandboxRequests == {Asked("i1", 1, TRUE), Asked("i1", 2, TRUE), Asked("i1", 1, FALSE), Asked("i2", 3, TRUE), Asked("i2", 1, TRUE)}
ShownRow(i, g, l, n, s, u) == [id |-> i, group |-> g, locale |-> l, number |-> n, status |-> s, url |-> u]
MCPageBodies == {[evidence |-> <<"e1">>, faq |-> {"e1"}], [evidence |-> <<"e1">>, faq |-> {"e2"}], [evidence |-> <<"e1", "e1">>, faq |-> {}]}
SRows ==
    {ShownRow(1, "g1", "en", 1, "published", "a"), ShownRow(2, "g1", "en", 2, "ready", "a"), ShownRow(3, "g1", "en", 2, "published", "b"),
     ShownRow(4, "g1", "de", 1, "published", "f"), ShownRow(5, "g2", "en", 1, "published", "a"), ShownRow(6, "g1", "en", 3, "draft", "a"),
     ShownRow(7, "g1", "en", 2, "published", "a"), ShownRow(8, "g1", "fr", 2, "published", "a"),
     ShownRow(9, "g1", "de", 1, "unknown", "f")}
SRow(ids) == {r \in SRows : r.id \in ids}
SAsk(rows, filtered, eligible, default) ==
    [rows |-> rows, filtered |-> filtered, eligible |-> eligible, default |-> default, elsewhere |-> "none"]
SNamed(q, path) == [q EXCEPT !.elsewhere = path]
SFew == {{a, b, c} : a \in 1 .. 8, b \in 1 .. 8, c \in 1 .. 9}
MCSiteQuestions ==
    {SAsk(SRow(ids), FALSE, {}, d) : ids \in SFew, d \in {"none", "en", "de", "fr"}}
    \cup UNION {{SAsk(SRow(ids), TRUE, e, d) : e \in SUBSET ids, d \in {"none", "de"}} : ids \in SFew}
    \cup {SNamed(SAsk(SRow(ids), f, ids, "none"), path) : ids \in SFew, f \in BOOLEAN, path \in {"f", "x", "malformed"}}
MCKeyedQuestions == {SAsk(SRow({1, 4}), FALSE, {}, "none"), SAsk(SRow({1, 3, 4}), TRUE, {1, 4}, "none"),
                     SAsk(SRow({1, 3, 4}), TRUE, {1, 3, 4}, "none"), SAsk(SRow({1, 4, 6}), FALSE, {}, "none"), SAsk(SRow({3, 4}), FALSE, {}, "none"),
                     SNamed(SAsk(SRow({1, 4}), FALSE, {}, "none"), "x")}
MCLocaleRank == "de" :> 1 @@ "en" :> 2 @@ "fr" :> 3
SVideos == [is : {"video"}, phase : {5, 6}, kind : {"video", "image"}, approved : BOOLEAN, owner : {"ours", "theirs", "none"},
            complete : BOOLEAN, address : {"v1"}]
SNoVideo == [is |-> "none", address |-> "none"]
MCDataQuestions ==
    [status : {"draft", "ready", "published"}, body : {"none", "x"}, phase : {5, 6}, actor : {"a1"}, video : SVideos \cup {SNoVideo}]
SVideo(v) == [is |-> "video", phase |-> 6, kind |-> "video", approved |-> TRUE, owner |-> "ours", complete |-> TRUE, address |-> v]
MCKeyedData ==
    [status : {"ready"}, body : {"x", "y"}, phase : {6}, actor : {"a1", "a2"}, video : {SNoVideo, SVideo("v1")}]
SSees(code, error, chain, final) == [code |-> code, error |-> error, chain |-> chain, final |-> final]
SChains == {<<>>} \cup UNION {[1 .. n -> {"u", "x", "y"}] : n \in 1 .. 3}
SMoved == {SSees(301, FALSE, c, f) : c \in SChains, f \in {"none", "x", "y"}}
SPlain == {SSees(c, FALSE, <<>>, "none") : c \in {100, 200, 404}} \cup {SSees(200, TRUE, <<>>, "none")}
SAudit == [status |-> "ready", asRendered |-> TRUE, code |-> 200, seen |-> <<>>, links |-> {}, limit |-> 1, metrics |-> {"within"}, images |-> {}, media |-> "none",
           canonicals |-> 1, own |-> TRUE, titles |-> 1, main |-> TRUE, brokenAnchor |-> FALSE, unsafe |-> FALSE, dynamic |-> "none"]
MCAuditQuestions ==
    {[SAudit EXCEPT !.seen = "u" :> o, !.links = {"u"}, !.limit = l] : o \in SMoved \cup SPlain, l \in 0 .. 2}
    \cup {[SAudit EXCEPT !.code = c, !.seen = s, !.links = l] :
             c \in {0, 200, 404}, l \in SUBSET {"page", "u"},
             s \in {<<>>} \cup {"page" :> o : o \in SPlain} \cup {"u" :> o : o \in SPlain}}
    \cup {[SAudit EXCEPT !.metrics = m, !.images = i, !.media = e, !.dynamic = d] :
             m \in SUBSET {"within", "over", "missing"}, i \in SUBSET {"described", "decorative", "bare", "long"},
             e \in {"none", "captioned", "bare"}, d \in {"none", "required", "same", "other"}}
    \cup {[SAudit EXCEPT !.canonicals = c, !.own = o, !.titles = t, !.main = m, !.brokenAnchor = b, !.unsafe = u] :
             c \in 0 .. 2, o \in BOOLEAN, t \in 0 .. 2, m \in BOOLEAN, b \in BOOLEAN, u \in BOOLEAN}
    \cup {[SAudit EXCEPT !.status = s, !.asRendered = r] : s \in {"draft", "ready", "published"}, r \in BOOLEAN}
MCKeyedAudits == {[SAudit EXCEPT !.links = {"u"}], [SAudit EXCEPT !.links = {"u"}, !.code = 404]}
MCProbed == {SSees(0, FALSE, <<>>, "none"), SSees(200, FALSE, <<>>, "none"), SSees(404, FALSE, <<>>, "none")}
AMSource(fit, excerpts) == [usable |-> fit, excerpts |-> excerpts]
AMWords(a, b, c) == "x" :> a @@ "y" :> b @@ "1" :> c
AMSection(k, c, words) == [key |-> k, claim |-> c, words |-> words]
AMContent == <<AMSection("s1", "c1", AMWords(1, 0, 2)), AMSection("s2", "none", AMWords(0, 1, 0))>>
MCSupplies ==
    "planner" :> {[status |-> "draft", hash |-> "h1"], [status |-> "locked", hash |-> "h1"], [status |-> "approved", hash |-> "h2"]}
    @@ "research" :> {"s1" :> AMSource(u, {"e1", "e2"}) @@ "s2" :> AMSource(TRUE, {"e1"}) : u \in BOOLEAN}
    @@ "rights" :> {{"r1"}, {"r1", "r2"}}
    @@ "transform" :> {[withdrawn |-> w, sections |-> AMContent] : w \in BOOLEAN}
    @@ "qa" :> {[status |-> "passed", findings |-> <<>>, ours |-> TRUE], [status |-> "failed", findings |-> <<"a", "b">>, ours |-> TRUE],
                [status |-> "failed", findings |-> <<"a">>, ours |-> FALSE]}
AMTerm(name) == [name |-> name, section |-> "s1", from |-> "x", to |-> "y"]
MCAgentRequests ==
    "planner" :> {"g1"} @@ "research" :> {{"s1"}, {"s1", "s2"}} @@ "rights" :> {{<<"r1", "q">>}, {<<"r1", "q">>, <<"r2", "q">>}}
    @@ "transform" :> {{}, {AMTerm("term")}, {AMTerm("number_1")}} @@ "qa" :> {"v1", "v2"}
AMItem(k, about) == [key |-> k, about |-> about]
AMPlan(ours, steps, sure) == [ours |-> ours, steps |-> steps, sure |-> sure]
AMFact(k, cites) == [key |-> k, cites |-> cites]
AMText(a, b) == <<[key |-> "s1", claim |-> "c1", words |-> a], [key |-> "s2", claim |-> "none", words |-> b]>>
AMKept(terms) == NamedMappings(terms, [withdrawn |-> FALSE, sections |-> AMContent])
AMText2 == AMText(AMWords(0, 1, 2), AMWords(0, 1, 0))
AMTold(k, i, code) == [key |-> k, index |-> i, code |-> code]
MCModelAnswers ==
    "planner" :> {AMPlan(TRUE, <<AMItem("a", {}), AMItem("b", {"a"})>>, TRUE), AMPlan(TRUE, <<AMItem("a", {"b"}), AMItem("b", {"a"})>>, TRUE),
                  AMPlan(FALSE, <<AMItem("a", {})>>, TRUE), AMPlan(TRUE, <<AMItem("a", {}), AMItem("a", {})>>, FALSE)}
    @@ "research" :> {[facts |-> f, items |-> i] :
                         f \in {<<>>, <<AMFact("f", {<<"s1", "e1">>})>>, <<AMFact("f", {<<"s2", "e1">>}), AMFact("g", {<<"s1", "e2">>})>>},
                         i \in {<<>>, <<AMItem("i", {"g"})>>}}
    @@ "rights" :> {[clues |-> c, scopes |-> s, gaps |-> g] :
                         c \in {<<>>, <<AMFact("c", <<"r1", "q">>)>>, <<AMFact("c", <<"r1", "q">>), AMFact("d", <<"r2", "q">>)>>},
                         s \in {<<>>, <<AMItem("s", {"d"})>>}, g \in {<<>>, <<AMItem("g", {})>>}}
    @@ "transform" :> ({[blocks |-> AMText2, kept |-> AMKept(r)] : r \in MCAgentRequests["transform"]}
                       \cup {[blocks |-> AMText(AMWords(0, 1, 1), AMWords(0, 1, 0)), kept |-> AMKept({})],
                             [blocks |-> <<AMText2[2], AMText2[1]>>, kept |-> AMKept({})],
                             [blocks |-> AMText(AMWords(1, 0, 2), AMWords(0, 1, 0)), kept |-> AMKept({AMTerm("term")})]})
    @@ "qa" :> {[findings |-> f, tasks |-> t] :
                   f \in {<<>>, <<AMTold("p", 1, "a"), AMTold("q", 2, "b")>>, <<AMTold("p", 1, "a"), AMTold("q", 1, "b")>>},
                   t \in {<<>>, <<AMItem("t", {"q"})>>}}
MCMappingName == <<"s1", "1">> :> "number_1" @@ <<"s2", "1">> :> "number_2"
VMWords(a, b, n) == "x" :> a @@ "y" :> b @@ "1" :> n
VMSection(k, c, words) == [key |-> k, claim |-> c, words |-> words]
MCSourceText == "v1" :> <<VMSection("s1", "c1", VMWords(1, 0, 1))>> @@ "v2" :> <<VMSection("s1", "c1", VMWords(0, 1, 1)), VMSection("s2", "none", VMWords(1, 0, 0))>>
MCContentOf == [s \in VariantSources |-> "p1"]
VMRule(label, markets, platforms) == [label |-> label, markets |-> markets, platforms |-> platforms]
VMTerms(from, to, whole, restricted, required, platforms) ==
    [market |-> "US", locales |-> {"en"}, from |-> from, to |-> to, whole |-> whole, restricted |-> restricted, required |-> required, platforms |-> platforms]
MCRegionTerms ==
    "r1" :> VMTerms(0, 2, TRUE, {VMRule("y", {"US"}, {})}, {VMRule("ad", {}, {})}, {})
    @@ "r2" :> VMTerms(1, 2, TRUE, {VMRule("x", {}, {"shop"}), VMRule("y", {"DE"}, {})}, {VMRule("ad", {}, {"shop"})}, {"shop"})
    @@ "r3" :> VMTerms(Unlimited, Unlimited, TRUE, {}, {}, {}) @@ "r4" :> VMTerms(0, 2, FALSE, {}, {}, {})
VMFor(l, m) == [locale |-> l, market |-> m, audience |-> "all"]
MCAudiences == {VMFor("en", "US"), VMFor("de", "DE")}
MCOtherTexts == {VMWords(0, 1, 1), VMWords(1, 0, 2)}
MCGlossaryBodies == {[names |-> {"x"}, entries |-> {}], [names |-> {}, entries |-> {<<"x", "y">>}]}
=============================================================================

---------------------------- MODULE MediaChecks ----------------------------
(***************************************************************************)
(* What is checked of a finished media asset: the file, picture, sound and *)
(* subtitles of a render (media_qa_service.py), the words, labels and      *)
(* rights of the asset (media_content_qa_service.py), and what it descends *)
(* from (media_asset_lineage_service.py).                                  *)
(*                                                                         *)
(* found says what each check would find now, one grade per fact, and      *)
(* changes between the checks.  A finding is its check and severity.       *)
(* Sizes, hashes, codecs and scopes are abstracted to whether they are     *)
(* what they must be.                                                      *)
(***************************************************************************)
EXTENDS Naturals, Sequences, FiniteSets, SequencesExt

CONSTANTS
    AssetRights, \* the rights an asset may name
    AssetClaims, \* the claims it may rest on
    MaxFound,    \* bound: changes of what would be found
    MaxLinks     \* bound: lineages recorded

VARIABLES
    found,   \* fact -> its grade
    changes, \* history: how many facts have changed
    qa,      \* check -> the last report, [facts, status]
    lineages,   \* lineages recorded, [claims, rights, status, facts]
    edgeAt,  \* the sources filed for the asset, by sequence
    standing \* the projection of the asset's status

checkVars == <<found, changes, qa, lineages, edgeAt, standing>>

Grounds == AssetRights \cup AssetClaims
FileFacts == {"ref", "declared", "head", "bytes", "probe", "visual", "sound", "audio",
              "tracks", "subtitle", "track", "cues"}
Gradings == FileFacts \cup {"text", "label", "port", "variant", "names"} \cup Grounds

ASSUME CheckBounds ==
    /\ IsFiniteSet(AssetRights) /\ IsFiniteSet(AssetClaims)
    /\ Grounds \cap (FileFacts \cup {"text", "label", "port", "variant", "names"}) = {}

GradesOf(f) ==
    CASE f = "ref" -> {"private", "public"}
      [] f \in {"head", "bytes"} -> {"same", "differs", "missing", "unavailable"}
      [] f \in {"visual", "audio"} -> {"same", "differs", "silent"}
      [] f = "probe" -> {"answers", "unavailable"}
      [] f \in {"sound", "tracks"} -> {"wanted", "unwanted"}   \* by the output profile
      [] f = "subtitle" -> {"there", "missing"}
      [] f = "track" -> {"named", "other", "missing"}  \* the only track is another one
      [] f = "text" -> {"same", "reordered", "changed", "unread"}
      [] f = "port" -> {"agrees", "refuses", "fails"}
      [] f = "names" -> {"all", "none"}                \* rights_snapshot_ids of the asset
      [] f \in Grounds -> {"good", "lapsed", "missing"}
      [] OTHER -> {"good", "bad"}

AllGood ==
    [f \in Gradings |->
        CASE f = "ref" -> "private" [] f \in {"head", "bytes", "visual", "audio", "text"} -> "same"
          [] f = "probe" -> "answers" [] f \in {"sound", "tracks"} -> "wanted" [] f = "subtitle" -> "there"
          [] f = "track" -> "named" [] f = "port" -> "agrees" [] f = "names" -> "all" [] OTHER -> "good"]

NoReportYet == [facts |-> AllGood, status |-> "none"]

CheckInit ==
    /\ found = AllGood /\ changes = 0
    /\ qa = [c \in {"media", "content"} |-> NoReportYet]
    /\ lineages = <<>> /\ edgeAt = <<>> /\ standing = "made"

FactChanges(f, grade) ==
    /\ changes < MaxFound /\ grade \in GradesOf(f) \ {found[f]}
    /\ found' = [found EXCEPT ![f] = grade]
    /\ changes' = changes + 1
    /\ UNCHANGED <<qa, lineages, edgeAt, standing>>

-----------------------------------------------------------------------------
(* Media QA.                                                               *)

Wrong(check) == {<<check, "error">>}
Doubt(check) == {<<check, "warning">>}

\* what a read of the object gives, when it does not give the object
ReadFindings(grade) ==
    IF grade \in {"missing", "differs"} THEN Wrong("file")
    ELSE IF grade = "unavailable" THEN Doubt("file") ELSE {}

(* The bytes are fetched once the head is there.                           *)
FileFindings(d) ==
    IF d["ref"] = "public" THEN Wrong("file")
    ELSE (IF d["declared"] = "bad" THEN Wrong("file") ELSE {})
         \cup ReadFindings(d["head"])
         \cup (IF d["head"] \in {"same", "differs"} THEN ReadFindings(d["bytes"]) ELSE {})

Compared(check, grade) ==
    IF grade = "differs" THEN Wrong(check) ELSE IF grade = "silent" THEN Doubt(check) ELSE {}

(* A profile without sound is content with a probe that is silent on it.   *)
ProbeFindings(d) ==
    IF d["probe"] = "unavailable" THEN Doubt("visual") \cup Doubt("audio")
    ELSE Compared("visual", d["visual"])
         \cup IF d["sound"] = "unwanted" /\ d["audio"] = "silent" THEN {} ELSE Compared("audio", d["audio"])

CueFindings(d) == IF d["cues"] = "bad" THEN Wrong("subtitle") ELSE {}

(* A subtitle's only track stands for the one the profile names.           *)
SubtitleFindings(d) ==
    IF d["subtitle"] = "missing" THEN IF d["tracks"] = "wanted" THEN Wrong("subtitle") ELSE {}
    ELSE IF d["tracks"] = "wanted" /\ d["track"] = "missing" THEN Wrong("subtitle") ELSE CueFindings(d)

StatusOf(findings) ==
    IF \E f \in findings : f[2] = "error" THEN "failed"
    ELSE IF findings # {} THEN "needs_review" ELSE "passed"

FileReport(check, findings) ==
    /\ qa' = [qa EXCEPT ![check] = [facts |-> found, status |-> StatusOf(findings)]]
    /\ UNCHANGED <<found, changes, lineages, edgeAt, standing>>

RunMediaQA == FileReport("media", FileFindings(found) \cup ProbeFindings(found) \cup SubtitleFindings(found))

-----------------------------------------------------------------------------
(* Content QA.                                                             *)

(* Words are compared as bags.                                             *)
TokenFindings(d) ==
    IF d["text"] = "unread" THEN Doubt("tokens")
    ELSE IF d["text"] = "changed" THEN Wrong("tokens") ELSE {}

LabelFindings(d) == IF d["label"] = "bad" THEN Wrong("label") ELSE {}

Supplied(d, things) == {t \in things : d[t] # "missing"}
NamedRights(d) == IF d["names"] = "all" THEN AssetRights ELSE {}

NamedMissing(d) == ~(NamedRights(d) \subseteq Supplied(d, AssetRights))

(* Every right the asset names must be supplied; one that allows the use   *)
(* is enough.                                                              *)
AssetRightsFindings(d) ==
    LET allowing == {r \in Supplied(d, AssetRights) : d[r] = "good"}
    IN  (IF NamedMissing(d) \/ allowing = {} THEN Wrong("rights") ELSE {})
        \cup CASE d["port"] = "refuses" -> Wrong("rights") [] d["port"] = "fails" -> Doubt("rights") [] OTHER -> {}

SaveContentReport(findings) == FileReport("content", findings)

RunContentQA == SaveContentReport(TokenFindings(found) \cup LabelFindings(found) \cup AssetRightsFindings(found))

-----------------------------------------------------------------------------
(* Lineage.                                                                *)

(* Rights come before claims and the variant.                              *)
LineageStatus(d, claims, rights) ==
    IF \E r \in rights : d[r] # "good" THEN "withdrawn"
    ELSE IF d["variant"] = "bad" \/ \E c \in claims : d[c] # "good" THEN "blocked" ELSE "valid"

LineageSources(claims, rights) == <<"variant">> \o SetToSeq(claims) \o SetToSeq(rights)

(* The edges are filed by sequence over those of an earlier lineage.       *)
SaveLineage(lineage, sources) ==
    /\ lineages' = Append(lineages, lineage)
    /\ edgeAt' = [n \in 1 .. IF Len(edgeAt) > Len(sources) THEN Len(edgeAt) ELSE Len(sources) |->
                     IF n <= Len(sources) THEN sources[n] ELSE edgeAt[n]]
    /\ standing' = IF lineage.status = "valid" THEN "made" ELSE lineage.status

(* The rights supplied are those the asset names, if it names any.         *)
CreateAssetVersion(claims) ==
    LET rights == Supplied(found, AssetRights)
        status == LineageStatus(found, claims, rights)
    IN  /\ Len(lineages) < MaxLinks
        /\ found["names"] = "all" => rights = AssetRights
        /\ SaveLineage([claims |-> claims, rights |-> rights, status |-> status, facts |-> found],
                       LineageSources(claims, rights))
        /\ UNCHANGED <<found, changes, qa>>

WithdrawAsset ==
    /\ standing' = "withdrawn"
    /\ UNCHANGED <<found, changes, qa, lineages, edgeAt>>

(* The first service reads the facts of the file, the others the rest.     *)
FileNext ==
    \/ \E f \in FileFacts : \E grade \in GradesOf(f) : FactChanges(f, grade)
    \/ RunMediaQA

AssetNext ==
    \/ \E f \in Gradings \ FileFacts : \E grade \in GradesOf(f) : FactChanges(f, grade)
    \/ RunContentQA
    \/ \E claims \in SUBSET Supplied(found, AssetClaims) : CreateAssetVersion(claims)
    \/ WithdrawAsset

-----------------------------------------------------------------------------
CheckTypeOK ==
    /\ \A f \in Gradings : found[f] \in GradesOf(f)
    /\ changes \in 0 .. MaxFound
    /\ \A c \in DOMAIN qa : qa[c].status \in {"none", "passed", "failed", "needs_review"}
    /\ standing \in {"made", "blocked", "withdrawn"}

(* A file that passed is the object declared, and shows what the profile   *)
(* asks for; what nobody could look at was never said to be wrong, nor     *)
(* passed.  Two holes are left: the sound of a profile without sound, and  *)
(* a single track under another name.                                      *)
FileSound ==
    LET d == qa["media"].facts
    IN  /\ qa["media"].status = "passed" =>
               /\ d["ref"] = "private" /\ d["head"] = "same" /\ d["bytes"] = "same" /\ d["declared"] = "good"
               /\ d["probe"] = "answers" /\ d["visual"] = "same"
               /\ d["sound"] = "wanted" => d["audio"] = "same"
               /\ d["tracks"] = "wanted" => d["subtitle"] = "there" /\ d["track"] # "missing" /\ d["cues"] = "good"
        /\ qa["media"].status = "needs_review" =>
               {"unavailable", "silent"} \cap {d[f] : f \in {"head", "bytes", "probe", "visual", "audio"}} # {}

(* Content that passed can be shown: it is labelled, every right it names  *)
(* was supplied, and one of those supplied allows it.                      *)
ContentSound ==
    LET d == qa["content"].facts
    IN  qa["content"].status = "passed" =>
            /\ d["label"] = "good" /\ d["text"] \in {"same", "reordered"}
            /\ \E r \in AssetRights : d[r] = "good"
            /\ d["names"] = "all" => \A r \in AssetRights : d[r] # "missing"

(* The two services agree: where the lineage of an asset with rights is    *)
(* valid, its rights pass.                                                 *)
RightsAgree ==
    \A n \in DOMAIN lineages :
        LET l == lineages[n]
        IN  l.status = "valid" /\ l.rights # {} /\ l.facts["port"] = "agrees" => AssetRightsFindings(l.facts) = {}

(* The sources of the last lineage are all filed, and an asset neither     *)
(* blocked nor withdrawn has a last lineage that held.                     *)
EdgesFiled ==
    lineages # <<>> =>
        LET l == Last(lineages)
        IN  /\ {"variant"} \cup l.claims \cup l.rights \subseteq {edgeAt[n] : n \in DOMAIN edgeAt}
            /\ standing = "made" => l.status = "valid" /\ \A t \in l.claims \cup l.rights : l.facts[t] = "good"
=============================================================================

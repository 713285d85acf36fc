----------------------------- MODULE MediaChain -----------------------------
(***************************************************************************)
(* How a variant becomes a video plan: scripts, storyboards, visual asset  *)
(* sets, subtitles and output specifications, five services that each keep *)
(* immutable versions of what they make.                                   *)
(*                                                                         *)
(* A line is what a store files under one natural key: <<kind, source,     *)
(* storyboard or 0>>.  Its versions are numbered from one, each built from *)
(* the one before it.  A service reads its sources and the current version *)
(* without the lock, builds the next version, and hands it to the store,   *)
(* which decides under its lock.  A version is known by its place in made. *)
(***************************************************************************)
EXTENDS Naturals, Sequences, FiniteSets, FiniteSetsExt, Functions, TLC

CONSTANTS
    Editors,      \* threads that call the services
    MediaKeys,    \* idempotency keys
    SegmentEnds,  \* for each duration on offer, where its three segments end
    SpokenBudget, \* for each duration, the words that can be spoken in it
    CtaWords,     \* the words of the closing call
    BlocksOf,     \* for each variant body, the words of the first sentence and of all the blocks
                  \* that refer to a claim, [sentence, words]
    EditOf,       \* for each script edit, the segment it sets and its words
    PlanOf,       \* for each shot plan, its shots, [segment, start, end]
    CuesOf,       \* for each track, its cues, [segment, start, end]
    ItemsOf,      \* for each list of visual items, its items, [role, time]
    ProfilesOf,   \* for each list of output profiles, its profiles, [ratio, width, height]
    MaxMade       \* bound: versions a behaviour adds to those

VARIABLES
    made,     \* every version, in the order the stores took them
    current,  \* line -> the version its root points at
    commands, \* <<kind, operation, key>> -> [request, version] remembered
    drafts,   \* editor -> the version it has built, not stored yet
    ground    \* what is in order of variant, claims, assets and rights

mediaVars == <<made, current, commands, drafts, ground>>

Ground == {"variant", "claims", "assets", "rights"}
NoDraft == [line |-> <<>>]
Durations == DOMAIN SegmentEnds

(* The segments of a script follow one another, the parts of a plan or a   *)
(* track name one of them, and only keyframes have a time.                 *)
Parts3 == [segment : 1 .. 3, start : Nat, end : Nat]
ASSUME MediaBounds ==
    /\ SpokenBudget \in [Durations -> Nat] /\ CtaWords \in Nat
    /\ \A d \in Durations : /\ SegmentEnds[d] \in [1 .. 3 -> Nat]
                           /\ 0 < SegmentEnds[d][1]
                           /\ SegmentEnds[d][1] < SegmentEnds[d][2] /\ SegmentEnds[d][2] < SegmentEnds[d][3]
    /\ \A b \in DOMAIN BlocksOf : BlocksOf[b] \in [sentence : Nat, words : Nat]
    /\ \A p \in DOMAIN PlanOf : PlanOf[p] \in Seq(Parts3) \ {<<>>}
    /\ \A t \in DOMAIN CuesOf : CuesOf[t] \in Seq(Parts3)
    /\ \A l \in DOMAIN ItemsOf : \A n \in DOMAIN ItemsOf[l] :
           ItemsOf[l][n].time \in Nat /\ (ItemsOf[l][n].role # "keyframe" => ItemsOf[l][n].time = 0)

Of(kind) == {i \in DOMAIN made : made[i].line[1] = kind}
Lines(kind) == {made[i].line : i \in Of(kind)}
Latest(line) == made[current[line]]
Duration(i) == made[i].duration

(* Some first versions are in place, each made by a command with key k0.   *)
MediaInit(started) ==
    /\ made = started
    /\ current = [line \in {made[i].line : i \in DOMAIN made} |->
                     CHOOSE i \in DOMAIN made : made[i].line = line]
    /\ commands = [c \in {<<made[i].line[1], "create", "k0">> : i \in DOMAIN made} |->
                     LET i == CHOOSE i \in DOMAIN made : made[i].line[1] = c[1]
                     IN  [request |-> <<made[i].line, 0, made[i].body>>, version |-> i]]
    /\ drafts = [e \in Editors |-> NoDraft]
    /\ ground = Ground

-----------------------------------------------------------------------------
(* The material of a version: what it is made of and how long it lasts.    *)

Material(script, board, visuals, duration, words) ==
    [script |-> script, board |-> board, visuals |-> visuals, duration |-> duration, words |-> words]

BoardMaterial(s) == Material(s, 0, 0, Duration(s), <<>>)
VisualMaterial(s, b) == Material(s, b, 0, Duration(s), <<>>)
SubtitleMaterial(s, b) == Material(s, b, 0, Duration(s), <<>>)
SpecMaterial(v) == Material(made[v].script, made[v].board, v, Duration(v), <<>>)

(* A draft for an operation whose key has not been used: a key that has    *)
(* been used is answered, or refused for another request.                  *)
Draft(e, op, key, line, number, body, material) ==
    /\ drafts[e] = NoDraft
    /\ <<line[1], op, key>> \notin DOMAIN commands
    /\ drafts' = [drafts EXCEPT ![e] =
           [line |-> line, number |-> number, body |-> body, material |-> material,
            base |-> IF number = 1 THEN 0 ELSE current[line], op |-> op, key |-> key]]
    /\ UNCHANGED <<made, current, commands, ground>>

(* The first segment says the opening sentence, the second as much of the  *)
(* blocks as the budget leaves, the third the closing call.                *)
TemplateWords(body, duration) ==
    LET budget == SpokenBudget[duration]
        blocks == BlocksOf[body]
        limit == Max({1, Min({budget \div 5, budget - CtaWords - 1})})
        hook == Min({blocks.sentence, limit})
    IN  <<hook, Min({blocks.words, budget - hook - CtaWords}), CtaWords>>

Spoken(words) == words[1] + words[2] + words[3]

(* The variant is approved under a policy; its claims are verified, fresh  *)
(* and apply to it.                                                        *)
Approved == "variant" \in ground
ClaimsHold == "claims" \in ground

(* Some block of the body refers to a claim.                               *)
Bound(body) == BlocksOf[body].words > 0

CreateScript(e, key, duration, body) ==
    /\ Approved /\ ClaimsHold /\ Bound(body)
    /\ Draft(e, "create", key, <<"script", duration, 0>>, 1, body,
             Material(0, 0, 0, duration, TemplateWords(body, duration)))

EditScript(e, key, line, edit) ==
    LET last == Latest(line)
        words == [last.words EXCEPT ![EditOf[edit].segment] = EditOf[edit].words]
    IN  /\ Approved /\ ClaimsHold
        /\ words # last.words
        /\ Spoken(words) <= SpokenBudget[last.duration]
        /\ Draft(e, "edit", key, line, last.number + 1, edit,
                 Material(0, 0, 0, last.duration, words))

SegmentFrom(d, n) == IF n = 1 THEN 0 ELSE SegmentEnds[d][n - 1]
Inside(part, d) ==
    /\ part.start >= SegmentFrom(d, part.segment)
    /\ part.end <= SegmentEnds[d][part.segment]

(* Shots follow one another without a gap, stay within their segments and  *)
(* reach the end of the script.                                            *)
PlanFits(plan, d) ==
    LET shots == PlanOf[plan]
        before(i) == IF i = 1 THEN 0 ELSE shots[i - 1].end
    IN  /\ \A i \in DOMAIN shots :
               shots[i].start = before(i) /\ shots[i].end > shots[i].start /\ Inside(shots[i], d)
        /\ shots[Len(shots)].end = SegmentEnds[d][3]

(* Assets are approved for the same variant, region and policy; rights are *)
(* verified, in time and wide enough.                                      *)
AssetsHold == "assets" \in ground
RightsCover == "rights" \in ground

CreateStoryboard(e, key, script, plan) ==
    /\ PlanFits(plan, Duration(script)) /\ AssetsHold /\ RightsCover
    /\ Draft(e, "create", key, <<"board", script, 0>>, 1, plan, BoardMaterial(script))

ReviseStoryboard(e, key, line, plan) ==
    LET last == Latest(line)
    IN  /\ PlanFits(plan, Duration(last.script)) /\ AssetsHold /\ RightsCover
        /\ Draft(e, "revise", key, line, last.number + 1, plan, BoardMaterial(last.script))

(* The storyboard a caller names, if any, must be one of the script.       *)
VisualBoards(script) == {0} \cup {b \in Of("board") : made[b].script = script}

VisualAssetsHold == "assets" \in ground
VisualRightsCover == "rights" \in ground

(* A cover or a thumbnail, and keyframes at different times of the script. *)
ItemsFit(list, d) ==
    LET items == ItemsOf[list]
        keyframes == {n \in DOMAIN items : items[n].role = "keyframe"}
    IN  /\ keyframes # DOMAIN items
        /\ \A n \in keyframes : /\ items[n].time < SegmentEnds[d][3]
                                /\ \A m \in keyframes \ {n} : items[m].time # items[n].time
        /\ VisualAssetsHold /\ VisualRightsCover

CreateAssetSet(e, key, script, board, items) ==
    /\ board \in VisualBoards(script) /\ ItemsFit(items, Duration(script))
    /\ Draft(e, "create", key, <<"visuals", script, board>>, 1, items, VisualMaterial(script, board))

ReviseAssetSet(e, key, line, items) ==
    LET last == Latest(line)
    IN  /\ ItemsFit(items, last.duration)
        /\ Draft(e, "revise", key, line, last.number + 1, items, VisualMaterial(last.script, last.board))

SubtitleBoards(script) == {0} \cup {b \in Of("board") : made[b].script = script}

(* Cues of a track are in order, do not overlap and stay in their segment. *)
TrackFits(track, d) ==
    LET cues == CuesOf[track]
        before(i) == IF i = 1 THEN 0 ELSE cues[i - 1].end
    IN  \A i \in DOMAIN cues :
            cues[i].start >= before(i) /\ cues[i].end > cues[i].start /\ Inside(cues[i], d)

CreateSubtitle(e, key, script, board, track) ==
    /\ board \in SubtitleBoards(script)
    /\ TrackFits(track, Duration(script))
    /\ Draft(e, "create", key, <<"subtitle", script, board>>, 1, track, SubtitleMaterial(script, board))

ReviseSubtitle(e, key, line, track) ==
    LET last == Latest(line)
    IN  /\ TrackFits(track, Duration(last.script))
        /\ Draft(e, "revise", key, line, last.number + 1, track, SubtitleMaterial(last.script, last.board))

Ratios == "9:16" :> <<9, 16>> @@ "1:1" :> <<1, 1>> @@ "16:9" :> <<16, 9>>

(* A profile is of a known aspect ratio, and its sides are even, not too   *)
(* long and in that ratio.                                                 *)
ProfileFits(p) ==
    /\ p.ratio \in DOMAIN Ratios
    /\ \A side \in {p.width, p.height} : side \in 2 .. 7680 /\ side % 2 = 0
    /\ p.width * Ratios[p.ratio][2] = p.height * Ratios[p.ratio][1]

(* One to three profiles, each of another aspect ratio.                    *)
ProfilesFit(list) ==
    LET profiles == ProfilesOf[list]
    IN  /\ Len(profiles) \in 1 .. 3
        /\ \A i \in DOMAIN profiles : ProfileFits(profiles[i])
        /\ \A i, j \in DOMAIN profiles : profiles[i].ratio = profiles[j].ratio => i = j

CreateOutputSpec(e, key, visuals, profiles) ==
    /\ ProfilesFit(profiles)
    /\ Draft(e, "create", key, <<"spec", visuals, 0>>, 1, profiles, SpecMaterial(visuals))

ReviseOutputSpec(e, key, line, profiles) ==
    LET last == Latest(line)
    IN  /\ ProfilesFit(profiles)
        /\ Draft(e, "revise", key, line, last.number + 1, profiles, SpecMaterial(last.visuals))

-----------------------------------------------------------------------------
(* The stores.                                                             *)

(* How many versions have been made since the start.                       *)
Added == Cardinality({c \in DOMAIN commands : c[3] # "k0"})

Unused(d) == <<d.line[1], d.op, d.key>> \notin DOMAIN commands

Filing(f, k, x) == [y \in DOMAIN f \cup {k} |-> IF y = k THEN x ELSE f[y]]

(* The row a store files for a draft.                                      *)
RowOf(d) ==
    [line |-> d.line, number |-> d.number, base |-> d.base, body |-> d.body,
     script |-> d.material.script, board |-> d.material.board, visuals |-> d.material.visuals,
     duration |-> d.material.duration, words |-> d.material.words]

File(e) ==
    LET d == drafts[e]
        v == Len(made) + 1
    IN  /\ Added < MaxMade
        /\ made' = Append(made, RowOf(d))
        /\ current' = Filing(current, d.line, v)
        /\ commands' = Filing(commands, <<d.line[1], d.op, d.key>>,
                                [request |-> <<d.line, d.number - 1, d.body>>, version |-> v])
        /\ drafts' = [drafts EXCEPT ![e] = NoDraft]
        /\ UNCHANGED ground

(* Whether a store takes a first version: nothing is filed under its key.  *)
Insertable(d) == d.op = "create" /\ Unused(d) /\ d.line \notin DOMAIN current

(* A broken variant: a version built on one that is no longer current is   *)
(* taken.                                                                  *)
AppendableLate(d) == d.op # "create" /\ Unused(d)

(* Whether a store takes a later one: the current version is still the one *)
(* the caller expected.                                                    *)
Appendable(d) == d.op # "create" /\ Unused(d) /\ Latest(d.line).number = d.number - 1

(* A store that has seen the key answers with the version the command made *)
(* or refuses the key; it refuses a second root and a version out of date. *)
Take(e) ==
    /\ drafts[e] # NoDraft
    /\ Insertable(drafts[e]) \/ Appendable(drafts[e])
    /\ File(e)

Turn(e) ==
    /\ drafts[e] # NoDraft
    /\ ~(Insertable(drafts[e]) \/ Appendable(drafts[e]))
    /\ drafts' = [drafts EXCEPT ![e] = NoDraft]
    /\ UNCHANGED <<made, current, commands, ground>>

Withdraw(thing) ==
    /\ ground = Ground
    /\ ground' = ground \ {thing}
    /\ UNCHANGED <<made, current, commands, drafts>>

ScriptNext(e, k) ==
    \/ \E d \in Durations, b \in DOMAIN BlocksOf : CreateScript(e, k, d, b)
    \/ \E line \in Lines("script"), x \in DOMAIN EditOf : EditScript(e, k, line, x)

BoardNext(e, k) ==
    \E p \in DOMAIN PlanOf :
        \/ \E s \in Of("script") : CreateStoryboard(e, k, s, p)
        \/ \E line \in Lines("board") : ReviseStoryboard(e, k, line, p)

VisualNext(e, k) ==
    \E i \in DOMAIN ItemsOf :
        \/ \E s \in Of("script"), b \in {0} \cup Of("board") : CreateAssetSet(e, k, s, b, i)
        \/ \E line \in Lines("visuals") : ReviseAssetSet(e, k, line, i)

SubtitleNext(e, k) ==
    \E t \in DOMAIN CuesOf :
        \/ \E s \in Of("script"), b \in {0} \cup Of("board") : CreateSubtitle(e, k, s, b, t)
        \/ \E line \in Lines("subtitle") : ReviseSubtitle(e, k, line, t)

SpecNext(e, k) ==
    \E p \in DOMAIN ProfilesOf :
        \/ \E v \in Of("visuals") : CreateOutputSpec(e, k, v, p)
        \/ \E line \in Lines("spec") : ReviseOutputSpec(e, k, line, p)

(* The stores' decisions, and what happens outside.                        *)
StoreNext ==
    \/ \E e \in Editors : Take(e) \/ Turn(e)
    \/ \E thing \in Ground : Withdraw(thing)

-----------------------------------------------------------------------------
MediaTypeOK ==
    /\ \A i \in DOMAIN made : made[i].number \in 1 .. MaxMade + 1 /\ made[i].base < i
    /\ DOMAIN current = {made[i].line : i \in DOMAIN made}
    /\ \A c \in DOMAIN commands : commands[c].version \in DOMAIN made
    /\ DOMAIN drafts = Editors

(* The versions of a line are numbered without a gap, each supersedes the  *)
(* one before it, and the root points at the last: no edit is lost.        *)
LinesLinear ==
    \A i \in DOMAIN made :
        LET line == made[i].line
            peers == {j \in DOMAIN made : made[j].line = line}
        IN  /\ {made[j].number : j \in peers} = 1 .. Cardinality(peers)
            /\ made[i].number = 1 <=> made[i].base = 0
            /\ made[i].base # 0 => made[made[i].base].line = line
                                   /\ made[made[i].base].number = made[i].number - 1
            /\ Latest(line).number = Cardinality(peers)

(* Each version was made by one command, and a command made one version.   *)
MadeOnce ==
    \A i \in DOMAIN made : \E c \in DOMAIN commands :
        commands[c].version = i /\ \A o \in DOMAIN commands \ {c} : commands[o].version # i

(* What a version is made of belongs together, down to the script, and no  *)
(* revision changes it.                                                    *)
LineageKept ==
    \A i \in DOMAIN made :
        LET v == made[i]
        IN  /\ v.script # 0 => v.script \in Of("script") /\ v.duration = Duration(v.script)
            /\ v.board # 0 => v.board \in Of("board") /\ made[v.board].script = v.script
            /\ v.visuals # 0 => /\ v.visuals \in Of("visuals")
                                /\ made[v.visuals].script = v.script
                                /\ made[v.visuals].board = v.board
            /\ v.base # 0 => LET b == made[v.base]
                             IN  b.script = v.script /\ b.board = v.board /\ b.visuals = v.visuals

(* Every moment of a script is shown by one shot of a storyboard, under    *)
(* the segment it belongs to, no two captions of a track are shown at      *)
(* once, a keyframe is a moment of its script, and a script can be spoken  *)
(* in its time.                                                            *)
Shown(parts, t) == {n \in DOMAIN parts : parts[n].start <= t /\ t < parts[n].end}
SegmentAt(d, t) == CHOOSE n \in 1 .. 3 : SegmentFrom(d, n) <= t /\ t < SegmentEnds[d][n]

TimeKept ==
    /\ \A i \in Of("board") : \A t \in 0 .. SegmentEnds[Duration(i)][3] - 1 :
           \E n \in DOMAIN PlanOf[made[i].body] :
               /\ Shown(PlanOf[made[i].body], t) = {n}
               /\ PlanOf[made[i].body][n].segment = SegmentAt(Duration(i), t)
    /\ \A i \in Of("subtitle") : \A t \in 0 .. SegmentEnds[Duration(i)][3] - 1 :
           Cardinality(Shown(CuesOf[made[i].body], t)) <= 1
    /\ \A i \in Of("visuals") : \A n \in DOMAIN ItemsOf[made[i].body] :
           ItemsOf[made[i].body][n].time \in 0 .. SegmentEnds[Duration(i)][3] - 1
    /\ \A i \in Of("script") : Spoken(made[i].words) <= SpokenBudget[Duration(i)]
=============================================================================

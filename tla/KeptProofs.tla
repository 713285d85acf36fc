----------------------------- MODULE KeptProofs -----------------------------
(***************************************************************************)
(* What the services keep of deliveries, money and reports, for every set  *)
(* of subjects, sessions, calls, policies and observations.                *)
(*                                                                         *)
(* AccessKept: what is clicked in the browser of an account is proved here *)
(* on top of the invariant of the window in ServiceProofs, and put         *)
(* together with what DeliveryProofs proves of the gate, the leases of     *)
(* tokens, the accounts, the targets and the handover.                     *)
(*                                                                         *)
(* BudgetKept rests on facts about sums, and ReportsKept on facts about    *)
(* folds: both are what a function on the subsets of a finite set says of  *)
(* the whole, and what holds of it is proved by a smallest subset it fails *)
(* of.                                                                     *)
(*                                                                         *)
(* Each is proved of a specification in which the services concerned are   *)
(* moved by their own commands at any time, and then of the Spec of        *)
(* ServicesMC itself.                                                      *)
(***************************************************************************)
EXTENDS ServiceProofs, DeliveryProofs

-----------------------------------------------------------------------------
(* The clicks of a browser window. A launch is in one place at a time: its *)
(* request, the file of commands, or the hand of one runner, where it is   *)
(* waiting until its button was clicked; and only one runner has a window. *)
RowBears(row) ==
    (IF row.at = "starting" THEN {row.first} ELSE {}) \cup Range(row.taken) \cup ({row.doing} \ {NoLaunch})
RowWaits(row) == RowBears(row) \ (IF row.phase \in {"clicked", "replied"} THEN {row.doing} ELSE {})

Bears(r) == RowBears(runner[r])
Waiting(r) == RowWaits(runner[r])
AtWindow(r) == runner[r].at = "live"

PublishAsked(j) == OrderOf[j].target = "publish" /\ OrderOf[j].auto /\ "publish" \in optIn
ReplyAsked(j) == OrderOf[j].target = "inbox" /\ OrderOf[j].send /\ "reply" \in optIn

RowSound(row) ==
    /\ IsInjective(row.taken) /\ row.doing \notin Range(row.taken)
    /\ row.at = "starting" => row.first \in Launches
    /\ row.phase \notin {"-", "emptying"} => row.doing \in Launches
    /\ row.phase \in {"clicking", "clicked"} => PublishAsked(row.doing)
    /\ row.phase \in {"replying", "replied"} => ReplyAsked(row.doing)
    /\ row.phase = "emptying" => IsInjective(row.seen)

ToldOf(r) ==
    /\ runner[r].phase = "clicking" => launch[runner[r].doing].status = "submitting_publish"
    /\ runner[r].phase = "replying" => launch[runner[r].doing].status = "inbox_scanned"

LetFor(j) ==
    /\ ActionOf(OrderOf[j]) = "publish" => ~sawRules[j].stop /\ sawRules[j].submit
    /\ ActionOf(OrderOf[j]) = "reply" => ~sawRules[j].stop /\ sawRules[j].reply

WellAsked(j) ==
    /\ ~sawRules[j].stop
    /\ CASE OrderOf[j].target = "publish" -> sawRules[j].submit /\ "publish" \in optIn
         [] OTHER -> sawRules[j].reply /\ "reply" \in optIn

NotBegun == {"draft_prepared", "reply_ready", "preparing", "command_queued", "login_required"}

ClickSound(j) ==
    /\ request[j] = "done" /\ j \notin Range(queue4) /\ \A r \in Runners : j \notin Waiting(r)
    /\ WellAsked(j) /\ launch[j].status \notin NotBegun

ClickInv ==
    /\ clicks \in [Launches -> {0, 1}] /\ DOMAIN sawRules = Launches
    /\ \A j \in Launches : request[j] # "new" => LetFor(j)
    /\ \A j \in Launches : request[j] # "done" => j \notin Range(queue4) /\ \A r \in Runners : j \notin Bears(r)
    /\ IsInjective(queue4)
    /\ \A r \in Runners :
          /\ RowSound(runner[r]) /\ ToldOf(r) /\ Range(queue4) \cap Bears(r) = {}
          /\ runner[r].phase = "emptying" => Range(runner[r].seen) \subseteq Range(queue4)
    /\ \A r, q \in Runners : r # q => Bears(r) \cap Bears(q) = {} /\ ~(AtWindow(r) /\ AtWindow(q))
    /\ \A j \in Launches : clicks[j] = 1 => ClickSound(j)

LEMMA IdleRow ==
    /\ Idle4 \in RunnerRow /\ Idle4.at = "none" /\ Idle4.taken = <<>> /\ Idle4.doing = NoLaunch /\ Idle4.phase = "-"
    /\ RowBears(Idle4) = {} /\ RowSound(Idle4)
<1>1. /\ Idle4 \in RunnerRow /\ Idle4.at = "none" /\ Idle4.taken = <<>> /\ Idle4.doing = NoLaunch
      /\ Idle4.phase = "-"
  BY DEF Idle4, RunnerRow, Phases
<1>2. Range(<<>>) = {} /\ IsInjective(<<>>)
  BY DEF Range, IsInjective
<1> QED
  BY <1>1, <1>2 DEF RowBears, RowSound

LEMMA ClicksStart == SessionInit => ClickInv
<1> SUFFICES ASSUME SessionInit PROVE ClickInv
  OBVIOUS
<1>1. \A r \in Runners : runner[r] = Idle4
  BY DEF SessionInit
<1>2. \A r \in Runners : Bears(r) = {} /\ RowSound(runner[r]) /\ ToldOf(r) /\ ~AtWindow(r) /\ runner[r].phase = "-"
  BY <1>1, IdleRow DEF Bears, ToldOf, AtWindow
<1>3. queue4 = <<>> /\ Range(<<>>) = {} /\ IsInjective(<<>>)
  BY DEF SessionInit, Range, IsInjective
<1>4. /\ clicks \in [Launches -> {0, 1}] /\ DOMAIN sawRules = Launches
      /\ \A j \in Launches : request[j] = "new" /\ clicks[j] # 1
  BY DEF SessionInit
<1> QED
  BY <1>2, <1>3, <1>4 DEF ClickInv

LEMMA ClicksTold == ClickInv => ClickedOnce /\ ClickTold
BY DEF ClickInv, ClickSound, WellAsked, NotBegun, ClickedOnce, ClickTold

(* A list that holds nothing twice, when one is taken off or added.        *)
LEMMA OneTakenOff ==
    ASSUME NEW S, NEW s \in Seq(S), IsInjective(s), s # <<>>
    PROVE  IsInjective(Tail(s)) /\ Head(s) \notin Range(Tail(s))
<1>1. DOMAIN s = 1 .. Len(s) /\ Len(s) \in Nat /\ \A m, n \in 1 .. Len(s) : s[m] = s[n] => m = n
  BY LenProperties DEF IsInjective
<1>2. /\ Head(s) = s[1] /\ Len(s) \in Nat \ {0} /\ DOMAIN Tail(s) = 1 .. Len(s) - 1
      /\ \A i \in 1 .. Len(s) - 1 : Tail(s)[i] = s[i + 1]
  BY HeadTailProperties, LenProperties, EmptySeq
<1>3. \A m \in DOMAIN Tail(s) : m \in Nat /\ m + 1 \in 1 .. Len(s) /\ m + 1 # 1 /\ Tail(s)[m] = s[m + 1]
  BY <1>2
<1>4. \A m, n \in DOMAIN Tail(s) : Tail(s)[m] = Tail(s)[n] => m = n
  BY <1>1, <1>3
<1>5. \A m \in DOMAIN Tail(s) : Tail(s)[m] # s[1]
  BY <1>1, <1>2, <1>3
<1>6. PICK rest : rest = Tail(s)
  OBVIOUS
<1>7. IsInjective(rest)
  BY <1>4, <1>6 DEF IsInjective
<1>8. Head(s) \notin Range(rest)
  BY <1>2, <1>5, <1>6 DEF Range
<1> QED
  BY <1>6, <1>7, <1>8

LEMMA OnePutIn ==
    ASSUME NEW S, NEW s \in Seq(S), IsInjective(s), NEW e \in S, e \notin Range(s)
    PROVE  IsInjective(Append(s, e))
<1>1. DOMAIN s = 1 .. Len(s) /\ Len(s) \in Nat /\ \A m, n \in 1 .. Len(s) : s[m] = s[n] => m = n
  BY LenProperties DEF IsInjective
<1>2. /\ DOMAIN Append(s, e) = 1 .. Len(s) + 1
      /\ \A i \in 1 .. Len(s) : Append(s, e)[i] = s[i]
      /\ Append(s, e)[Len(s) + 1] = e
  BY AppendProperties
<1>3. \A i \in 1 .. Len(s) : s[i] # e
  BY <1>1 DEF Range
<1>4. \A m \in DOMAIN Append(s, e) : m \in 1 .. Len(s) \/ m = Len(s) + 1
  BY <1>1, <1>2
<1>5. \A m, n \in DOMAIN Append(s, e) : Append(s, e)[m] = Append(s, e)[n] => m = n
  BY <1>1, <1>2, <1>3, <1>4
<1> QED
  BY <1>5 DEF IsInjective

(* A step of one runner: it bears no more than before, and what was        *)
(* clicked was in its hand, or has been clicked before.                    *)
LEMMA RunnerTurns ==
    ASSUME ClickInv, WindowInv, WindowInv', NEW r \in Runners,
           \A q \in Runners \ {r} : runner'[q] = runner[q],
           UNCHANGED <<request, sawRules, queue4, optIn>>,
           Bears(r)' \subseteq Bears(r), Bears(r) \subseteq Launches,
           RowSound(runner[r])', ToldOf(r)',
           (runner[r].phase = "emptying")' => (Range(runner[r].seen) \subseteq Range(queue4))',
           AtWindow(r)' => AtWindow(r) \/ \A q \in Runners : ~AtWindow(q),
           AtWindow(r) \/ \A j \in Launches \ Bears(r) : launch'[j] = launch[j],
           clicks' \in [Launches -> {0, 1}],
           \A j \in Launches : clicks'[j] = 1 =>
              /\ clicks[j] = 1 \/ (j \in Bears(r) /\ WellAsked(j))
              /\ j \notin Waiting(r)'
              /\ launch'[j].status \notin NotBegun
    PROVE  ClickInv'
<1>1. \A q \in Runners \ {r} : Bears(q)' = Bears(q) /\ Waiting(q)' = Waiting(q) /\ AtWindow(q)' = AtWindow(q)
  BY DEF Bears, Waiting, AtWindow
<1>2. \A q \in Runners \ {r} : RowSound(runner[q])' <=> RowSound(runner[q])
  BY DEF RowSound, PublishAsked, ReplyAsked
<1>3. \A q \in Runners : RunnerSound(q)
  BY DEF WindowInv
<1>4. \A q \in Runners \ {r} : ToldOf(q)'
  <2> SUFFICES ASSUME NEW q \in Runners \ {r} PROVE ToldOf(q)'
    OBVIOUS
  <2>1. runner'[q] = runner[q] /\ ToldOf(q) /\ Bears(r) \cap Bears(q) = {} /\ ~(AtWindow(r) /\ AtWindow(q))
    BY DEF ClickInv
  <2>2. CASE runner[q].phase \notin {"clicking", "replying"}
    BY <2>1, <2>2 DEF ToldOf
  <2>3. CASE runner[q].phase \in {"clicking", "replying"}
    <3>1. AtWindow(q) /\ runner[q].doing \in Launches
      BY <1>3, <2>3 DEF RunnerSound, AtWindow, ClickInv, RowSound
    <3>2. runner[q].doing \in Bears(q)
      BY <3>1, LaunchesNamed DEF Bears, RowBears
    <3>3. launch'[runner[q].doing] = launch[runner[q].doing]
      BY <2>1, <3>1, <3>2
    <3> QED
      BY <2>1, <3>3 DEF ToldOf
  <2> QED
    BY <2>2, <2>3
<1>5. \A q \in Runners : /\ RowSound(runner[q])' /\ ToldOf(q)' /\ (Range(queue4) \cap Bears(q))' = {}
                         /\ (runner[q].phase = "emptying")' => (Range(runner[q].seen) \subseteq Range(queue4))'
  BY <1>1, <1>2, <1>4 DEF ClickInv
<1>6. \A p, q \in Runners : p # q => (Bears(p) \cap Bears(q))' = {} /\ ~(AtWindow(p) /\ AtWindow(q))'
  BY <1>1 DEF ClickInv
<1>7. \A j \in Launches : WellAsked(j)' <=> WellAsked(j)
  BY DEF WellAsked
<1>8. ASSUME NEW j \in Launches, clicks'[j] = 1
      PROVE  ClickSound(j)'
  <2>1. j \notin Waiting(r)' /\ launch'[j].status \notin NotBegun
    BY <1>8
  <2>2. CASE clicks[j] = 1
    BY <1>1, <1>7, <2>1, <2>2 DEF ClickInv, ClickSound
  <2>3. CASE j \in Bears(r) /\ WellAsked(j)
    <3>1. request[j] = "done" /\ j \notin Range(queue4)
      BY <2>3 DEF ClickInv
    <3>2. \A q \in Runners \ {r} : j \notin Waiting(q)
      BY <2>3 DEF ClickInv, Waiting, RowWaits, Bears
    <3> QED
      BY <1>1, <1>7, <2>1, <2>3, <3>1, <3>2 DEF ClickSound
  <2> QED
    BY <1>8, <2>2, <2>3
<1>9. \A j \in Launches : request'[j] # "done" => j \notin Range(queue4)' /\ \A q \in Runners : j \notin Bears(q)'
  BY <1>1 DEF ClickInv
<1>10. DOMAIN sawRules' = Launches /\ IsInjective(queue4)' /\ \A j \in Launches : request'[j] # "new" => LetFor(j)'
  BY DEF ClickInv, LetFor
<1> QED
  BY <1>5, <1>6, <1>8, <1>9, <1>10 DEF ClickInv

(* A runner goes on with a command at the pages, or is done with it.       *)
LEMMA CommandGoes ==
    ASSUME ClickInv, WindowInv, WindowInv', NEW r \in Runners, AtWindow(r), runner[r].phase \notin {"-", "emptying"},
           NEW p \in Phases \ {"-", "emptying"}, DoneWith(r) \/ At(r, p),
           UNCHANGED <<request, sawRules, queue4, optIn>>, NEW d, d = runner[r].doing,
           \A j \in Launches \ {d} : launch'[j] = launch[j] /\ clicks'[j] = clicks[j],
           clicks' \in [Launches -> {0, 1}],
           clicks'[d] = 1 => WellAsked(d) /\ launch'[d].status \notin NotBegun /\ (DoneWith(r) \/ p \in {"clicked", "replied"}),
           p \in {"clicking", "clicked"} => PublishAsked(d), p \in {"replying", "replied"} => ReplyAsked(d),
           p = "clicking" => launch'[d].status = "submitting_publish",
           p = "replying" => launch'[d].status = "inbox_scanned"
    PROVE  ClickInv'
<1>1. runner \in [Runners -> RunnerRow] /\ runner[r] \in RunnerRow
  BY DEF WindowInv, WindowTyped
<1>2. RowSound(runner[r]) /\ d \in Launches /\ d # NoLaunch
  BY LaunchesNamed DEF ClickInv, RowSound
<1>3. PICK row : row = runner[r]
  OBVIOUS
<1>4. Bears(r) = Range(row.taken) \cup {d} /\ Range(row.taken) \subseteq Launches /\ d \notin Range(row.taken)
  BY <1>1, <1>2, <1>3, RangeOf DEF Bears, RowBears, AtWindow, RowSound, RunnerRow
<1>5. PICK new : /\ runner' = [runner EXCEPT ![r] = new]
                 /\ \/ new = [row EXCEPT !.doing = NoLaunch, !.phase = "-"] /\ DoneWith(r)
                    \/ new = [row EXCEPT !.phase = p]
  BY <1>3 DEF DoneWith, At
<1>6. /\ new.at = "live" /\ new.taken = row.taken
      /\ \/ new.doing = NoLaunch /\ new.phase = "-" /\ DoneWith(r)
         \/ new.doing = d /\ new.phase = p
  BY <1>1, <1>3, <1>5 DEF RunnerRow, AtWindow
<1>7. runner'[r] = new /\ \A q \in Runners \ {r} : runner'[q] = runner[q]
  BY <1>1, <1>5
<1>8. /\ RowBears(new) \subseteq Range(row.taken) \cup {d}
      /\ RowWaits(new) \subseteq RowWaits(row) \cup {d}
  <2>1. row.at = "live" /\ row.doing = d
    BY <1>3 DEF AtWindow
  <2> QED
    BY <1>4, <1>6, <2>1 DEF RowBears, RowWaits
<1>9. d \in RowWaits(new) => ~DoneWith(r) /\ p \notin {"clicked", "replied"}
  <2>1. CASE new.doing = NoLaunch /\ new.phase = "-"
    <3>1. d \notin RowWaits(new)
      BY <1>2, <1>4, <1>6, <2>1 DEF RowBears, RowWaits
    <3> QED
      BY <3>1
  <2>2. CASE new.doing = d /\ new.phase = p
    <3>1. p \in {"clicked", "replied"} => d \notin RowWaits(new)
      BY <2>2 DEF RowWaits
    <3>2. ~DoneWith(r)
      BY <1>2, <1>7, <2>2 DEF DoneWith, WindowInv, WindowTyped, RunnerRow
    <3> QED
      BY <3>1, <3>2
  <2> QED
    BY <1>6, <2>1, <2>2
<1>10. RowSound(new)'
  <2>1. IsInjective(new.taken) /\ new.at # "starting" /\ new.phase # "emptying"
    BY <1>2, <1>3, <1>6 DEF RowSound
  <2>2. CASE new.doing = NoLaunch /\ new.phase = "-"
    <3>1. new.doing \notin Range(new.taken)
      BY <1>4, <1>6, <2>2, LaunchesNamed
    <3> QED
      BY <2>1, <2>2, <3>1 DEF RowSound
  <2>3. CASE new.doing = d /\ new.phase = p
    <3>1. d \notin Range(new.taken)
      BY <1>4, <1>6
    <3>2. (PublishAsked(d)' <=> PublishAsked(d)) /\ (ReplyAsked(d)' <=> ReplyAsked(d))
      BY DEF PublishAsked, ReplyAsked
    <3> QED
      BY <1>2, <2>1, <2>3, <3>1, <3>2 DEF RowSound
  <2> QED
    BY <1>6, <2>2, <2>3
<1>11. Bears(r)' \subseteq Bears(r) /\ Waiting(r)' = RowWaits(new) /\ Waiting(r) = RowWaits(row) /\ RowSound(runner[r])'
  BY <1>3, <1>4, <1>7, <1>8, <1>10 DEF Bears, Waiting
<1>12. /\ ToldOf(r)'
       /\ (runner[r].phase = "emptying")' => (Range(runner[r].seen) \subseteq Range(queue4))'
  BY <1>6, <1>7 DEF ToldOf
<1>13. ASSUME NEW j \in Launches, clicks'[j] = 1
       PROVE  /\ clicks[j] = 1 \/ (j \in Bears(r) /\ WellAsked(j))
              /\ j \notin Waiting(r)'
              /\ launch'[j].status \notin NotBegun
  <2>1. CASE j = d
    BY <1>4, <1>9, <1>11, <1>13, <2>1
  <2>2. CASE j # d
    <3>1. clicks[j] = 1 /\ launch'[j] = launch[j] /\ ClickSound(j)
      BY <1>13, <2>2 DEF ClickInv
    <3> QED
      BY <1>8, <1>11, <2>2, <3>1 DEF ClickSound
  <2> QED
    BY <2>1, <2>2
<1>14. Bears(r) \subseteq Launches
  BY <1>2, <1>4
<1> QED
  BY <1>7, <1>11, <1>12, <1>13, <1>14, RunnerTurns

(* What a runner at the window knows of the launch it is doing.            *)
LEMMA Doings ==
    ASSUME ClickInv, WindowInv, NEW r \in Runners, AtWindow(r), runner[r].phase \notin {"-", "emptying"},
           NEW d, d = runner[r].doing
    PROVE  /\ d \in Launches /\ request[d] = "done" /\ LetFor(d) /\ DOMAIN launch = Launches
           /\ runner[r].phase \notin {"clicked", "replied"} => clicks[d] = 0
           /\ clicks[d] = 1 => WellAsked(d) /\ launch[d].status \notin NotBegun
<1>1. RowSound(runner[r]) /\ d \in Launches /\ d # NoLaunch
  BY LaunchesNamed DEF ClickInv, RowSound
<1>2. d \in Bears(r)
  BY <1>1 DEF Bears, RowBears
<1>3. request[d] = "done" /\ LetFor(d)
  BY <1>1, <1>2 DEF ClickInv
<1>4. runner[r].phase \notin {"clicked", "replied"} => d \in Waiting(r)
  BY <1>2 DEF Waiting, Bears, RowWaits
<1>5. clicks[d] \in {0, 1} /\ (clicks[d] = 1 => ClickSound(d))
  BY <1>1 DEF ClickInv
<1>6. runner[r].phase \notin {"clicked", "replied"} => clicks[d] = 0
  BY <1>4, <1>5 DEF ClickSound
<1>7. clicks[d] = 1 => WellAsked(d) /\ launch[d].status \notin NotBegun
  BY <1>5 DEF ClickSound
<1> QED
  BY <1>1, <1>3, <1>6, <1>7 DEF WindowInv, WindowTyped

LEMMA PagesClick ==
    ASSUME ClickInv, WindowInv, WindowInv', NEW r \in Runners, NEW well \in BOOLEAN,
           \/ FillDraft(r, well) \/ ClickPublish(r, well) \/ ScanInbox(r, well) \/ SendReply(r, well)
           \/ ReportPublish(r) \/ ReportReply(r)
    PROVE  ClickInv'
<1>1. PICK d : d = runner[r].doing
  OBVIOUS
<1>2. /\ AtWindow(r) /\ runner[r].phase \notin {"-", "emptying"}
      /\ UNCHANGED <<request, sawRules, queue4, optIn>>
  BY DEF FillDraft, ClickPublish, ScanInbox, SendReply, ReportPublish, ReportReply, Doing, AtWindow, outsideVars
<1>3. /\ d \in Launches /\ request[d] = "done" /\ LetFor(d) /\ DOMAIN launch = Launches
      /\ runner[r].phase \notin {"clicked", "replied"} => clicks[d] = 0
      /\ clicks[d] = 1 => WellAsked(d) /\ launch[d].status \notin NotBegun
  BY <1>1, <1>2, Doings
<1>4. clicks \in [Launches -> {0, 1}] /\ RowSound(runner[r]) /\ ToldOf(r)
  BY DEF ClickInv
<1>5. {"opened", "clicking", "clicked", "replying", "replied"} \subseteq Phases \ {"-", "emptying"}
  BY DEF Phases
<1>6. \A status : Tell(d, status) =>
          launch'[d].status = status /\ \A j \in Launches \ {d} : launch'[j] = launch[j]
  BY <1>3 DEF Tell, WindowInv, WindowTyped
<1>7. CASE FillDraft(r, well)
  <2>1. runner[r].phase = "opened" /\ clicks' = clicks /\ clicks[d] = 0
    BY <1>3, <1>7 DEF FillDraft, Doing
  <2>2. CASE atLogin \/ ~well
    <3>1. DoneWith(r) /\ \E status : Tell(d, status)
      BY <1>1, <1>7, <2>2 DEF FillDraft
    <3> QED
      BY <1>1, <1>2, <1>4, <1>5, <1>6, <2>1, <3>1, CommandGoes
  <2>3. CASE ~(atLogin \/ ~well)
    <3> DEFINE goesOn == OrderOf[d].auto /\ "publish" \in optIn
    <3>1. /\ launch' = [launch EXCEPT ![d] =
                 IF goesOn THEN [@ EXCEPT !.status = "submitting_publish"]
                 ELSE [status |-> "draft_prepared", submitted |-> OrderOf[d].auto]]
          /\ IF goesOn THEN At(r, "clicking") ELSE DoneWith(r)
          /\ OrderOf[d].target = "publish"
      BY <1>1, <1>7, <2>3 DEF FillDraft
    <3>2. \A j \in Launches \ {d} : launch'[j] = launch[j]
      BY <1>3, <3>1
    <3>3. CASE goesOn
      <4>1. PublishAsked(d) /\ At(r, "clicking")
        BY <3>1, <3>3 DEF PublishAsked
      <4>2. launch'[d].status = "submitting_publish"
        BY <1>3, <3>1, <3>3 DEF WindowInv, WindowTyped
      <4> QED
        BY <1>1, <1>2, <1>4, <1>5, <2>1, <3>2, <4>1, <4>2, CommandGoes
    <3>4. CASE ~goesOn
      BY <1>1, <1>2, <1>4, <1>5, <2>1, <3>1, <3>2, <3>4, CommandGoes
    <3> QED
      BY <3>3, <3>4
  <2> QED
    BY <2>2, <2>3
<1>8. CASE ClickPublish(r, well)
  <2>1. runner[r].phase = "clicking" /\ clicks[d] = 0 /\ PublishAsked(d) /\ launch[d].status = "submitting_publish"
    BY <1>1, <1>3, <1>4, <1>8 DEF ClickPublish, Doing, RowSound, ToldOf
  <2>2. CASE well
    <3>1. clicks' = [clicks EXCEPT ![d] = @ + 1] /\ At(r, "clicked") /\ launch' = launch
      BY <1>1, <1>8, <2>2 DEF ClickPublish
    <3>2. /\ clicks' \in [Launches -> {0, 1}]
          /\ \A j \in Launches \ {d} : clicks'[j] = clicks[j]
      BY <1>3, <1>4, <2>1, <3>1
    <3>3. WellAsked(d) /\ launch'[d].status \notin NotBegun
      BY <1>3, <2>1, <3>1 DEF LetFor, ActionOf, PublishAsked, WellAsked, NotBegun
    <3> QED
      BY <1>1, <1>2, <1>5, <2>1, <3>1, <3>2, <3>3, CommandGoes
  <2>3. CASE ~well
    <3>1. DoneWith(r) /\ clicks' = clicks /\ Tell(d, "operator_action_required")
      BY <1>1, <1>8, <2>3 DEF ClickPublish
    <3> QED
      BY <1>1, <1>2, <1>4, <1>5, <1>6, <2>1, <3>1, CommandGoes
  <2> QED
    BY <2>2, <2>3
<1>9. CASE ScanInbox(r, well)
  <2>1. runner[r].phase = "opened" /\ clicks' = clicks /\ clicks[d] = 0
    BY <1>3, <1>9 DEF ScanInbox, Doing
  <2>2. CASE well /\ ~atLogin /\ OrderOf[d].send /\ "reply" \in optIn
    <3>1. At(r, "replying") /\ Tell(d, "inbox_scanned") /\ ReplyAsked(d)
      BY <1>1, <1>9, <2>2 DEF ScanInbox, ReplyAsked
    <3> QED
      BY <1>1, <1>2, <1>4, <1>5, <1>6, <2>1, <3>1, CommandGoes
  <2>3. CASE ~(well /\ ~atLogin /\ OrderOf[d].send /\ "reply" \in optIn)
    <3>1. DoneWith(r) /\ \E status : Tell(d, status)
      BY <1>1, <1>9, <2>3 DEF ScanInbox
    <3> QED
      BY <1>1, <1>2, <1>4, <1>5, <1>6, <2>1, <3>1, CommandGoes
  <2> QED
    BY <2>2, <2>3
<1>10. CASE SendReply(r, well)
  <2>1. runner[r].phase = "replying" /\ clicks[d] = 0 /\ ReplyAsked(d) /\ launch[d].status = "inbox_scanned"
    BY <1>1, <1>3, <1>4, <1>10 DEF SendReply, Doing, RowSound, ToldOf
  <2>2. CASE well
    <3>1. clicks' = [clicks EXCEPT ![d] = @ + 1] /\ At(r, "replied") /\ launch' = launch
      BY <1>1, <1>10, <2>2 DEF SendReply
    <3>2. /\ clicks' \in [Launches -> {0, 1}]
          /\ \A j \in Launches \ {d} : clicks'[j] = clicks[j]
      BY <1>3, <1>4, <2>1, <3>1
    <3>3. WellAsked(d) /\ launch'[d].status \notin NotBegun
      BY <1>3, <2>1, <3>1 DEF LetFor, ActionOf, ReplyAsked, WellAsked, NotBegun
    <3> QED
      BY <1>1, <1>2, <1>5, <2>1, <3>1, <3>2, <3>3, CommandGoes
  <2>3. CASE ~well
    <3>1. DoneWith(r) /\ clicks' = clicks /\ Tell(d, "inbox_needs_operator")
      BY <1>1, <1>10, <2>3 DEF SendReply
    <3> QED
      BY <1>1, <1>2, <1>4, <1>5, <1>6, <2>1, <3>1, CommandGoes
  <2> QED
    BY <2>2, <2>3
<1>11. CASE ReportPublish(r)
  <2>1. /\ clicks' = clicks /\ DoneWith(r)
        /\ launch' = [launch EXCEPT ![d] = [status |-> "publish_submitted", submitted |-> TRUE]]
    BY <1>1, <1>11 DEF ReportPublish
  <2>2. launch'[d].status = "publish_submitted" /\ \A j \in Launches \ {d} : launch'[j] = launch[j]
    BY <1>3, <2>1
  <2>3. launch'[d].status \notin NotBegun
    BY <2>2 DEF NotBegun
  <2> QED
    BY <1>1, <1>2, <1>3, <1>4, <1>5, <2>1, <2>2, <2>3, CommandGoes
<1>12. CASE ReportReply(r)
  <2>1. clicks' = clicks /\ DoneWith(r) /\ Tell(d, "reply_submitted")
    BY <1>1, <1>12 DEF ReportReply
  <2>2. launch'[d].status \notin NotBegun
    BY <1>6, <2>1 DEF NotBegun
  <2> QED
    BY <1>1, <1>2, <1>3, <1>4, <1>5, <1>6, <2>1, <2>2, CommandGoes
<1> QED
  BY <1>7, <1>8, <1>9, <1>10, <1>11, <1>12

(* A runner opens the window, or finds another has it.                     *)
LEMMA OpensClick ==
    ASSUME ClickInv, WindowInv, WindowInv', NEW r \in Runners, OpenWindow(r)
    PROVE  ClickInv'
<1>1. runner \in [Runners -> RunnerRow] /\ runner[r] \in RunnerRow /\ RunnerSound(r) /\ DOMAIN launch = Launches
  BY DEF WindowInv, WindowTyped
<1>2. PICK row, d : row = runner[r] /\ d = runner[r].first
  OBVIOUS
<1>3. /\ row.at = "starting" /\ clicks' = clicks
      /\ UNCHANGED <<request, sawRules, queue4, optIn>>
      /\ \E status : Tell(d, status)
  BY <1>2 DEF OpenWindow, outsideVars
<1>4. /\ row.taken = <<>> /\ row.phase = "-" /\ row.doing = NoLaunch /\ Range(<<>>) = {} /\ IsInjective(<<>>)
      /\ d \in Launches /\ d # NoLaunch
  BY <1>1, <1>2, <1>3, LaunchesNamed DEF RunnerSound, ClickInv, RowSound, Range, IsInjective
<1>5. Bears(r) = {d} /\ Waiting(r) = {d}
  BY <1>2, <1>3, <1>4 DEF Bears, Waiting, RowBears, RowWaits
<1> DEFINE live == IF OrderOf[d].target = "home" THEN [row EXCEPT !.at = "live", !.doing = NoLaunch, !.phase = "-"]
                   ELSE [row EXCEPT !.at = "live", !.doing = d, !.phase = "opened"]
<1>6. \/ runner' = [runner EXCEPT ![r] = Idle4]
      \/ runner' = [runner EXCEPT ![r] = live] /\ OpenRunners = {}
  BY <1>2 DEF OpenWindow
<1>7. /\ live.at = "live" /\ live.taken = <<>>
      /\ \/ live.phase = "-" /\ live.doing = NoLaunch
         \/ live.phase = "opened" /\ live.doing = d
  BY <1>1, <1>2, <1>4 DEF RunnerRow
<1> HIDE DEF live
<1>8. PICK new : /\ runner' = [runner EXCEPT ![r] = new]
                 /\ new = Idle4 \/ (new = live /\ OpenRunners = {})
  BY <1>6
<1>9. runner'[r] = new /\ \A q \in Runners \ {r} : runner'[q] = runner[q]
  BY <1>1, <1>8
<1>10. \/ new = Idle4
       \/ /\ \A q \in Runners : ~AtWindow(q)
          /\ new.at = "live" /\ new.taken = <<>>
          /\ \/ new.phase = "-" /\ new.doing = NoLaunch
             \/ new.phase = "opened" /\ new.doing = d
  <2>1. OpenRunners = {} => \A q \in Runners : ~AtWindow(q)
    BY DEF OpenRunners, AtWindow
  <2> QED
    BY <1>7, <1>8, <2>1
<1>11. RowBears(new) \subseteq {d} /\ RowWaits(new) \subseteq {d} /\ new.phase \in {"-", "opened"} /\ RowSound(new)'
  <2>1. CASE new = Idle4
    BY <2>1, IdleRow, <1>4 DEF RowWaits, RowSound
  <2>2. CASE new # Idle4
    BY <2>2, <1>4, <1>10 DEF RowBears, RowWaits, RowSound
  <2> QED
    BY <2>1, <2>2
<1>12. /\ Bears(r)' = RowBears(new) /\ Waiting(r)' = RowWaits(new) /\ RowSound(runner[r])' /\ ToldOf(r)'
       /\ (runner[r].phase = "emptying")' => (Range(runner[r].seen) \subseteq Range(queue4))'
       /\ AtWindow(r)' => \A q \in Runners : ~AtWindow(q)
  BY <1>9, <1>10, <1>11, IdleRow DEF Bears, Waiting, ToldOf, AtWindow
<1>13. \A j \in Launches \ {d} : launch'[j] = launch[j]
  BY <1>1, <1>3 DEF Tell
<1>14. \A j \in Launches : clicks[j] = 1 => j # d /\ launch[j].status \notin NotBegun
  BY <1>5 DEF ClickInv, ClickSound
<1>15. ASSUME NEW j \in Launches, clicks'[j] = 1
       PROVE  /\ clicks[j] = 1 \/ (j \in Bears(r) /\ WellAsked(j))
              /\ j \notin Waiting(r)'
              /\ launch'[j].status \notin NotBegun
  <2>1. clicks[j] = 1 /\ j # d /\ launch[j].status \notin NotBegun
    BY <1>3, <1>14, <1>15
  <2>2. j \notin Waiting(r)'
    BY <1>11, <1>12, <2>1
  <2>3. launch'[j] = launch[j]
    BY <1>13, <2>1
  <2> QED
    BY <2>1, <2>2, <2>3
<1>16. /\ Bears(r)' \subseteq Bears(r) /\ Bears(r) \subseteq Launches /\ clicks' \in [Launches -> {0, 1}]
       /\ \A j \in Launches \ Bears(r) : launch'[j] = launch[j]
  BY <1>3, <1>4, <1>5, <1>11, <1>12, <1>13 DEF ClickInv
<1> QED
  BY <1>3, <1>9, <1>12, <1>15, <1>16, RunnerTurns

(* A runner reads the file: it bears what it did.                          *)
LEMMA ReadsClick ==
    ASSUME ClickInv, WindowInv, WindowInv', NEW r \in Runners, ReadQueue(r)
    PROVE  ClickInv'
<1>1. runner \in [Runners -> RunnerRow] /\ runner[r] \in RunnerRow /\ queue4 \in Seq(Launches) /\ RunnerSound(r)
  BY DEF WindowInv, WindowTyped
<1>2. PICK row, new : /\ row = runner[r] /\ new = [row EXCEPT !.seen = queue4, !.phase = "emptying"]
                      /\ runner' = [runner EXCEPT ![r] = new]
  BY DEF ReadQueue
<1>3. /\ row.at = "live" /\ row.taken = <<>> /\ row.phase = "-" /\ row.doing = NoLaunch
      /\ UNCHANGED <<launch, clicks, request, sawRules, queue4, optIn>>
  BY <1>1, <1>2 DEF ReadQueue, Doing, launchVars, RunnerSound
<1>4. /\ new.at = "live" /\ new.taken = <<>> /\ new.phase = "emptying" /\ new.doing = NoLaunch /\ new.seen = queue4
  BY <1>1, <1>2, <1>3 DEF RunnerRow
<1>5. runner'[r] = new /\ \A q \in Runners \ {r} : runner'[q] = runner[q]
  BY <1>1, <1>2
<1>6. Range(<<>>) = {} /\ IsInjective(<<>>) /\ IsInjective(queue4)
  BY DEF Range, IsInjective, ClickInv
<1>7. Bears(r) = {} /\ Bears(r)' = {} /\ Waiting(r)' = {}
  BY <1>2, <1>3, <1>4, <1>5, <1>6 DEF Bears, Waiting, RowBears, RowWaits
<1>8. RowSound(runner[r])' /\ ToldOf(r)'
  BY <1>4, <1>5, <1>6 DEF RowSound, ToldOf
<1>9. (runner[r].phase = "emptying")' => (Range(runner[r].seen) \subseteq Range(queue4))'
  BY <1>3, <1>4, <1>5
<1>10. AtWindow(r) /\ clicks' \in [Launches -> {0, 1}]
  BY <1>2, <1>3 DEF AtWindow, ClickInv
<1>11. \A j \in Launches : clicks'[j] = 1 =>
              /\ clicks[j] = 1 \/ (j \in Bears(r) /\ WellAsked(j))
              /\ j \notin Waiting(r)'
              /\ launch'[j].status \notin NotBegun
  BY <1>3, <1>7 DEF ClickInv, ClickSound
<1> QED
  BY <1>3, <1>5, <1>7, <1>8, <1>9, <1>10, <1>11, RunnerTurns

(* It empties the file, and bears what it had read in it.                  *)
LEMMA EmptiesClick ==
    ASSUME ClickInv, WindowInv, WindowInv', NEW r \in Runners, EmptyQueue(r)
    PROVE  ClickInv'
<1>1. runner \in [Runners -> RunnerRow] /\ runner[r] \in RunnerRow /\ queue4 \in Seq(Launches) /\ RunnerSound(r)
  BY DEF WindowInv, WindowTyped
<1>2. PICK row, new : /\ row = runner[r] /\ new = [row EXCEPT !.taken = row.seen, !.seen = <<>>, !.phase = "-"]
                      /\ runner' = [runner EXCEPT ![r] = new]
  BY DEF EmptyQueue
<1>3. /\ row.at = "live" /\ row.taken = <<>> /\ row.phase = "emptying" /\ row.doing = NoLaunch
      /\ queue4' = <<>> /\ UNCHANGED <<launch, clicks, request, sawRules, optIn>>
  BY <1>1, <1>2 DEF EmptyQueue, Doing, launchVars, RunnerSound
<1>4. new.at = "live" /\ new.taken = row.seen /\ new.phase = "-" /\ new.doing = NoLaunch
  BY <1>1, <1>2, <1>3 DEF RunnerRow
<1>5. runner'[r] = new /\ \A q \in Runners \ {r} : runner'[q] = runner[q]
  BY <1>1, <1>2
<1>6. Range(<<>>) = {} /\ IsInjective(<<>>)
  BY DEF Range, IsInjective
<1>7. IsInjective(row.seen) /\ Range(row.seen) \subseteq Range(queue4) /\ Range(queue4) \subseteq Launches
  BY <1>1, <1>2, <1>3, RangeOf DEF ClickInv, RowSound
<1>8. RowBears(row) = {} /\ RowBears(new) = Range(row.seen) /\ RowWaits(new) = Range(row.seen)
  BY <1>3, <1>4, <1>6 DEF RowBears, RowWaits
<1>9. Bears(r) = {} /\ Bears(r)' = Range(row.seen) /\ Waiting(r)' = Range(row.seen) /\ AtWindow(r)' /\ AtWindow(r)
  BY <1>2, <1>3, <1>4, <1>5, <1>8 DEF Bears, Waiting, AtWindow
<1>10. /\ Bears(r) = {} /\ Bears(r)' = Range(row.seen) /\ Waiting(r)' = Range(row.seen)
       /\ \A q \in Runners \ {r} : Bears(q)' = Bears(q) /\ Waiting(q)' = Waiting(q) /\ AtWindow(q)' = AtWindow(q)
       /\ AtWindow(r)' /\ AtWindow(r)
  <2>1. \A q \in Runners \ {r} : Bears(q)' = Bears(q) /\ Waiting(q)' = Waiting(q) /\ AtWindow(q)' = AtWindow(q)
    BY <1>5 DEF Bears, Waiting, AtWindow
  <2> QED
    BY <1>9, <2>1
<1>11. RowSound(runner[r])' /\ ToldOf(r)' /\ (runner[r].phase # "emptying")'
  BY <1>4, <1>5, <1>7, LaunchesNamed DEF RowSound, ToldOf
<1>12. \A q \in Runners \ {r} : ~AtWindow(q) /\ runner[q].phase # "emptying" /\ RowSound(runner[q])' /\ ToldOf(q)'
  <2> SUFFICES ASSUME NEW q \in Runners \ {r}
               PROVE  ~AtWindow(q) /\ runner[q].phase # "emptying" /\ RowSound(runner[q])' /\ ToldOf(q)'
    OBVIOUS
  <2>1. ~AtWindow(q) /\ RowSound(runner[q]) /\ runner'[q] = runner[q]
    BY <1>5, <1>10 DEF ClickInv
  <2>2. runner[q].phase = "-"
    BY <2>1 DEF WindowInv, RunnerSound, AtWindow
  <2> QED
    BY <2>1, <2>2 DEF RowSound, ToldOf
<1>13. \A q \in Runners : /\ RowSound(runner[q])' /\ ToldOf(q)' /\ (Range(queue4) \cap Bears(q))' = {}
                          /\ (runner[q].phase = "emptying")' => (Range(runner[q].seen) \subseteq Range(queue4))'
  BY <1>3, <1>5, <1>6, <1>11, <1>12
<1>14. \A p, q \in Runners : p # q => (Bears(p) \cap Bears(q))' = {} /\ ~(AtWindow(p) /\ AtWindow(q))'
  BY <1>7, <1>10, <1>12 DEF ClickInv
<1>15. ASSUME NEW j \in Launches
       PROVE  /\ request'[j] # "done" => j \notin Range(queue4)' /\ \A q \in Runners : j \notin Bears(q)'
              /\ clicks'[j] = 1 => ClickSound(j)'
  <2>1. request[j] # "done" => j \notin Range(queue4) /\ \A q \in Runners : j \notin Bears(q)
    BY DEF ClickInv
  <2>2. clicks[j] = 1 => ClickSound(j)
    BY DEF ClickInv
  <2>3. j \notin Range(queue4)'
    BY <1>3, <1>6
  <2>4. request'[j] # "done" => \A q \in Runners : j \notin Bears(q)'
    BY <1>3, <1>7, <1>10, <2>1
  <2>5. WellAsked(j)' <=> WellAsked(j)
    BY <1>3 DEF WellAsked
  <2>6. clicks'[j] = 1 => ClickSound(j)'
    BY <1>3, <1>7, <1>10, <2>2, <2>3, <2>5 DEF ClickSound
  <2> QED
    BY <2>3, <2>4, <2>6
<1>16. /\ clicks' \in [Launches -> {0, 1}] /\ DOMAIN sawRules' = Launches /\ IsInjective(queue4)'
       /\ \A j \in Launches : request'[j] # "new" => LetFor(j)'
  BY <1>3, <1>6 DEF ClickInv, LetFor
<1> QED
  BY <1>13, <1>14, <1>15, <1>16 DEF ClickInv

(* A runner begins the next of its commands, or is done with it at once.   *)
LEMMA BeginsClick ==
    ASSUME ClickInv, WindowInv, WindowInv', NEW r \in Runners, BeginCommand(r)
    PROVE  ClickInv'
<1>1. runner \in [Runners -> RunnerRow] /\ runner[r] \in RunnerRow /\ RunnerSound(r) /\ DOMAIN launch = Launches
  BY DEF WindowInv, WindowTyped
<1>2. PICK row, j, rest : row = runner[r] /\ j = Head(row.taken) /\ rest = Tail(row.taken)
  OBVIOUS
<1> DEFINE begun == [row EXCEPT !.taken = rest, !.doing = j, !.phase = "opened"]
           over == [row EXCEPT !.taken = rest]
<1>3. /\ row.at = "live" /\ row.phase = "-" /\ row.taken # <<>> /\ clicks' = clicks
      /\ UNCHANGED <<request, sawRules, queue4, optIn>>
  BY <1>2 DEF BeginCommand, Doing, outsideVars
<1>4. row.taken \in Seq(Launches) /\ row.doing = NoLaunch /\ IsInjective(row.taken)
  BY <1>1, <1>2, <1>3 DEF RunnerRow, RunnerSound, ClickInv, RowSound
<1>5. /\ j \in Launches /\ Range(row.taken) = {j} \cup Range(rest) /\ Range(row.taken) \subseteq Launches
      /\ rest \in Seq(Launches) /\ IsInjective(rest) /\ j \notin Range(rest) /\ j # NoLaunch
  BY <1>2, <1>3, <1>4, RangeOf, OneTakenOff, LaunchesNamed
<1>6. \/ runner' = [runner EXCEPT ![r] = begun]
      \/ runner' = [runner EXCEPT ![r] = over]
  BY <1>2 DEF BeginCommand
<1>7. launch' = launch \/ \E status : Tell(j, status)
  BY <1>2 DEF BeginCommand
<1>8. begun.at = "live" /\ begun.taken = rest /\ begun.phase = "opened" /\ begun.doing = j
  BY <1>1, <1>2, <1>3 DEF RunnerRow
<1>9. over.at = "live" /\ over.taken = rest /\ over.phase = "-" /\ over.doing = NoLaunch
  BY <1>1, <1>2, <1>3, <1>4 DEF RunnerRow
<1> HIDE DEF begun, over
<1>10. PICK new : runner' = [runner EXCEPT ![r] = new] /\ (new = begun \/ new = over)
  BY <1>6
<1>11. runner'[r] = new /\ \A q \in Runners \ {r} : runner'[q] = runner[q]
  BY <1>1, <1>10
<1>12. /\ new.at = "live" /\ new.taken = rest
       /\ \/ new.phase = "opened" /\ new.doing = j
          \/ new.phase = "-" /\ new.doing = NoLaunch
  BY <1>8, <1>9, <1>10
<1>13. Bears(r) = {j} \cup Range(rest) /\ Waiting(r) = {j} \cup Range(rest)
  BY <1>2, <1>3, <1>4, <1>5 DEF Bears, Waiting, RowBears, RowWaits
<1>14. RowBears(new) \subseteq {j} \cup Range(rest) /\ RowWaits(new) \subseteq {j} \cup Range(rest)
  BY <1>12 DEF RowBears, RowWaits
<1>15. RowSound(new)'
  <2>1. NoLaunch \notin Range(rest)
    BY <1>5, LaunchesNamed
  <2> QED
    BY <1>5, <1>12, <2>1 DEF RowSound
<1>16. /\ Bears(r)' \subseteq Bears(r) /\ Waiting(r)' \subseteq Waiting(r) /\ Bears(r) \subseteq Launches
       /\ RowSound(runner[r])' /\ ToldOf(r)' /\ AtWindow(r)
       /\ (runner[r].phase # "emptying")'
  <2>1. Bears(r)' = RowBears(new) /\ Waiting(r)' = RowWaits(new) /\ AtWindow(r)
    BY <1>2, <1>3, <1>11 DEF Bears, Waiting, AtWindow
  <2>2. RowSound(runner[r])' /\ ToldOf(r)' /\ (runner[r].phase # "emptying")'
    BY <1>11, <1>12, <1>15 DEF ToldOf
  <2> QED
    BY <1>5, <1>13, <1>14, <2>1, <2>2
<1>17. \A k \in Launches \ {j} : launch'[k] = launch[k]
  BY <1>1, <1>7 DEF Tell
<1>18. ASSUME NEW k \in Launches, clicks'[k] = 1
       PROVE  /\ clicks[k] = 1 \/ (k \in Bears(r) /\ WellAsked(k))
              /\ k \notin Waiting(r)'
              /\ launch'[k].status \notin NotBegun
  <2>1. clicks[k] = 1 /\ ClickSound(k)
    BY <1>3, <1>18 DEF ClickInv
  <2>2. k \notin Waiting(r) /\ launch[k].status \notin NotBegun
    BY <2>1 DEF ClickSound
  <2>3. k # j
    BY <1>13, <2>2
  <2>4. launch'[k] = launch[k] /\ k \notin Waiting(r)'
    BY <1>16, <1>17, <2>2, <2>3
  <2> QED
    BY <2>1, <2>2, <2>4
<1>19. clicks' \in [Launches -> {0, 1}]
  BY <1>3 DEF ClickInv
<1> QED
  BY <1>3, <1>11, <1>16, <1>18, <1>19, RunnerTurns

(* A runner ends, and bears nothing any more.                              *)
LEMMA EndsClick ==
    ASSUME ClickInv, WindowInv, WindowInv', NEW r \in Runners, CloseWindow(r) \/ KillRunner(r)
    PROVE  ClickInv'
<1>1. runner \in [Runners -> RunnerRow] /\ runner[r] \in RunnerRow /\ DOMAIN launch = Launches
  BY DEF WindowInv, WindowTyped
<1>2. /\ runner' = [runner EXCEPT ![r] = Idle4] /\ clicks' = clicks
      /\ UNCHANGED <<request, sawRules, queue4, optIn>>
  BY DEF CloseWindow, KillRunner, launchVars, outsideVars
<1>3. runner'[r] = Idle4 /\ \A q \in Runners \ {r} : runner'[q] = runner[q]
  BY <1>1, <1>2
<1>4. /\ Bears(r)' = {} /\ Waiting(r)' = {} /\ ToldOf(r)' /\ ~AtWindow(r)'
      /\ (runner[r].phase # "emptying")'
  BY <1>3, IdleRow DEF Bears, Waiting, RowWaits, ToldOf, AtWindow
<1>5. RowSound(runner[r])'
  <2>1. RowSound(Idle4)'
    BY IdleRow DEF RowSound, Idle4
  <2> QED
    BY <1>3, <2>1
<1>6. Bears(r) \subseteq Launches
  <2>1. runner[r].at = "starting" => runner[r].first \in Launches
    BY DEF ClickInv, RowSound
  <2>2. Range(runner[r].taken) \subseteq Launches /\ runner[r].doing \in Launches \cup {NoLaunch}
    BY <1>1, RangeOf DEF RunnerRow
  <2> QED
    BY <2>1, <2>2 DEF Bears, RowBears
<1>7. /\ AtWindow(r) \/ launch' = launch
      /\ \A j \in Launches : \/ launch'[j] = launch[j]
                             \/ launch'[j].status \in {"failed", "browser_closed"}
  <2>1. CASE CloseWindow(r)
    <3> DEFINE closed(i) == IF runner[r].doing = runner[r].first /\ runner[r].doing # NoLaunch THEN "failed"
                            ELSE "browser_closed"
    <3>1. launch' = [i \in Launches |->
             IF i = runner[r].first THEN [launch[i] EXCEPT !.status = closed(i)]
             ELSE IF i \in Range(runner[r].taken) \cup {runner[r].doing} THEN [launch[i] EXCEPT !.status = "failed"]
             ELSE launch[i]]
      BY <2>1 DEF CloseWindow
    <3>2. \A i \in Launches : closed(i) \in {"failed", "browser_closed"}
      OBVIOUS
    <3>3. AtWindow(r) /\ \A i \in Launches : "status" \in DOMAIN launch[i]
      BY <2>1 DEF CloseWindow, AtWindow, WindowInv, WindowTyped
    <3> HIDE DEF closed
    <3> QED
      BY <3>1, <3>2, <3>3
  <2>2. CASE KillRunner(r)
    BY <2>2 DEF KillRunner, launchVars
  <2> QED
    BY <2>1, <2>2
<1>8. ASSUME NEW j \in Launches, clicks'[j] = 1
      PROVE  /\ clicks[j] = 1 \/ (j \in Bears(r) /\ WellAsked(j))
             /\ j \notin Waiting(r)'
             /\ launch'[j].status \notin NotBegun
  <2>1. clicks[j] = 1 /\ launch[j].status \notin NotBegun
    BY <1>2, <1>8 DEF ClickInv, ClickSound
  <2>2. launch'[j].status \notin NotBegun
    BY <1>7, <2>1 DEF NotBegun
  <2>3. j \notin Waiting(r)'
    BY <1>4
  <2> QED
    BY <2>1, <2>2, <2>3
<1>9. clicks' \in [Launches -> {0, 1}]
  BY <1>2 DEF ClickInv
<1> QED
  BY <1>2, <1>3, <1>4, <1>5, <1>6, <1>7, <1>8, <1>9, RunnerTurns

LEMMA OperatesClick ==
    ASSUME ClickInv, Operate
    PROVE  ClickInv'
BY DEF Operate, launchVars, ClickInv, ClickSound, WellAsked, LetFor, RowSound, PublishAsked, ReplyAsked, ToldOf,
       Bears, Waiting, AtWindow

-----------------------------------------------------------------------------
(* A request, before there is a command or a runner for its launch: it is  *)
(* borne by none, and was not clicked.                                     *)
LEMMA RequestsClick ==
    ASSUME ClickInv, WindowInv, NEW j \in Launches, request[j] # "done", NEW to, request' = [request EXCEPT ![j] = to],
           to \notin {"new", "done"}, UNCHANGED <<clicks, queue4, runner, optIn>>,
           DOMAIN sawRules' = Launches, LetFor(j)',
           \A k \in Launches \ {j} : sawRules'[k] = sawRules[k] /\ launch'[k] = launch[k]
    PROVE  ClickInv'
<1>1. DOMAIN request = Launches
  BY DEF WindowInv, WindowTyped
<1>2. \A k \in Launches \ {j} : request'[k] = request[k]
  BY <1>1
<1>3. request'[j] = to
  BY <1>1
<1>4. j \notin Range(queue4) /\ \A r \in Runners : j \notin Bears(r)
  BY DEF ClickInv
<1>5. \A r \in Runners : /\ Bears(r)' = Bears(r) /\ Waiting(r)' = Waiting(r) /\ AtWindow(r)' = AtWindow(r)
                         /\ RowSound(runner[r])' <=> RowSound(runner[r])
  BY DEF Bears, Waiting, AtWindow, RowSound, PublishAsked, ReplyAsked
<1>6. \A r \in Runners : ToldOf(r)'
  <2> SUFFICES ASSUME NEW r \in Runners PROVE ToldOf(r)'
    OBVIOUS
  <2>1. ToldOf(r) /\ RowSound(runner[r]) /\ j \notin Bears(r)
    BY <1>4 DEF ClickInv
  <2>2. CASE runner[r].phase \notin {"clicking", "replying"}
    BY <2>2 DEF ToldOf
  <2>3. CASE runner[r].phase \in {"clicking", "replying"}
    <3>1. runner[r].doing \in Launches /\ runner[r].doing # NoLaunch
      BY <2>1, <2>3, LaunchesNamed DEF RowSound
    <3>2. runner[r].doing # j
      BY <2>1, <3>1 DEF Bears, RowBears
    <3>3. launch'[runner[r].doing] = launch[runner[r].doing]
      BY <3>1, <3>2
    <3> QED
      BY <2>1, <3>3 DEF ToldOf
  <2> QED
    BY <2>2, <2>3
<1>7. \A r \in Runners : /\ RowSound(runner[r])' /\ ToldOf(r)' /\ (Range(queue4) \cap Bears(r))' = {}
                         /\ (runner[r].phase = "emptying")' => (Range(runner[r].seen) \subseteq Range(queue4))'
  BY <1>5, <1>6 DEF ClickInv
<1>8. \A r, q \in Runners : r # q => (Bears(r) \cap Bears(q))' = {} /\ ~(AtWindow(r) /\ AtWindow(q))'
  BY <1>5 DEF ClickInv
<1>9. ASSUME NEW k \in Launches
      PROVE  /\ request'[k] # "new" => LetFor(k)'
             /\ request'[k] # "done" => k \notin Range(queue4)' /\ \A q \in Runners : k \notin Bears(q)'
             /\ clicks'[k] = 1 => ClickSound(k)'
  <2>1. /\ request[k] # "new" => LetFor(k)
        /\ request[k] # "done" => k \notin Range(queue4) /\ \A q \in Runners : k \notin Bears(q)
        /\ clicks[k] = 1 => ClickSound(k)
    BY DEF ClickInv
  <2>2. CASE k = j
    BY <1>4, <1>5, <2>1, <2>2 DEF ClickSound
  <2>3. CASE k # j
    <3>1. request'[k] = request[k] /\ sawRules'[k] = sawRules[k] /\ launch'[k] = launch[k]
      BY <1>2, <2>3
    <3>2. (LetFor(k)' <=> LetFor(k)) /\ (WellAsked(k)' <=> WellAsked(k))
      BY <3>1 DEF LetFor, WellAsked
    <3> QED
      BY <1>5, <2>1, <3>1, <3>2 DEF ClickSound
  <2> QED
    BY <2>2, <2>3
<1>10. clicks' \in [Launches -> {0, 1}] /\ DOMAIN sawRules' = Launches /\ IsInjective(queue4)'
  BY DEF ClickInv
<1> QED
  BY <1>7, <1>8, <1>9, <1>10 DEF ClickInv

LEMMA AsksClick ==
    ASSUME ClickInv, WindowInv, NEW j \in Launches, NEW found \in BOOLEAN, LetThrough(j) \/ RecordLaunch(j, found)
    PROVE  ClickInv'
<1>1. DOMAIN launch = Launches
  BY DEF WindowInv, WindowTyped
<1>2. DOMAIN sawRules = Launches /\ (request[j] # "new" => LetFor(j))
  BY DEF ClickInv
<1>3. CASE LetThrough(j)
  <2>1. /\ request[j] = "new" /\ request' = [request EXCEPT ![j] = "let"] /\ sawRules' = [sawRules EXCEPT ![j] = Rules]
        /\ UNCHANGED <<launch, clicks, queue4, runner, optIn>>
    BY <1>3 DEF LetThrough, windowVars
  <2>2. sawRules'[j] = Rules /\ DOMAIN sawRules' = Launches /\ \A k \in Launches \ {j} : sawRules'[k] = sawRules[k]
    BY <1>2, <2>1
  <2>3. LetFor(j)'
    BY <1>3, <2>2 DEF LetThrough, LetFor, Lets, ActionOf
  <2>4. \A k \in Launches \ {j} : sawRules'[k] = sawRules[k] /\ launch'[k] = launch[k]
    BY <2>1, <2>2
  <2>5. PICK to : to = "let"
    OBVIOUS
  <2>6. request[j] # "done" /\ to \notin {"new", "done"} /\ request' = [request EXCEPT ![j] = to]
    BY <2>1, <2>5
  <2>7. UNCHANGED <<clicks, queue4, runner, optIn>> /\ DOMAIN sawRules' = Launches
    BY <2>1, <2>2
  <2> QED
    BY <2>3, <2>4, <2>6, <2>7, RequestsClick
<1>4. CASE RecordLaunch(j, found)
  <2>1. PICK to \in {"queue", "spawn"} : request' = [request EXCEPT ![j] = to]
    BY <1>4 DEF RecordLaunch
  <2>2. /\ request[j] = "let" /\ \E status : Tell(j, status)
        /\ UNCHANGED <<clicks, queue4, runner, optIn, sawRules>>
    BY <1>4 DEF RecordLaunch, Tell, windowVars
  <2>3. \A k \in Launches \ {j} : sawRules'[k] = sawRules[k] /\ launch'[k] = launch[k]
    BY <1>1, <2>2 DEF Tell
  <2>4. LetFor(j)' /\ DOMAIN sawRules' = Launches
    BY <1>2, <2>2 DEF LetFor
  <2> QED
    BY <2>1, <2>2, <2>3, <2>4, RequestsClick
<1> QED
  BY <1>3, <1>4

(* The launch goes to the file, or to a runner of its own.                 *)
LEMMA QueuesClick ==
    ASSUME ClickInv, WindowInv, NEW j \in Launches, Enqueue(j)
    PROVE  ClickInv'
<1>1. DOMAIN request = Launches /\ queue4 \in Seq(Launches)
  BY DEF WindowInv, WindowTyped
<1>2. /\ request[j] = "queue" /\ request' = [request EXCEPT ![j] = "done"] /\ queue4' = Append(queue4, j)
      /\ UNCHANGED <<launch, clicks, sawRules, runner, optIn>>
  BY DEF Enqueue
<1>3. /\ j \notin Range(queue4) /\ \A r \in Runners : j \notin Bears(r)
      /\ clicks[j] # 1 /\ LetFor(j) /\ IsInjective(queue4)
  BY <1>2 DEF ClickInv, ClickSound
<1>4. Range(queue4)' = Range(queue4) \cup {j} /\ IsInjective(queue4)'
  BY <1>1, <1>2, <1>3, RangeOf, OnePutIn
<1>5. request'[j] = "done" /\ \A k \in Launches \ {j} : request'[k] = request[k]
  BY <1>1, <1>2
<1>6. \A r \in Runners : /\ Bears(r)' = Bears(r) /\ Waiting(r)' = Waiting(r) /\ AtWindow(r)' = AtWindow(r)
                         /\ RowSound(runner[r])' <=> RowSound(runner[r])
  BY <1>2 DEF Bears, Waiting, AtWindow, RowSound, PublishAsked, ReplyAsked
<1>7. \A r \in Runners : ToldOf(r)'
  BY <1>2 DEF ClickInv, ToldOf
<1>8. \A r \in Runners : /\ RowSound(runner[r])' /\ ToldOf(r)' /\ (Range(queue4) \cap Bears(r))' = {}
                         /\ (runner[r].phase = "emptying")' => (Range(runner[r].seen) \subseteq Range(queue4))'
  BY <1>2, <1>3, <1>4, <1>6, <1>7 DEF ClickInv
<1>9. \A r, q \in Runners : r # q => (Bears(r) \cap Bears(q))' = {} /\ ~(AtWindow(r) /\ AtWindow(q))'
  BY <1>6 DEF ClickInv
<1>10. ASSUME NEW k \in Launches
       PROVE  /\ request'[k] # "new" => LetFor(k)'
              /\ request'[k] # "done" => k \notin Range(queue4)' /\ \A q \in Runners : k \notin Bears(q)'
              /\ clicks'[k] = 1 => ClickSound(k)'
  <2>1. /\ request[k] # "new" => LetFor(k)
        /\ request[k] # "done" => k \notin Range(queue4) /\ \A q \in Runners : k \notin Bears(q)
        /\ clicks[k] = 1 => ClickSound(k)
    BY DEF ClickInv
  <2>2. (LetFor(k)' <=> LetFor(k)) /\ (WellAsked(k)' <=> WellAsked(k))
    BY <1>2 DEF LetFor, WellAsked
  <2>3. CASE k = j
    BY <1>2, <1>3, <1>5, <2>2, <2>3
  <2>4. CASE k # j
    BY <1>2, <1>4, <1>5, <1>6, <2>1, <2>2, <2>4 DEF ClickSound
  <2> QED
    BY <2>3, <2>4
<1>11. clicks' \in [Launches -> {0, 1}] /\ DOMAIN sawRules' = Launches
  BY <1>2 DEF ClickInv
<1> QED
  BY <1>4, <1>8, <1>9, <1>10, <1>11 DEF ClickInv

LEMMA SpawnsClick ==
    ASSUME ClickInv, WindowInv, NEW j \in Launches, NEW r \in Runners, Spawn(j, r)
    PROVE  ClickInv'
<1> DEFINE new == [Idle4 EXCEPT !.at = "starting", !.first = j]
<1>1. DOMAIN request = Launches /\ runner \in [Runners -> RunnerRow]
  BY DEF WindowInv, WindowTyped
<1>2. /\ request[j] = "spawn" /\ runner[r] = Idle4 /\ request' = [request EXCEPT ![j] = "done"]
      /\ runner' = [runner EXCEPT ![r] = new]
      /\ UNCHANGED <<launch, clicks, sawRules, queue4, optIn>>
  BY DEF Spawn
<1>3. new.at = "starting" /\ new.first = j /\ new.taken = <<>> /\ new.doing = NoLaunch /\ new.phase = "-"
  BY IdleRow DEF RunnerRow
<1> HIDE DEF new
<1>4. /\ j \notin Range(queue4) /\ \A q \in Runners : j \notin Bears(q)
      /\ clicks[j] # 1 /\ LetFor(j)
  BY <1>2 DEF ClickInv, ClickSound
<1>5. request'[j] = "done" /\ \A k \in Launches \ {j} : request'[k] = request[k]
  BY <1>1, <1>2
<1>6. runner'[r] = new /\ \A q \in Runners \ {r} : runner'[q] = runner[q]
  BY <1>1, <1>2
<1>7. Range(<<>>) = {} /\ IsInjective(<<>>)
  BY DEF Range, IsInjective
<1>8. RowBears(new) = {j} /\ RowWaits(new) = {j} /\ RowSound(new)'
  BY <1>3, <1>7 DEF RowBears, RowWaits, RowSound
<1>9. \A q \in Runners \ {r} : /\ Bears(q)' = Bears(q) /\ Waiting(q)' = Waiting(q) /\ AtWindow(q)' = AtWindow(q)
                               /\ RowSound(runner[q])' <=> RowSound(runner[q])
  BY <1>2, <1>6 DEF Bears, Waiting, AtWindow, RowSound, PublishAsked, ReplyAsked
<1>10. /\ Bears(r)' = {j} /\ Waiting(r)' = {j} /\ ~AtWindow(r)' /\ ToldOf(r)' /\ RowSound(runner[r])'
       /\ (runner[r].phase # "emptying")'
  BY <1>3, <1>6, <1>8 DEF Bears, Waiting, AtWindow, ToldOf
<1>11. \A q \in Runners \ {r} : ToldOf(q)'
  BY <1>2, <1>6 DEF ClickInv, ToldOf
<1>12. \A q \in Runners : /\ RowSound(runner[q])' /\ ToldOf(q)' /\ (Range(queue4) \cap Bears(q))' = {}
                          /\ (runner[q].phase = "emptying")' => (Range(runner[q].seen) \subseteq Range(queue4))'
  <2> SUFFICES ASSUME NEW q \in Runners
               PROVE  /\ RowSound(runner[q])' /\ ToldOf(q)' /\ (Range(queue4) \cap Bears(q))' = {}
                      /\ (runner[q].phase = "emptying")' => (Range(runner[q].seen) \subseteq Range(queue4))'
    OBVIOUS
  <2>1. CASE q = r
    BY <1>2, <1>4, <1>10, <2>1
  <2>2. CASE q # r
    BY <1>2, <1>6, <1>9, <1>11, <2>2 DEF ClickInv
  <2> QED
    BY <2>1, <2>2
<1>13. \A p, q \in Runners : p # q => (Bears(p) \cap Bears(q))' = {} /\ ~(AtWindow(p) /\ AtWindow(q))'
  <2> SUFFICES ASSUME NEW p \in Runners, NEW q \in Runners, p # q
               PROVE  Bears(p)' \cap Bears(q)' = {} /\ ~(AtWindow(p)' /\ AtWindow(q)')
    OBVIOUS
  <2>1. CASE p = r
    BY <1>4, <1>9, <1>10, <2>1
  <2>2. CASE q = r
    BY <1>4, <1>9, <1>10, <2>2
  <2>3. CASE p # r /\ q # r
    BY <1>9, <2>3 DEF ClickInv
  <2> QED
    BY <2>1, <2>2, <2>3
<1>14. ASSUME NEW k \in Launches
       PROVE  /\ request'[k] # "new" => LetFor(k)'
              /\ request'[k] # "done" => k \notin Range(queue4)' /\ \A q \in Runners : k \notin Bears(q)'
              /\ clicks'[k] = 1 => ClickSound(k)'
  <2>1. /\ request[k] # "new" => LetFor(k)
        /\ request[k] # "done" => k \notin Range(queue4) /\ \A q \in Runners : k \notin Bears(q)
        /\ clicks[k] = 1 => ClickSound(k)
    BY DEF ClickInv
  <2>2. (LetFor(k)' <=> LetFor(k)) /\ (WellAsked(k)' <=> WellAsked(k))
    BY <1>2 DEF LetFor, WellAsked
  <2>3. CASE k = j
    BY <1>2, <1>4, <1>5, <2>2, <2>3
  <2>4. CASE k # j
    BY <1>2, <1>5, <1>9, <1>10, <2>1, <2>2, <2>4 DEF ClickSound
  <2> QED
    BY <2>3, <2>4
<1>15. clicks' \in [Launches -> {0, 1}] /\ DOMAIN sawRules' = Launches /\ IsInjective(queue4)'
  BY <1>2 DEF ClickInv
<1> QED
  BY <1>12, <1>13, <1>14, <1>15 DEF ClickInv

LEMMA ClicksGo == ASSUME ClickInv, WindowInv, SessionNext PROVE ClickInv'
<1>1. WindowInv'
  BY WindowSteps
<1>2. ASSUME NEW r \in Runners, RunnerStep(r)
      PROVE  ClickInv'
  <2>1. CASE OpenWindow(r) \/ ReadQueue(r) \/ EmptyQueue(r) \/ BeginCommand(r)
    BY <1>1, <2>1, OpensClick, ReadsClick, EmptiesClick, BeginsClick
  <2>2. ASSUME NEW well \in BOOLEAN,
               \/ FillDraft(r, well) \/ ClickPublish(r, well) \/ ScanInbox(r, well) \/ SendReply(r, well)
               \/ ReportPublish(r) \/ ReportReply(r)
        PROVE  ClickInv'
    BY <1>1, <2>2, PagesClick
  <2> QED
    BY <1>2, <2>1, <2>2 DEF RunnerStep
<1>3. ASSUME NEW r \in Runners, CloseWindow(r) \/ KillRunner(r)
      PROVE  ClickInv'
  BY <1>1, <1>3, EndsClick
<1>4. ASSUME NEW j \in Launches
      PROVE  /\ LetThrough(j) => ClickInv'
             /\ \A found \in BOOLEAN : RecordLaunch(j, found) => ClickInv'
             /\ Enqueue(j) => ClickInv'
             /\ \A r \in Runners : Spawn(j, r) => ClickInv'
  BY AsksClick, QueuesClick, SpawnsClick
<1> QED
  BY <1>2, <1>3, <1>4, OperatesClick DEF SessionNext

LEMMA ClicksStay == ClickInv /\ UNCHANGED sessionVars => ClickInv'
BY DEF sessionVars, launchVars, windowVars, ClickInv, ClickSound, WellAsked, LetFor, RowSound, PublishAsked, ReplyAsked,
       ToldOf, Bears, Waiting, AtWindow

-----------------------------------------------------------------------------
(* All of them together.                                                   *)
accessedVars == <<gateVars, authVars, accountVars, targetVars, sessionVars, handVars>>

AccessInit == GateInit /\ AuthInit /\ AccountInit /\ TargetInit /\ SessionInit /\ HandInit

AccessNext ==
    \/ GateNext /\ UNCHANGED <<authVars, accountVars, targetVars, sessionVars, handVars>>
    \/ AuthNext /\ UNCHANGED <<gateVars, accountVars, targetVars, sessionVars, handVars>>
    \/ AccountNext /\ UNCHANGED <<gateVars, authVars, targetVars, sessionVars, handVars>>
    \/ TargetNext /\ UNCHANGED <<gateVars, authVars, accountVars, sessionVars, handVars>>
    \/ SessionNext /\ UNCHANGED <<gateVars, authVars, accountVars, targetVars, handVars>>
    \/ (PackageNext \/ WebhookNext \/ MatrixNext)
       /\ UNCHANGED <<gateVars, authVars, accountVars, targetVars, sessionVars>>

AccessSpec == AccessInit /\ [][AccessNext]_accessedVars

AccessInv == GateInv /\ TokenInv /\ AccountInv /\ TargetInv /\ WindowInv /\ ClickInv /\ HandInv

LEMMA AccessGoes == ASSUME AccessInv, [AccessNext]_accessedVars PROVE AccessInv'
<1>1. GateInv' \/ GateNext
  BY GateStays DEF AccessInv, AccessNext, accessedVars
<1>2. TokenInv' \/ AuthNext
  BY TokensStay DEF AccessInv, AccessNext, accessedVars
<1>3. AccountInv' \/ AccountNext
  BY AccountsStay DEF AccessInv, AccessNext, accessedVars
<1>4. TargetInv' \/ TargetNext
  BY TargetsStay DEF AccessInv, AccessNext, accessedVars
<1>5. (WindowInv' /\ ClickInv') \/ SessionNext
  BY WindowKeeps, ClicksStay DEF AccessInv, AccessNext, accessedVars
<1>6. HandInv' \/ PackageNext \/ WebhookNext \/ MatrixNext
  BY HandStays DEF AccessInv, AccessNext, accessedVars
<1>7. /\ GateNext => GateInv'
      /\ AuthNext => TokenInv'
      /\ AccountNext => AccountInv'
      /\ TargetNext => TargetInv'
      /\ SessionNext => WindowInv' /\ ClickInv'
      /\ PackageNext \/ WebhookNext \/ MatrixNext => HandInv'
  BY GateGoes, TokensGo, AccountsGo, TargetsGo, WindowSteps, ClicksGo, HandGoes DEF AccessInv
<1> QED
  BY <1>1, <1>2, <1>3, <1>4, <1>5, <1>6, <1>7 DEF AccessInv

(* The invariant of the services that let a delivery through.              *)
THEOREM AccessInvariant == AccessSpec => []AccessInv
<1>1. AccessInit => AccessInv
  BY GateStarts, TokensStart, AccountsStart, TargetsStart, WindowStarts, ClicksStart, HandStarts
     DEF AccessInit, AccessInv
<1>2. AccessInv /\ [AccessNext]_accessedVars => AccessInv'
  BY AccessGoes
<1> QED
  BY <1>1, <1>2, PTL DEF AccessSpec

(* What a delivery is let through by stands, whatever the subjects, the    *)
(* sessions, the proofs, the launches and the packages: a denial is never  *)
(* outdone by what is good, no code or lease serves twice, a connection    *)
(* rests on proofs, a button is clicked once and as the rules let it, and  *)
(* what is shut or was handled stays so.                                   *)
THEOREM AccessKeptAlways == AccessSpec => []AccessKept
<1>1. AccessInv => AccessKept
  BY GateTold, TokensTold, AccountsTold, TargetsTold, ClicksTold, HandTold DEF AccessInv, AccessKept
<1> QED
  BY <1>1, AccessInvariant, PTL

(* The behaviours of ServicesMC are among those of AccessSpec.             *)
LEMMA Accessed == ASSUME Next PROVE [AccessNext]_accessedVars
<1>1. UNCHANGED servedVars => UNCHANGED <<authVars, accountVars, targetVars, sessionVars>>
  BY DEF servedVars, memoryVars, accessVars, governVars, consoleVars
<1>2. UNCHANGED decideVars => UNCHANGED <<gateVars, handVars>>
  BY DEF decideVars
<1>3. (\E j \in Launches : LetThrough(j)) => SessionNext
  BY DEF SessionNext
<1>4. CASE ServedNext
  <2>1. UNCHANGED <<gateVars, handVars>>
    BY <1>2, <1>4 DEF ServedNext
  <2>2. CASE chosen = "tokens"
    <3>1. AuthNext /\ UNCHANGED <<accountVars, targetVars, sessionVars>>
      BY <1>4, <2>2 DEF ServedNext, SessionsNext, accessVars, governVars, consoleVars
    <3> QED
      BY <2>1, <3>1 DEF AccessNext
  <2>3. CASE chosen = "accounts"
    <3>1. AccountNext /\ UNCHANGED <<authVars, targetVars, sessionVars>>
      BY <1>4, <2>3 DEF ServedNext, memoryVars, governVars, consoleVars
    <3> QED
      BY <2>1, <3>1 DEF AccessNext
  <2>4. CASE chosen = "targets"
    <3>1. TargetNext /\ UNCHANGED <<authVars, accountVars, sessionVars>>
      BY <1>4, <2>4 DEF ServedNext, memoryVars, governVars, consoleVars
    <3> QED
      BY <2>1, <3>1 DEF AccessNext
  <2>5. CASE chosen \in {"session", "rules", "pilots"}
    <3>1. (SessionNext \/ UNCHANGED sessionVars) /\ UNCHANGED <<authVars, accountVars, targetVars>>
      BY <1>3, <1>4, <2>5 DEF ServedNext, BrowserNext, RulesNext, PlansNext, memoryVars, accessVars
    <3> QED
      BY <2>1, <3>1 DEF AccessNext, accessedVars
  <2>6. CASE chosen \notin {"tokens", "accounts", "targets", "session", "rules", "pilots"}
    <3>1. UNCHANGED <<authVars, accountVars, targetVars, sessionVars>>
      BY <1>4, <2>6 DEF ServedNext, memoryVars, accessVars, governVars, consoleVars
    <3> QED
      BY <2>1, <3>1 DEF accessedVars
  <2> QED
    BY <2>2, <2>3, <2>4, <2>5, <2>6
<1>5. CASE DecideNext
  <2>1. UNCHANGED <<authVars, accountVars, targetVars, sessionVars>>
    BY <1>1, <1>5 DEF DecideNext
  <2>2. \/ GateNext /\ UNCHANGED handVars
        \/ (PackageNext \/ WebhookNext \/ MatrixNext) /\ UNCHANGED gateVars
        \/ UNCHANGED <<gateVars, handVars>>
    BY <1>5 DEF DecideNext, AsksNext, HandoverNext
  <2> QED
    BY <2>1, <2>2 DEF AccessNext, accessedVars
<1>6. CASE RecoverNext
  BY <1>1, <1>2, <1>6 DEF RecoverNext, accessedVars
<1> QED
  BY <1>4, <1>5, <1>6 DEF Next

(* It holds of the very specification the run of the services checks.      *)
THEOREM AccessKeptInServices == Spec => []AccessKept
<1>1. Init => AccessInit
  BY DEF Init, AccessInit
<1>2. [Next]_allVars => [AccessNext]_accessedVars
  <2>1. UNCHANGED allVars => UNCHANGED accessedVars
    BY DEF allVars, servedVars, memoryVars, accessVars, governVars, consoleVars, decideVars, accessedVars
  <2> QED
    BY <2>1, Accessed
<1>3. AccessSpec => []AccessKept
  BY AccessKeptAlways
<1> QED
  BY <1>1, <1>2, <1>3, PTL DEF Spec, AccessSpec
-----------------------------------------------------------------------------
(* Sums over a set of entries. A sum is what a function on the subsets     *)
(* says of the whole, which takes one entry after the other away.          *)
SumBody(F, s, g) == IF s = {} THEN 0 ELSE LET x == CHOOSE y \in s : TRUE IN F[x] + g[s \ {x}]
SumsUp(F, Within, g) == g = [s \in Within |-> SumBody(F, s, g)]
UpTo(S, n) == {s \in SUBSET S : Cardinality(s) <= n}

LEMMA SmallerSets ==
    ASSUME NEW S, IsFiniteSet(S), NEW s \in SUBSET S, NEW x \in s
    PROVE  /\ IsFiniteSet(s) /\ Cardinality(s) \in Nat \ {0} /\ s \ {x} \in SUBSET S
           /\ Cardinality(s \ {x}) = Cardinality(s) - 1
<1>1. IsFiniteSet(s)
  BY FS_Subset
<1>2. Cardinality(s) \in Nat /\ Cardinality(s \ {x}) = Cardinality(s) - 1 /\ Cardinality(s \ {x}) \in Nat
  BY <1>1, FS_RemoveElement, FS_CardinalityType
<1> QED
  BY <1>1, <1>2

LEMMA SubsetSizes ==
    ASSUME NEW S, IsFiniteSet(S)
    PROVE  \A t \in SUBSET S : IsFiniteSet(t) /\ Cardinality(t) \in Nat /\ Cardinality(t) <= Cardinality(S)
<1> SUFFICES ASSUME NEW t \in SUBSET S
             PROVE  IsFiniteSet(t) /\ Cardinality(t) \in Nat /\ Cardinality(t) <= Cardinality(S)
  OBVIOUS
<1>1. IsFiniteSet(t) /\ Cardinality(t) <= Cardinality(S)
  BY FS_Subset
<1>2. Cardinality(t) \in Nat
  BY <1>1, FS_CardinalityType
<1> QED
  BY <1>1, <1>2

(* Among subsets of a finite set there is a smallest one.                  *)
LEMMA SmallestSet ==
    ASSUME NEW S, IsFiniteSet(S), NEW B, B \subseteq SUBSET S, B # {}
    PROVE  \E t \in B : \A u \in B : Cardinality(t) <= Cardinality(u)
<1>1. PICK N : N = {Cardinality(u) : u \in B}
  OBVIOUS
<1>2. N \subseteq Nat /\ N # {}
  BY <1>1, SubsetSizes
<1>3. PICK m \in N : \A k \in N : m <= k
  BY <1>2, LeastIn
<1> QED
  BY <1>1, <1>3

LEMMA SumsUpTo ==
    ASSUME NEW F, NEW S, IsFiniteSet(S), NEW n \in Nat
    PROVE  \E g : SumsUp(F, UpTo(S, n), g)
<1> DEFINE Failing == {m \in Nat : ~\E g : SumsUp(F, UpTo(S, m), g)}
<1>1. SUFFICES ASSUME Failing # {} PROVE FALSE
  OBVIOUS
<1>2. PICK m \in Failing : \A k \in Failing : m <= k
  BY <1>1, LeastIn
<1>3. CASE m = 0
  <2>1. ASSUME NEW s \in UpTo(S, 0) PROVE s = {}
    <3>1. SUFFICES ASSUME NEW x \in s PROVE FALSE
      OBVIOUS
    <3>2. s \in SUBSET S /\ Cardinality(s) <= 0
      BY DEF UpTo
    <3>3. Cardinality(s) \in Nat \ {0}
      BY <3>2, SmallerSets
    <3> QED
      BY <3>2, <3>3
  <2>2. SumsUp(F, UpTo(S, 0), [s \in UpTo(S, 0) |-> 0])
    BY <2>1 DEF SumsUp, SumBody
  <2> QED
    BY <1>3, <2>2
<1>4. CASE m # 0
  <2>1. m - 1 \in Nat /\ m - 1 \notin Failing
    BY <1>2, <1>4
  <2>2. PICK g : SumsUp(F, UpTo(S, m - 1), g)
    BY <2>1
  <2> DEFINE h == [s \in UpTo(S, m) |-> SumBody(F, s, g)]
  <2>3. ASSUME NEW s \in UpTo(S, m) PROVE SumBody(F, s, g) = SumBody(F, s, h)
    <3>1. CASE s = {}
      BY <3>1 DEF SumBody
    <3>2. CASE s # {}
      <4>1. PICK x : x \in s /\ x = CHOOSE y \in s : TRUE
        BY <3>2
      <4>2. s \ {x} \in UpTo(S, m - 1) /\ s \ {x} \in UpTo(S, m)
        <5>1. s \in SUBSET S /\ Cardinality(s) <= m
          BY <2>3 DEF UpTo
        <5>2. Cardinality(s) \in Nat /\ s \ {x} \in SUBSET S /\ Cardinality(s \ {x}) = Cardinality(s) - 1
          BY <5>1, <4>1, SmallerSets
        <5> QED
          BY <5>1, <5>2 DEF UpTo
      <4>3. g[s \ {x}] = SumBody(F, s \ {x}, g)
        BY <2>2, <4>2 DEF SumsUp
      <4>4. h[s \ {x}] = SumBody(F, s \ {x}, g)
        BY <4>2
      <4> HIDE DEF h
      <4> QED
        BY <3>2, <4>1, <4>3, <4>4 DEF SumBody
    <3> QED
      BY <3>1, <3>2
  <2>4. h = [s \in UpTo(S, m) |-> SumBody(F, s, h)]
    BY <2>3
  <2>5. SumsUp(F, UpTo(S, m), h)
    BY <2>4 DEF SumsUp
  <2> QED
    BY <2>5
<1> QED
  BY <1>3, <1>4

LEMMA SumUnfolds ==
    ASSUME NEW F, NEW S
    PROVE  SumFunctionOnSet(F, S) = (CHOOSE g : SumsUp(F, SUBSET S, g))[S]
BY DEF SumFunctionOnSet, FoldFunctionOnSet, MapThenFoldSet, SumsUp, SumBody

LEMMA SumIs ==
    ASSUME NEW F, NEW S, IsFiniteSet(S)
    PROVE  \E g : SumsUp(F, SUBSET S, g) /\ SumFunctionOnSet(F, S) = g[S]
<1>1. Cardinality(S) \in Nat
  BY FS_CardinalityType
<1>2. UpTo(S, Cardinality(S)) = SUBSET S
  BY SubsetSizes DEF UpTo
<1>3. \E g : SumsUp(F, UpTo(S, Cardinality(S)), g)
  BY <1>1, SumsUpTo
<1> QED
  BY <1>2, <1>3, SumUnfolds

(* Functions that agree on the entries of a set sum them up to the same.   *)
LEMMA SumsAgree ==
    ASSUME NEW F, NEW G, NEW S, NEW T, IsFiniteSet(S), NEW g, NEW h,
           SumsUp(F, SUBSET S, g), SumsUp(G, SUBSET T, h), \A x \in S \cap T : F[x] = G[x],
           NEW s \in SUBSET (S \cap T)
    PROVE  g[s] = h[s]
<1>1. PICK B : B = {u \in SUBSET (S \cap T) : g[u] # h[u]}
  OBVIOUS
<1>2. SUFFICES ASSUME B # {} PROVE FALSE
  BY <1>1
<1>3. IsFiniteSet(S \cap T)
  BY SubsetSizes
<1>4. PICK t \in SUBSET (S \cap T) : g[t] # h[t] /\ \A u \in B : Cardinality(t) <= Cardinality(u)
  BY <1>1, <1>2, <1>3, SmallestSet
<1>5. g[t] = SumBody(F, t, g) /\ h[t] = SumBody(G, t, h)
  BY DEF SumsUp
<1>6. t # {}
  BY <1>4, <1>5 DEF SumBody
<1>7. PICK x : x \in t /\ x = CHOOSE y \in t : TRUE
  BY <1>6
<1>8. t \ {x} \in SUBSET (S \cap T) /\ ~(Cardinality(t) <= Cardinality(t \ {x}))
  <2>1. Cardinality(t) \in Nat \ {0} /\ t \ {x} \in SUBSET (S \cap T) /\ Cardinality(t \ {x}) = Cardinality(t) - 1
    BY <1>3, <1>7, SmallerSets
  <2> QED
    BY <2>1
<1>9. g[t \ {x}] = h[t \ {x}]
  BY <1>1, <1>4, <1>8
<1> QED
  BY <1>4, <1>5, <1>6, <1>7, <1>9 DEF SumBody

LEMMA SumSame ==
    ASSUME NEW F, NEW G, NEW S, IsFiniteSet(S), \A x \in S : F[x] = G[x]
    PROVE  SumFunctionOnSet(F, S) = SumFunctionOnSet(G, S)
<1>1. PICK g : SumsUp(F, SUBSET S, g) /\ SumFunctionOnSet(F, S) = g[S]
  BY SumIs
<1>2. PICK h : SumsUp(G, SUBSET S, h) /\ SumFunctionOnSet(G, S) = h[S]
  BY SumIs
<1>3. S \in SUBSET (S \cap S) /\ \A x \in S \cap S : F[x] = G[x]
  OBVIOUS
<1>4. g[S] = h[S]
  BY <1>1, <1>2, <1>3, SumsAgree
<1> QED
  BY <1>1, <1>2, <1>4

LEMMA SumOfNone == ASSUME NEW F PROVE SumFunctionOnSet(F, {}) = 0
<1>1. PICK g : SumsUp(F, SUBSET {}, g) /\ SumFunctionOnSet(F, {}) = g[{}]
  BY SumIs, FS_EmptySet
<1> QED
  BY <1>1 DEF SumsUp, SumBody

LEMMA SumTakes ==
    ASSUME NEW F, NEW S, IsFiniteSet(S), S # {}
    PROVE  \E x \in S : SumFunctionOnSet(F, S) = F[x] + SumFunctionOnSet(F, S \ {x})
<1>1. PICK g : SumsUp(F, SUBSET S, g) /\ SumFunctionOnSet(F, S) = g[S]
  BY SumIs
<1>2. PICK x : x \in S /\ x = CHOOSE y \in S : TRUE
  OBVIOUS
<1>3. g[S] = F[x] + g[S \ {x}]
  BY <1>1, <1>2 DEF SumsUp, SumBody
<1>4. PICK T : T = S \ {x}
  OBVIOUS
<1>5. IsFiniteSet(T)
  BY <1>4, SubsetSizes
<1>6. PICK h : SumsUp(F, SUBSET T, h) /\ SumFunctionOnSet(F, T) = h[T]
  BY <1>5, SumIs
<1>7. T \in SUBSET (S \cap T) /\ \A y \in S \cap T : F[y] = F[y]
  BY <1>4
<1>8. g[T] = h[T]
  BY <1>1, <1>6, <1>7, SumsAgree
<1> QED
  BY <1>1, <1>2, <1>3, <1>4, <1>6, <1>8

(* A sum of costs is a number, and any entry may be taken out of it.       *)
LEMMA SumLess ==
    ASSUME NEW F, NEW S, IsFiniteSet(S), \A x \in S : F[x] \in Nat
    PROVE  /\ SumFunctionOnSet(F, S) \in Nat
           /\ \A x \in S : SumFunctionOnSet(F, S) = F[x] + SumFunctionOnSet(F, S \ {x})
<1> DEFINE Splits(T) == /\ SumFunctionOnSet(F, T) \in Nat
                        /\ \A x \in T : SumFunctionOnSet(F, T) = F[x] + SumFunctionOnSet(F, T \ {x})
<1>1. PICK B : B = {u \in SUBSET S : ~Splits(u)}
  OBVIOUS
<1>2. SUFFICES ASSUME B # {} PROVE FALSE
  BY <1>1
<1>3. PICK t \in B : \A u \in B : Cardinality(t) <= Cardinality(u)
  <2>1. B \subseteq SUBSET S
    BY <1>1
  <2> QED
    BY <1>2, <2>1, SmallestSet
<1>4. t \in SUBSET S /\ ~Splits(t)
  BY <1>1, <1>3
<1>5. t # {}
  BY <1>4, SumOfNone
<1>6. IsFiniteSet(t) /\ Cardinality(t) \in Nat
  BY <1>4, SubsetSizes
<1>7. PICK y \in t : SumFunctionOnSet(F, t) = F[y] + SumFunctionOnSet(F, t \ {y})
  BY <1>5, <1>6, SumTakes
<1>8. ASSUME NEW u \in SUBSET S, Cardinality(u) < Cardinality(t) PROVE Splits(u)
  <2>1. Cardinality(u) \in Nat
    BY SubsetSizes
  <2>2. u \notin B
    BY <1>3, <1>6, <1>8, <2>1
  <2> QED
    BY <1>1, <2>2
<1>9. ASSUME NEW u \in t PROVE t \ {u} \in SUBSET S /\ Cardinality(t \ {u}) < Cardinality(t) /\ Splits(t \ {u})
  <2>1. t \ {u} \in SUBSET S /\ Cardinality(t \ {u}) < Cardinality(t)
    BY <1>4, SmallerSets
  <2> QED
    BY <1>8, <2>1
<1>10. F[y] \in Nat /\ SumFunctionOnSet(F, t \ {y}) \in Nat
  BY <1>4, <1>9
<1>11. ASSUME NEW x \in t PROVE SumFunctionOnSet(F, t) = F[x] + SumFunctionOnSet(F, t \ {x})
  <2>1. CASE x = y
    BY <2>1, <1>7
  <2>2. CASE x # y
    <3>1. x \in t \ {y} /\ y \in t \ {x} /\ (t \ {y}) \ {x} = (t \ {x}) \ {y}
      BY <2>2
    <3>2. SumFunctionOnSet(F, t \ {y}) = F[x] + SumFunctionOnSet(F, (t \ {y}) \ {x})
      BY <1>9, <3>1
    <3>3. SumFunctionOnSet(F, t \ {x}) = F[y] + SumFunctionOnSet(F, (t \ {y}) \ {x})
      BY <1>9, <3>1
    <3>4. SumFunctionOnSet(F, (t \ {y}) \ {x}) \in Nat
      <4>1. t \ {y} \in SUBSET S /\ Cardinality(t \ {y}) < Cardinality(t)
        BY <1>9
      <4>2. /\ Cardinality(t \ {y}) \in Nat /\ (t \ {y}) \ {x} \in SUBSET S
            /\ Cardinality((t \ {y}) \ {x}) = Cardinality(t \ {y}) - 1
        BY <4>1, <3>1, SmallerSets
      <4>3. Splits((t \ {y}) \ {x})
        <5>1. Cardinality((t \ {y}) \ {x}) < Cardinality(t)
          BY <1>6, <4>1, <4>2
        <5> HIDE DEF Splits
        <5> QED
          BY <1>8, <4>2, <5>1
      <4> QED
        BY <4>3
    <3>5. F[x] \in Nat
      BY <1>4
    <3> QED
      BY <1>7, <1>10, <3>2, <3>3, <3>4, <3>5
  <2> QED
    BY <2>1, <2>2
<1> QED
  BY <1>4, <1>7, <1>10, <1>11

(* What is left out of a sum makes it no more.                             *)
LEMMA SumOfSome ==
    ASSUME NEW F, NEW S, IsFiniteSet(S), \A x \in S : F[x] \in Nat, NEW T \in SUBSET S
    PROVE  SumFunctionOnSet(F, T) <= SumFunctionOnSet(F, S)
<1>1. PICK B : B = {u \in SUBSET S : T \subseteq u /\ ~(SumFunctionOnSet(F, T) <= SumFunctionOnSet(F, u))}
  OBVIOUS
<1>2. SUFFICES ASSUME B # {} PROVE FALSE
  BY <1>1
<1>3. PICK u \in B : \A w \in B : Cardinality(u) <= Cardinality(w)
  <2>1. B \subseteq SUBSET S
    BY <1>1
  <2> QED
    BY <1>2, <2>1, SmallestSet
<1>4. u \in SUBSET S /\ T \subseteq u /\ ~(SumFunctionOnSet(F, T) <= SumFunctionOnSet(F, u))
  BY <1>1, <1>3
<1>5. ASSUME NEW w \in SUBSET S PROVE SumFunctionOnSet(F, w) \in Nat
  <2>1. IsFiniteSet(w) /\ \A x \in w : F[x] \in Nat
    BY SubsetSizes
  <2> QED
    BY <2>1, SumLess
<1>6. SumFunctionOnSet(F, T) \in Nat /\ SumFunctionOnSet(F, u) \in Nat
  BY <1>4, <1>5
<1>7. PICK x : x \in u /\ x \notin T
  BY <1>4, <1>6
<1>8. IsFiniteSet(u) /\ \A z \in u : F[z] \in Nat
  BY <1>4, SubsetSizes
<1>9. SumFunctionOnSet(F, u) = F[x] + SumFunctionOnSet(F, u \ {x})
  BY <1>7, <1>8, SumLess
<1>10. u \ {x} \in SUBSET S /\ T \subseteq u \ {x} /\ ~(Cardinality(u) <= Cardinality(u \ {x}))
  BY <1>4, <1>7, SmallerSets
<1>11. SumFunctionOnSet(F, T) <= SumFunctionOnSet(F, u \ {x})
  BY <1>1, <1>3, <1>10
<1>12. SumFunctionOnSet(F, u \ {x}) \in Nat /\ F[x] \in Nat
  BY <1>5, <1>7, <1>8, <1>10
<1> QED
  BY <1>4, <1>6, <1>9, <1>11, <1>12

-----------------------------------------------------------------------------
(* The budget. What is reserved or was charged under a limit of a policy   *)
(* is within it, since what a request is checked against holds it all.     *)
PolicyRow == [name : PolicyNames, limits : LimitSets, version : Nat]
FactRow == [key : CallKeys, cost : Nat, day : Nat, made : Nat, policy : Nat]
EndStatus == {"succeeded", "failed", "timed_out", "budget_exceeded"}

ReservedWell ==
    /\ IsFiniteSet(reserved)
    /\ \A b \in reserved :
          /\ b.key \in CallKeys /\ b.day \in 0 .. budgetDay /\ b.policy \in DOMAIN policies
          /\ callRecord[b.key] = NotCalled
    /\ \A b, c \in reserved : b.key = c.key => b = c

UsedWell ==
    /\ usage \in Seq(FactRow)
    /\ \A n \in DOMAIN usage :
          /\ usage[n].made <= usage[n].day /\ usage[n].day <= budgetDay /\ usage[n].policy \in DOMAIN policies
          /\ callRecord[usage[n].key].status \in EndStatus
    /\ \A n, o \in DOMAIN usage : usage[n].key = usage[o].key => n = o

CalledWell ==
    /\ DOMAIN callRecord = CallKeys
    /\ \A k \in CallKeys :
          /\ callRecord[k] \in [status : EndStatus \cup {"none"}, cost : Nat]
          /\ callRecord[k].status \in EndStatus \ {"budget_exceeded"} =>
                \E n \in DOMAIN usage : usage[n].key = k /\ usage[n].cost = callRecord[k].cost
          /\ callRecord[k].status = "budget_exceeded" =>
                \A n \in DOMAIN usage : usage[n].key = k => usage[n].cost = 0

ServesWell(g) ==
    /\ serving[g] \in [key : CallKeys \cup {"none"}, left : Int]
    /\ serving[g] # NotServing =>
          /\ serving[g].key \in CallKeys /\ GatewayOf[serving[g].key] = g
          /\ Reservation(serving[g].key) # {}

BudgetInv ==
    /\ budgetDay \in Nat
    /\ policies \in Seq(PolicyRow) /\ \A p \in DOMAIN policies : policies[p].version <= p
    /\ ReservedWell /\ UsedWell /\ CalledWell
    /\ DOMAIN serving = Gateways /\ \A g \in Gateways : ServesWell(g)
    /\ WithinLimits

(* An entry counts under a limit of a policy by which it was admitted, by  *)
(* the day it was admitted on.                                             *)
Counts(p, l, r, now, e, made) ==
    /\ Applies(l, policies[p].limits, RequestOf[e.key]) /\ e.policy = p
    /\ Matches(l, RequestOf[e.key], made, r, now)
Charged(p, l, r, now) == {n \in DOMAIN usage : Counts(p, l, r, now, usage[n], usage[n].made)}
Promised(p, l, r, now) == {b \in reserved : Counts(p, l, r, now, b, b.day)}

LEMMA HeldIs ==
    \A p, l, r, now :
        Held(p, l, r, now) = SumFunctionOnSet(Spent, Charged(p, l, r, now))
                             + SumFunctionOnSet(SetAside, Promised(p, l, r, now))
BY DEF Held, Charged, Promised, Counts

LEMMA HeldBecomes ==
    \A p, l, r, now :
        Held(p, l, r, now)' = SumFunctionOnSet(Spent', Charged(p, l, r, now)')
                              + SumFunctionOnSet(SetAside', Promised(p, l, r, now)')
BY DEF Held, Charged, Promised, Counts

LEMMA BudgetStarts == BudgetInit => BudgetInv
<1> SUFFICES ASSUME BudgetInit PROVE BudgetInv
  OBVIOUS
<1>1. ReservedWell /\ UsedWell
  BY FS_EmptySet DEF BudgetInit, ReservedWell, UsedWell
<1>2. CalledWell
  BY DEF BudgetInit, CalledWell, NotCalled, EndStatus
<1>3. DOMAIN serving = Gateways /\ \A g \in Gateways : ServesWell(g)
  BY DEF BudgetInit, ServesWell, NotServing
<1>4. WithinLimits
  BY DEF BudgetInit, WithinLimits
<1> QED
  BY <1>1, <1>2, <1>3, <1>4 DEF BudgetInit, BudgetInv

LEMMA BudgetTold == BudgetInv => BudgetKept
<1> SUFFICES ASSUME BudgetInv, NEW k \in CallKeys
             PROVE  LET facts == {n \in DOMAIN usage : usage[n].key = k} IN
                    /\ Cardinality(facts) <= 1
                    /\ callRecord[k].status \in {"succeeded", "failed", "timed_out"} =>
                         /\ Reservation(k) = {}
                         /\ \E n \in facts : usage[n].cost = callRecord[k].cost
                    /\ callRecord[k].status = "none" => facts = {}
                    /\ callRecord[k].status = "budget_exceeded" =>
                         Reservation(k) = {} /\ \A n \in facts : usage[n].cost = 0
  BY DEF BudgetKept, ChargedOnce, BudgetInv
<1> DEFINE facts == {n \in DOMAIN usage : usage[n].key = k}
<1>1. Cardinality(facts) <= 1
  <2>1. facts = {} \/ \E n : facts = {n}
    BY DEF BudgetInv, UsedWell
  <2>2. CASE facts = {}
    BY <2>2, FS_EmptySet
  <2>3. CASE \E n : facts = {n}
    <3>1. PICK n : facts = {n}
      BY <2>3
    <3>2. Cardinality({n}) = 1
      BY FS_Singleton
    <3> QED
      BY <3>1, <3>2
  <2> QED
    BY <2>1, <2>2, <2>3
<1>2. callRecord[k].status \in EndStatus => Reservation(k) = {}
  BY DEF BudgetInv, ReservedWell, Reservation, NotCalled, EndStatus
<1>3. callRecord[k].status \in EndStatus \ {"budget_exceeded"} => \E n \in facts : usage[n].cost = callRecord[k].cost
  BY DEF BudgetInv, CalledWell
<1>4. callRecord[k].status = "budget_exceeded" => \A n \in facts : usage[n].cost = 0
  BY DEF BudgetInv, CalledWell
<1>5. callRecord[k].status = "none" => facts = {}
  BY DEF BudgetInv, UsedWell, EndStatus
<1> QED
  BY <1>1, <1>2, <1>3, <1>4, <1>5 DEF EndStatus

(* Costs and what is set aside are numbers, so their sums are.             *)
LEMMA SpentSums ==
    ASSUME BudgetInv, NEW X \in SUBSET DOMAIN usage
    PROVE  /\ IsFiniteSet(X) /\ \A n \in X : Spent[n] \in Nat
           /\ SumFunctionOnSet(Spent, X) \in Nat
           /\ \A Y \in SUBSET X : SumFunctionOnSet(Spent, Y) <= SumFunctionOnSet(Spent, X)
<1>1. IsFiniteSet(X)
  <2>1. usage \in Seq(FactRow) /\ DOMAIN usage = 1 .. Len(usage) /\ Len(usage) \in Nat
    BY DEF BudgetInv, UsedWell
  <2>2. IsFiniteSet(DOMAIN usage)
    BY <2>1, FS_Interval
  <2> QED
    BY <2>2, SubsetSizes
<1>2. \A n \in X : Spent[n] \in Nat
  <2>1. usage \in Seq(FactRow)
    BY DEF BudgetInv, UsedWell
  <2>2. \A n \in DOMAIN usage : usage[n] \in FactRow
    BY <2>1
  <2> QED
    BY <2>2 DEF FactRow, Spent
<1> QED
  BY <1>1, <1>2, SumLess, SumOfSome

LEMMA AsideSums ==
    ASSUME BudgetInv, NEW X \in SUBSET reserved
    PROVE  /\ IsFiniteSet(X) /\ \A b \in X : SetAside[b] \in Nat
           /\ SumFunctionOnSet(SetAside, X) \in Nat
           /\ \A Y \in SUBSET X : SumFunctionOnSet(SetAside, Y) <= SumFunctionOnSet(SetAside, X)
<1>1. IsFiniteSet(X)
  BY SubsetSizes DEF BudgetInv, ReservedWell
<1>2. \A b \in X : SetAside[b] \in Nat
  BY BudgetBounds DEF BudgetInv, ReservedWell, SetAside
<1> QED
  BY <1>1, <1>2, SumLess, SumOfSome

(* A month is not over before it began.                                    *)
LEMMA MonthsGo ==
    ASSUME NEW a \in Nat, NEW b \in Nat, a <= b
    PROVE  a \div MonthDays \in Nat /\ a \div MonthDays <= b \div MonthDays
<1>1. MonthDays \in Nat \ {0}
  BY BudgetBounds
<1>2. PICK q \in Nat, m \in Nat : q = a \div MonthDays /\ m = a % MonthDays /\ a = MonthDays * q + m /\ m < MonthDays
  BY <1>1
<1>3. PICK s \in Nat, o \in Nat : s = b \div MonthDays /\ o = b % MonthDays /\ b = MonthDays * s + o /\ o < MonthDays
  BY <1>1
<1>4. ASSUME s < q PROVE FALSE
  <2>1. MonthDays * (s + 1) <= MonthDays * q
    BY <1>1, <1>4
  <2> QED
    BY <1>1, <1>2, <1>3, <2>1
<1> QED
  BY <1>2, <1>3, <1>4

LEMMA HeldStays ==
    ASSUME UNCHANGED <<policies, reserved, usage>>
    PROVE  \A p, l, r, now : Held(p, l, r, now)' = Held(p, l, r, now)
BY DEF Held, Applies, Matches, Spent, SetAside

(* On a day that begins nothing was admitted yet but what goes on.         *)
LEMMA LaterLess ==
    ASSUME BudgetInv, NEW l, NEW e, NEW r, NEW made \in 0 .. budgetDay, Matches(l, e, made, r, budgetDay + 1)
    PROVE  Matches(l, e, made, r, budgetDay)
<1>1. budgetDay \in Nat /\ made \in Nat /\ made <= budgetDay
  BY DEF BudgetInv
<1>2. l.period # "day"
  BY <1>1 DEF Matches
<1>3. ASSUME l.period = "month" PROVE made \div MonthDays = budgetDay \div MonthDays
  <2>1. made \div MonthDays = (budgetDay + 1) \div MonthDays
    BY <1>3 DEF Matches
  <2>2. made \div MonthDays <= budgetDay \div MonthDays /\ made \div MonthDays \in Nat
    BY <1>1, MonthsGo
  <2>3. budgetDay \div MonthDays <= (budgetDay + 1) \div MonthDays /\ budgetDay \div MonthDays \in Nat
    BY <1>1, MonthsGo
  <2> QED
    BY <2>1, <2>2, <2>3
<1> QED
  BY <1>2, <1>3 DEF Matches

LEMMA DaysGo ==
    ASSUME BudgetInv, NextBudgetDay
    PROVE  BudgetInv'
<1>1. budgetDay \in Nat /\ budgetDay' = budgetDay + 1 /\ UNCHANGED <<policies, reserved, usage, callRecord, serving>>
  BY DEF NextBudgetDay, BudgetInv
<1>2. ReservedWell' /\ CalledWell' /\ DOMAIN serving' = Gateways
  BY <1>1 DEF BudgetInv, ReservedWell, CalledWell
<1>3. UsedWell'
  <2>1. \A n \in DOMAIN usage : usage[n].day \in Nat
    <3>1. \A n \in DOMAIN usage : usage[n] \in FactRow
      BY DEF BudgetInv, UsedWell
    <3> QED
      BY <3>1 DEF FactRow
  <2> QED
    BY <1>1, <2>1 DEF BudgetInv, UsedWell
<1>4. ASSUME NEW g \in Gateways PROVE ServesWell(g)'
  BY <1>1 DEF BudgetInv, ServesWell, Reservation
<1>5. ASSUME NEW p \in DOMAIN policies, NEW l \in policies[p].limits, NEW k \in CallKeys, NEW now \in 0 .. budgetDay + 1
      PROVE  Held(p, l, RequestOf[k], now) <= l.cents
  <2> DEFINE r == RequestOf[k]
  <2>1. CASE now \in 0 .. budgetDay
    BY <2>1 DEF BudgetInv, WithinLimits
  <2>2. CASE now = budgetDay + 1
    <3>1. Charged(p, l, r, now) \subseteq Charged(p, l, r, budgetDay)
      <4>1. SUFFICES ASSUME NEW n \in Charged(p, l, r, now) PROVE n \in Charged(p, l, r, budgetDay)
        OBVIOUS
      <4>2. n \in DOMAIN usage /\ Counts(p, l, r, now, usage[n], usage[n].made)
        BY DEF Charged
      <4>3. usage[n] \in FactRow /\ usage[n].made <= usage[n].day /\ usage[n].day <= budgetDay
        BY <4>2 DEF BudgetInv, UsedWell
      <4>4. usage[n].made \in 0 .. budgetDay
        BY <1>1, <4>3 DEF FactRow
      <4>5. Matches(l, RequestOf[usage[n].key], usage[n].made, r, budgetDay)
        BY <2>2, <4>2, <4>4, LaterLess DEF Counts
      <4> QED
        BY <4>2, <4>5 DEF Charged, Counts
    <3>2. Promised(p, l, r, now) \subseteq Promised(p, l, r, budgetDay)
      <4>1. SUFFICES ASSUME NEW b \in Promised(p, l, r, now) PROVE b \in Promised(p, l, r, budgetDay)
        OBVIOUS
      <4>2. b \in reserved /\ Counts(p, l, r, now, b, b.day)
        BY DEF Promised
      <4>3. b.day \in 0 .. budgetDay
        BY <4>2 DEF BudgetInv, ReservedWell
      <4>4. Matches(l, RequestOf[b.key], b.day, r, budgetDay)
        BY <2>2, <4>2, <4>3, LaterLess DEF Counts
      <4> QED
        BY <4>2, <4>4 DEF Promised, Counts
    <3>3. Charged(p, l, r, budgetDay) \in SUBSET DOMAIN usage /\ Promised(p, l, r, budgetDay) \in SUBSET reserved
      BY DEF Charged, Promised
    <3>4. /\ SumFunctionOnSet(Spent, Charged(p, l, r, now)) <= SumFunctionOnSet(Spent, Charged(p, l, r, budgetDay))
          /\ SumFunctionOnSet(Spent, Charged(p, l, r, budgetDay)) \in Nat
      BY <3>1, <3>3, SpentSums
    <3>5. /\ SumFunctionOnSet(SetAside, Promised(p, l, r, now)) <= SumFunctionOnSet(SetAside, Promised(p, l, r, budgetDay))
          /\ SumFunctionOnSet(SetAside, Promised(p, l, r, budgetDay)) \in Nat
      BY <3>2, <3>3, AsideSums
    <3>6. SumFunctionOnSet(Spent, Charged(p, l, r, now)) \in Nat /\ SumFunctionOnSet(SetAside, Promised(p, l, r, now)) \in Nat
      <4>1. Charged(p, l, r, now) \in SUBSET DOMAIN usage /\ Promised(p, l, r, now) \in SUBSET reserved
        BY DEF Charged, Promised
      <4> QED
        BY <4>1, SpentSums, AsideSums
    <3>7. Held(p, l, r, budgetDay) <= l.cents
      BY <1>1 DEF BudgetInv, WithinLimits
    <3>8. l.cents \in Nat
      <4>1. policies[p] \in PolicyRow
        BY DEF BudgetInv
      <4> QED
        BY <4>1, BudgetBounds DEF PolicyRow
    <3> HIDE DEF r
    <3>9. /\ Held(p, l, r, now) =
                SumFunctionOnSet(Spent, Charged(p, l, r, now)) + SumFunctionOnSet(SetAside, Promised(p, l, r, now))
          /\ Held(p, l, r, budgetDay) = SumFunctionOnSet(Spent, Charged(p, l, r, budgetDay))
                                        + SumFunctionOnSet(SetAside, Promised(p, l, r, budgetDay))
      BY HeldIs
    <3>10. Held(p, l, r, now) <= l.cents
      BY <3>4, <3>5, <3>6, <3>7, <3>8, <3>9
    <3> QED
      BY <3>10 DEF r
  <2> QED
    BY <1>1, <2>1, <2>2
<1>6. WithinLimits'
  BY <1>1, <1>5, HeldStays DEF WithinLimits
<1> QED
  BY <1>1, <1>2, <1>3, <1>4, <1>6 DEF BudgetInv

LEMMA LimitsNumbers ==
    ASSUME BudgetInv, NEW p \in DOMAIN policies, NEW l \in policies[p].limits
    PROVE  l.cents \in Nat /\ l.scope \in {"org", "task", "model"} /\ l.period \in {"task", "day", "month"}
<1>1. policies[p] \in PolicyRow
  BY DEF BudgetInv
<1> QED
  BY <1>1, BudgetBounds DEF PolicyRow

(* A policy that is registered has nothing under it.                       *)
LEMMA PoliciesGo ==
    ASSUME BudgetInv, NEW name \in PolicyNames, NEW limits \in LimitSets, RegisterPolicy(name, limits)
    PROVE  BudgetInv'
<1> PICK version : version = 1 + Cardinality({n \in DOMAIN policies : policies[n].name = name})
  OBVIOUS
<1>1. /\ policies' = Append(policies, [name |-> name, limits |-> limits, version |-> version])
      /\ UNCHANGED <<budgetDay, reserved, usage, callRecord, serving>>
  BY DEF RegisterPolicy
<1>2. policies \in Seq(PolicyRow) /\ Len(policies) \in Nat /\ DOMAIN policies = 1 .. Len(policies)
  BY DEF BudgetInv
<1>3. version \in Nat /\ version <= Len(policies) + 1
  <2>1. IsFiniteSet(DOMAIN policies) /\ Cardinality(DOMAIN policies) = Len(policies)
    <3>1. IsFiniteSet(1 .. Len(policies)) /\ Cardinality(1 .. Len(policies)) = Len(policies)
      <4>1. CASE Len(policies) = 0
        <5>1. 1 .. Len(policies) = {}
          BY <4>1
        <5> QED
          BY <4>1, <5>1, FS_EmptySet
      <4>2. CASE Len(policies) # 0
        BY <1>2, <4>2, FS_Interval
      <4> QED
        BY <4>1, <4>2
    <3> QED
      BY <1>2, <3>1
  <2>2. {n \in DOMAIN policies : policies[n].name = name} \in SUBSET DOMAIN policies
    OBVIOUS
  <2>3. /\ Cardinality({n \in DOMAIN policies : policies[n].name = name}) \in Nat
        /\ Cardinality({n \in DOMAIN policies : policies[n].name = name}) <= Len(policies)
    BY <2>1, <2>2, SubsetSizes
  <2> QED
    BY <1>2, <2>3
<1>4. policies' \in Seq(PolicyRow)
  BY <1>1, <1>2, <1>3 DEF PolicyRow
<1>5. /\ DOMAIN policies' = 1 .. Len(policies) + 1
      /\ \A p \in DOMAIN policies : policies'[p] = policies[p]
      /\ policies'[Len(policies) + 1].limits = limits /\ policies'[Len(policies) + 1].version = version
  BY <1>1, <1>2
<1>10. \A p \in DOMAIN policies' : policies'[p].version <= p
  BY <1>2, <1>3, <1>5 DEF BudgetInv
<1>6. ReservedWell' /\ UsedWell' /\ CalledWell'
  BY <1>1, <1>2, <1>5 DEF BudgetInv, ReservedWell, UsedWell, CalledWell
<1>7. \A g \in Gateways : ServesWell(g)'
  BY <1>1 DEF BudgetInv, ServesWell, Reservation
<1>8. ASSUME NEW p \in DOMAIN policies', NEW l \in policies'[p].limits, NEW k \in CallKeys, NEW now \in 0 .. budgetDay
      PROVE  Held(p, l, RequestOf[k], now)' <= l.cents
  <2>1. Spent' = Spent /\ SetAside' = SetAside
    BY <1>1 DEF Spent, SetAside
  <2>2. CASE p \in DOMAIN policies
    <3>1. policies'[p] = policies[p]
      BY <2>2, <1>5
    <3>2. Charged(p, l, RequestOf[k], now)' = Charged(p, l, RequestOf[k], now)
      BY <1>1, <3>1 DEF Charged, Counts, Applies, Matches
    <3>3. Promised(p, l, RequestOf[k], now)' = Promised(p, l, RequestOf[k], now)
      BY <1>1, <3>1 DEF Promised, Counts, Applies, Matches
    <3>4. Held(p, l, RequestOf[k], now) <= l.cents
      BY <2>2, <3>1 DEF BudgetInv, WithinLimits
    <3>5. Held(p, l, RequestOf[k], now)' = Held(p, l, RequestOf[k], now)
      BY <2>1, <3>2, <3>3, HeldIs, HeldBecomes
    <3> QED
      BY <3>4, <3>5
  <2>3. CASE p \notin DOMAIN policies
    <3>1. Charged(p, l, RequestOf[k], now)' = {} /\ Promised(p, l, RequestOf[k], now)' = {}
      BY <2>3, <1>1 DEF Charged, Promised, Counts, BudgetInv, UsedWell, ReservedWell
    <3>2. Held(p, l, RequestOf[k], now)' = 0
      <4>1. SumFunctionOnSet(Spent', {}) = 0 /\ SumFunctionOnSet(SetAside', {}) = 0
        BY SumOfNone
      <4>2. Held(p, l, RequestOf[k], now)' = SumFunctionOnSet(Spent', Charged(p, l, RequestOf[k], now)')
                                             + SumFunctionOnSet(SetAside', Promised(p, l, RequestOf[k], now)')
        BY HeldBecomes
      <4>3. Held(p, l, RequestOf[k], now)' = SumFunctionOnSet(Spent', {}) + SumFunctionOnSet(SetAside', {})
        BY <3>1, <4>2
      <4> QED
        BY <4>1, <4>3
    <3>3. l.cents \in Nat
      BY <1>2, <1>5, <2>3, BudgetBounds
    <3> QED
      BY <3>2, <3>3
  <2> QED
    BY <2>2, <2>3
<1>9. WithinLimits'
  BY <1>1, <1>8 DEF WithinLimits
<1> QED
  BY <1>1, <1>4, <1>6, <1>7, <1>9, <1>10 DEF BudgetInv

LEMMA ActiveIs ==
    ASSUME BudgetInv, policies # <<>>
    PROVE  ActivePolicy \in DOMAIN policies
<1>1. policies \in Seq(PolicyRow) /\ Len(policies) \in Nat \ {0} /\ DOMAIN policies = 1 .. Len(policies)
  BY DEF BudgetInv
<1>2. \A n \in DOMAIN policies : policies[n].version \in Nat /\ policies[n].version <= Len(policies)
  <2>1. \A n \in DOMAIN policies : policies[n] \in PolicyRow /\ policies[n].version <= n
    BY DEF BudgetInv
  <2> QED
    BY <1>1, <2>1 DEF PolicyRow
<1>3. PICK Above : Above = {u \in Nat : \A n \in DOMAIN policies : policies[n].version <= u}
  OBVIOUS
<1>4. Len(policies) \in Above
  BY <1>1, <1>2, <1>3
<1>5. PICK u \in Above : \A w \in Above : u <= w
  BY <1>3, <1>4, LeastIn
<1>6. PICK Tops : Tops = {n \in DOMAIN policies : policies[n].version = u}
  OBVIOUS
<1>7. Tops # {}
  <2>1. SUFFICES ASSUME Tops = {} PROVE FALSE
    OBVIOUS
  <2>2. \A n \in DOMAIN policies : policies[n].version < u
    BY <2>1, <1>2, <1>3, <1>5, <1>6
  <2>3. u - 1 \in Above
    BY <1>1, <1>2, <1>3, <1>5, <2>2
  <2> QED
    BY <1>3, <1>5, <2>3
<1>8. PICK n \in Tops : \A o \in Tops : n <= o
  BY <1>1, <1>6, <1>7, LeastIn
<1>9. ASSUME NEW o \in DOMAIN policies
      PROVE  policies[n].version > policies[o].version \/ (policies[n].version = policies[o].version /\ n <= o)
  BY <1>2, <1>3, <1>5, <1>6, <1>8
<1>10. n \in DOMAIN policies
  BY <1>6
<1> QED
  BY <1>9, <1>10 DEF ActivePolicy

(* What counts under a limit when a call is admitted was looked at then.   *)
LEMMA AllLookedAt ==
    ASSUME BudgetInv, NEW l, NEW r, NEW now, NEW mine, NEW e, NEW made \in Nat, NEW day \in Nat,
           Matches(l, mine, budgetDay, r, now), Matches(l, e, made, r, now), made <= day, day <= budgetDay
    PROVE  Matches(l, e, day, mine, budgetDay)
<1>1. budgetDay \in Nat
  BY DEF BudgetInv
<1>2. l.period = "day" => day = budgetDay
  BY <1>1 DEF Matches
<1>3. ASSUME l.period = "month" PROVE day \div MonthDays = budgetDay \div MonthDays
  <2>1. made \div MonthDays = budgetDay \div MonthDays
    BY <1>3 DEF Matches
  <2>2. made \div MonthDays <= day \div MonthDays /\ day \div MonthDays \in Nat
    BY MonthsGo
  <2>3. day \div MonthDays <= budgetDay \div MonthDays /\ budgetDay \div MonthDays \in Nat
    BY <1>1, MonthsGo
  <2> QED
    BY <2>1, <2>2, <2>3
<1> QED
  BY <1>2, <1>3 DEF Matches

(* A call is admitted.                                                     *)
LEMMA ReservationsGo ==
    ASSUME BudgetInv, NEW k \in CallKeys, Reservation(k) = {}, policies # <<>>, WithinBudget(RequestOf[k]),
           reserved' = reserved \cup {[key |-> k, day |-> budgetDay, policy |-> ActivePolicy]},
           UNCHANGED <<budgetDay, policies, usage>>
    PROVE  WithinLimits'
<1>1. PICK mine : mine = [key |-> k, day |-> budgetDay, policy |-> ActivePolicy]
  OBVIOUS
<1>2. mine \notin reserved /\ reserved' = reserved \cup {mine}
  BY <1>1 DEF Reservation
<1>3. ASSUME NEW p \in DOMAIN policies, NEW l \in policies[p].limits, NEW r, NEW now \in 0 .. budgetDay,
             Held(p, l, r, now) <= l.cents
      PROVE  Held(p, l, r, now)' <= l.cents
  <2>1. Charged(p, l, r, now)' = Charged(p, l, r, now) /\ Spent' = Spent
    BY DEF Charged, Counts, Applies, Matches, Spent
  <2>2. \A b \in reserved : SetAside'[b] = SetAside[b]
    BY <1>2 DEF SetAside
  <2>3. /\ Promised(p, l, r, now) \in SUBSET reserved /\ IsFiniteSet(Promised(p, l, r, now))
        /\ \A b \in Promised(p, l, r, now) : SetAside[b] \in Nat
        /\ SumFunctionOnSet(SetAside, Promised(p, l, r, now)) \in Nat
    <3>1. Promised(p, l, r, now) \in SUBSET reserved
      BY DEF Promised
    <3> QED
      BY <3>1, AsideSums
  <2>4. SumFunctionOnSet(SetAside', Promised(p, l, r, now)) = SumFunctionOnSet(SetAside, Promised(p, l, r, now))
    <3>1. \A b \in Promised(p, l, r, now) : SetAside'[b] = SetAside[b]
      BY <2>2, <2>3
    <3> QED
      BY <2>3, <3>1, SumSame
  <2>5. CASE ~Counts(p, l, r, now, mine, mine.day)
    <3>1. Promised(p, l, r, now)' = Promised(p, l, r, now)
      BY <1>2, <2>5 DEF Promised, Counts, Applies, Matches
    <3> QED
      BY <1>3, <2>1, <2>4, <3>1, HeldIs, HeldBecomes
  <2>6. CASE Counts(p, l, r, now, mine, mine.day)
    <3>1. Promised(p, l, r, now)' = Promised(p, l, r, now) \cup {mine}
      BY <1>2, <2>6 DEF Promised, Counts, Applies, Matches
    <3>2. mine.key = k /\ mine.day = budgetDay /\ p = ActivePolicy /\ Applies(l, policies[p].limits, RequestOf[k])
      BY <1>1, <2>6 DEF Counts
    <3>3. RequestOf[k].cents \in Nat
      BY BudgetBounds
    <3>4. SumFunctionOnSet(SetAside', Promised(p, l, r, now)')
          = RequestOf[k].cents + SumFunctionOnSet(SetAside, Promised(p, l, r, now))
      <4>1. PICK whole : whole = Promised(p, l, r, now) \cup {mine}
        OBVIOUS
      <4>2. mine \in whole /\ whole \ {mine} = Promised(p, l, r, now) /\ IsFiniteSet(whole)
        <5>1. IsFiniteSet(Promised(p, l, r, now) \cup {mine})
          BY <2>3, FS_AddElement
        <5> QED
          BY <4>1, <5>1, <1>2, <2>3
      <4>3. SetAside'[mine] = RequestOf[k].cents
        BY <1>2, <3>2 DEF SetAside
      <4>4. \A b \in whole : SetAside'[b] \in Nat
        BY <2>2, <2>3, <3>3, <4>1, <4>3
      <4>5. SumFunctionOnSet(SetAside', whole) = SetAside'[mine] + SumFunctionOnSet(SetAside', whole \ {mine})
        BY <4>2, <4>4, SumLess
      <4> QED
        BY <2>4, <3>1, <4>1, <4>2, <4>3, <4>5
    <3>5. /\ UsedFor(l, RequestOf[k], budgetDay) + ReservedFor(l, RequestOf[k], budgetDay) + RequestOf[k].cents <= l.cents
      BY <3>2 DEF WithinBudget
    <3>6. /\ SumFunctionOnSet(Spent, Charged(p, l, r, now)) <= UsedFor(l, RequestOf[k], budgetDay)
          /\ UsedFor(l, RequestOf[k], budgetDay) \in Nat /\ SumFunctionOnSet(Spent, Charged(p, l, r, now)) \in Nat
      <4>1. PICK X : X = {n \in DOMAIN usage : Matches(l, RequestOf[usage[n].key], usage[n].day, RequestOf[k], budgetDay)}
        OBVIOUS
      <4>2. Charged(p, l, r, now) \subseteq X
        <5>1. SUFFICES ASSUME NEW n \in Charged(p, l, r, now) PROVE n \in X
          OBVIOUS
        <5>2. n \in DOMAIN usage /\ Matches(l, RequestOf[usage[n].key], usage[n].made, r, now)
          BY DEF Charged, Counts
        <5>3. usage[n] \in FactRow /\ usage[n].made <= usage[n].day /\ usage[n].day <= budgetDay
          BY <5>2 DEF BudgetInv, UsedWell
        <5>4. usage[n].made \in Nat /\ usage[n].day \in Nat
          BY <5>3 DEF FactRow
        <5>5. Matches(l, RequestOf[k], budgetDay, r, now)
          BY <2>6, <3>2 DEF Counts
        <5> QED
          BY <4>1, <5>2, <5>3, <5>4, <5>5, AllLookedAt
      <4>3. X \in SUBSET DOMAIN usage /\ UsedFor(l, RequestOf[k], budgetDay) = SumFunctionOnSet(Spent, X)
        BY <4>1 DEF UsedFor
      <4>4. Charged(p, l, r, now) \in SUBSET DOMAIN usage
        BY DEF Charged
      <4> QED
        BY <4>2, <4>3, <4>4, SpentSums
    <3>7. /\ SumFunctionOnSet(SetAside, Promised(p, l, r, now)) <= ReservedFor(l, RequestOf[k], budgetDay)
          /\ ReservedFor(l, RequestOf[k], budgetDay) \in Nat
      <4>1. PICK X : X = {b \in reserved : Matches(l, RequestOf[b.key], b.day, RequestOf[k], budgetDay)}
        OBVIOUS
      <4>2. Promised(p, l, r, now) \subseteq X
        <5>1. SUFFICES ASSUME NEW b \in Promised(p, l, r, now) PROVE b \in X
          OBVIOUS
        <5>2. b \in reserved /\ Matches(l, RequestOf[b.key], b.day, r, now)
          BY DEF Promised, Counts
        <5>3. b.day \in Nat /\ b.day <= budgetDay
          BY <5>2 DEF BudgetInv, ReservedWell
        <5>4. Matches(l, RequestOf[k], budgetDay, r, now)
          BY <2>6, <3>2 DEF Counts
        <5> QED
          BY <4>1, <5>2, <5>3, <5>4, AllLookedAt
      <4>3. X \in SUBSET reserved /\ ReservedFor(l, RequestOf[k], budgetDay) = SumFunctionOnSet(SetAside, X)
        BY <4>1 DEF ReservedFor
      <4> QED
        BY <4>2, <4>3, AsideSums
    <3>8. Held(p, l, r, now)' = SumFunctionOnSet(Spent, Charged(p, l, r, now))
                                + (RequestOf[k].cents + SumFunctionOnSet(SetAside, Promised(p, l, r, now)))
      BY <2>1, <3>4, HeldBecomes
    <3>9. l.cents \in Nat
      BY LimitsNumbers
    <3> QED
      BY <2>3, <3>3, <3>5, <3>6, <3>7, <3>8, <3>9
  <2> QED
    BY <2>5, <2>6
<1> QED
  BY <1>3 DEF BudgetInv, WithinLimits

(* A call ends: what it cost takes the place of what was set aside for it. *)
LEMMA SettlementsGo ==
    ASSUME BudgetInv, NEW b \in reserved, NEW cost \in Nat, NEW fact, fact \in FactRow,
           cost <= RequestOf[b.key].cents,
           fact.key = b.key, fact.cost = cost, fact.made = b.day, fact.policy = b.policy,
           reserved' = reserved \ {b}, usage' = Append(usage, fact), UNCHANGED <<budgetDay, policies>>
    PROVE  WithinLimits'
<1>1. usage \in Seq(FactRow) /\ Len(usage) \in Nat /\ DOMAIN usage = 1 .. Len(usage)
  BY DEF BudgetInv, UsedWell
<1>2. PICK last : last = Len(usage) + 1
  OBVIOUS
<1>3. /\ DOMAIN usage' = DOMAIN usage \cup {last} /\ last \notin DOMAIN usage
      /\ usage'[last] = fact /\ \A n \in DOMAIN usage : usage'[n] = usage[n]
  BY <1>1, <1>2
<1>4. /\ Spent'[last] = cost /\ \A n \in DOMAIN usage : Spent'[n] = Spent[n]
      /\ \A c \in reserved' : SetAside'[c] = SetAside[c]
  BY <1>3 DEF Spent, SetAside
<1>5. SetAside[b] = RequestOf[b.key].cents
  BY DEF SetAside
<1>6. ASSUME NEW p \in DOMAIN policies, NEW l \in policies[p].limits, NEW r, NEW now \in 0 .. budgetDay,
             Held(p, l, r, now) <= l.cents
      PROVE  Held(p, l, r, now)' <= l.cents
  <2> DEFINE C == Charged(p, l, r, now)
             P == Promised(p, l, r, now)
  <2>1. C \in SUBSET DOMAIN usage /\ P \in SUBSET reserved
    BY DEF Charged, Promised
  <2>2. IsFiniteSet(C) /\ (\A n \in C : Spent[n] \in Nat) /\ SumFunctionOnSet(Spent, C) \in Nat
    BY <2>1, SpentSums
  <2>3. IsFiniteSet(P) /\ (\A c \in P : SetAside[c] \in Nat) /\ SumFunctionOnSet(SetAside, P) \in Nat
    BY <2>1, AsideSums
  <2>4. SumFunctionOnSet(Spent', C) = SumFunctionOnSet(Spent, C)
    <3>1. \A n \in C : Spent'[n] = Spent[n]
      BY <1>4, <2>1
    <3> HIDE DEF C
    <3> QED
      BY <2>2, <3>1, SumSame
  <2>5. P \ {b} \in SUBSET reserved /\ IsFiniteSet(P \ {b}) /\ SumFunctionOnSet(SetAside, P \ {b}) \in Nat
    <3>1. P \ {b} \in SUBSET reserved
      BY <2>1
    <3> HIDE DEF P
    <3> QED
      BY <3>1, AsideSums
  <2>6. SumFunctionOnSet(SetAside', P \ {b}) = SumFunctionOnSet(SetAside, P \ {b})
    <3>1. \A c \in P \ {b} : SetAside'[c] = SetAside[c]
      BY <1>4, <2>1
    <3> HIDE DEF P
    <3> QED
      BY <2>5, <3>1, SumSame
  <2>7. P' = P \ {b}
    BY DEF Promised, Counts, Applies, Matches
  <2>8. Held(p, l, r, now) = SumFunctionOnSet(Spent, C) + SumFunctionOnSet(SetAside, P)
    BY HeldIs
  <2>9. Held(p, l, r, now)' = SumFunctionOnSet(Spent', C') + SumFunctionOnSet(SetAside', P \ {b})
    BY <2>7, HeldBecomes
  <2>10. l.cents \in Nat
    BY LimitsNumbers
  <2>11. Counts(p, l, r, now, usage[last], usage[last].made)' <=> Counts(p, l, r, now, b, b.day)
    BY <1>3 DEF Counts, Applies, Matches
  <2>12. \A n \in DOMAIN usage : Counts(p, l, r, now, usage[n], usage[n].made)' <=> Counts(p, l, r, now, usage[n], usage[n].made)
    BY <1>3 DEF Counts, Applies, Matches
  <2>13. CASE ~Counts(p, l, r, now, b, b.day)
    <3>1. C' = C
      BY <1>3, <2>11, <2>12, <2>13 DEF Charged
    <3>2. P \ {b} = P
      BY <2>13 DEF Promised
    <3> HIDE DEF C, P
    <3> QED
      BY <1>6, <2>4, <2>6, <2>8, <2>9, <3>1, <3>2
  <2>14. CASE Counts(p, l, r, now, b, b.day)
    <3>1. PICK whole : whole = C \cup {last}
      OBVIOUS
    <3>2. C' = whole
      BY <1>3, <2>11, <2>12, <2>14, <3>1 DEF Charged
    <3>3. b \in P
      BY <2>14 DEF Promised
    <3>4. last \in whole /\ whole \ {last} = C
      BY <1>3, <2>1, <3>1
    <3> HIDE DEF C, P
    <3>5. IsFiniteSet(whole)
      BY <2>2, <3>1, FS_AddElement
    <3>6. \A n \in whole : Spent'[n] \in Nat
      BY <1>4, <2>1, <2>2, <3>1
    <3>7. SumFunctionOnSet(Spent', whole) = Spent'[last] + SumFunctionOnSet(Spent', whole \ {last})
      BY <3>4, <3>5, <3>6, SumLess
    <3>8. SumFunctionOnSet(SetAside, P) = SetAside[b] + SumFunctionOnSet(SetAside, P \ {b})
      BY <2>3, <3>3, SumLess
    <3>9. SetAside[b] \in Nat
      BY <2>3, <3>3
    <3>10. /\ Held(p, l, r, now) = SumFunctionOnSet(Spent, C) + (SetAside[b] + SumFunctionOnSet(SetAside, P \ {b}))
           /\ Held(p, l, r, now)' = (cost + SumFunctionOnSet(Spent, C)) + SumFunctionOnSet(SetAside, P \ {b})
      BY <1>4, <2>4, <2>6, <2>8, <2>9, <3>2, <3>4, <3>7, <3>8
    <3> QED
      BY <1>5, <1>6, <2>2, <2>5, <2>10, <3>9, <3>10
  <2> QED
    BY <2>13, <2>14
<1> QED
  BY <1>6 DEF BudgetInv, WithinLimits

(* Every command that ends a call does so with a cost the request allows.  *)
LEMMA EndsGo ==
    ASSUME BudgetInv, NEW g \in Gateways, NEW status \in EndStatus, NEW cost \in Nat,
           EndCall(g, status, cost), cost <= RequestOf[serving[g].key].cents, status = "budget_exceeded" => cost = 0
    PROVE  BudgetInv'
<1>1. PICK k : k = serving[g].key
  OBVIOUS
<1>2. /\ k \in CallKeys /\ GatewayOf[k] = g /\ Reservation(k) # {}
      /\ Settle(k, cost) /\ Ended(k, status, cost)
      /\ serving' = [serving EXCEPT ![g] = NotServing] /\ UNCHANGED <<budgetDay, policies>>
  BY <1>1 DEF EndCall, BudgetInv, ServesWell
<1>3. PICK b \in reserved : b.key = k /\ Reservation(k) = {b}
  BY <1>2 DEF Reservation, BudgetInv, ReservedWell
<1>4. (CHOOSE c \in Reservation(k) : TRUE) = b /\ Cardinality(Reservation(k)) = 1
  <2>1. (CHOOSE c \in {b} : TRUE) = b
    OBVIOUS
  <2>2. Cardinality({b}) = 1
    BY FS_Singleton
  <2> QED
    BY <1>3, <2>1, <2>2
<1>5. PICK fact : fact = [key |-> k, cost |-> cost, day |-> budgetDay, made |-> b.day, policy |-> b.policy]
  OBVIOUS
<1>6. /\ b.day \in 0 .. budgetDay /\ b.policy \in DOMAIN policies /\ callRecord[k] = NotCalled
      /\ budgetDay \in Nat /\ policies \in Seq(PolicyRow)
  BY <1>3 DEF BudgetInv, ReservedWell
<1>7. fact \in FactRow
  BY <1>2, <1>5, <1>6 DEF FactRow
<1>8. usage \in Seq(FactRow) /\ Len(usage) \in Nat /\ DOMAIN usage = 1 .. Len(usage)
  BY DEF BudgetInv, UsedWell
<1>9. reserved' = reserved \ {b} /\ usage' = Append(usage, fact)
  <2>1. reserved' = reserved \ Reservation(k)
    BY <1>2 DEF Settle
  <2>2. usage' = usage \o [n \in 1 .. 1 |-> fact]
    BY <1>2, <1>4, <1>5 DEF Settle
  <2>3. [n \in 1 .. 1 |-> fact] = <<fact>>
    OBVIOUS
  <2> QED
    BY <1>3, <1>7, <1>8, <2>1, <2>2, <2>3
<1>10. WithinLimits'
  BY <1>1, <1>2, <1>3, <1>5, <1>7, <1>9, SettlementsGo
<1>11. callRecord' = [callRecord EXCEPT ![k] = [status |-> status, cost |-> cost]]
  BY <1>2 DEF Ended
<1>12. ReservedWell'
  <2>1. IsFiniteSet(reserved')
    BY <1>9, SubsetSizes DEF BudgetInv, ReservedWell
  <2>2. \A c \in reserved' : c \in reserved /\ c.key # k
    BY <1>3, <1>9 DEF BudgetInv, ReservedWell
  <2> QED
    BY <1>2, <1>11, <2>1, <2>2 DEF BudgetInv, ReservedWell, CalledWell
<1>13. PICK last : last = Len(usage) + 1
  OBVIOUS
<1>14. /\ DOMAIN usage' = DOMAIN usage \cup {last} /\ last \notin DOMAIN usage
       /\ usage'[last] = fact /\ \A n \in DOMAIN usage : usage'[n] = usage[n]
  BY <1>8, <1>9, <1>13
<1>15. \A n \in DOMAIN usage : usage[n].key # k
  <2>1. \A n \in DOMAIN usage : callRecord[usage[n].key].status \in EndStatus
    BY DEF BudgetInv, UsedWell
  <2>2. callRecord[k].status \notin EndStatus
    BY <1>6 DEF NotCalled, EndStatus
  <2> QED
    BY <2>1, <2>2
<1>16. UsedWell'
  <2>1. usage' \in Seq(FactRow)
    BY <1>7, <1>8, <1>9
  <2>2. DOMAIN callRecord = CallKeys /\ \A n \in DOMAIN usage : usage[n].key \in CallKeys
    <3>1. \A n \in DOMAIN usage : usage[n] \in FactRow
      BY <1>8
    <3> QED
      BY <3>1 DEF BudgetInv, CalledWell, FactRow
  <2>3. /\ fact.made <= fact.day /\ fact.day <= budgetDay /\ fact.policy \in DOMAIN policies /\ fact.key = k
        /\ callRecord'[k].status \in EndStatus
    BY <1>2, <1>5, <1>6, <1>11, <2>2
  <2>4. ASSUME NEW n \in DOMAIN usage'
        PROVE  /\ usage'[n].made <= usage'[n].day /\ usage'[n].day <= budgetDay /\ usage'[n].policy \in DOMAIN policies
               /\ callRecord'[usage'[n].key].status \in EndStatus
    <3>1. CASE n = last
      BY <3>1, <1>14, <2>3
    <3>2. CASE n \in DOMAIN usage
      BY <3>2, <1>11, <1>14, <1>15, <2>2 DEF BudgetInv, UsedWell
    <3> QED
      BY <1>14, <3>1, <3>2
  <2>5. \A n, o \in DOMAIN usage' : usage'[n].key = usage'[o].key => n = o
    BY <1>14, <1>15, <2>3 DEF BudgetInv, UsedWell
  <2> QED
    BY <1>2, <2>1, <2>4, <2>5 DEF UsedWell
<1>17. CalledWell'
  <2>1. ASSUME NEW j \in CallKeys
        PROVE  /\ callRecord'[j] \in [status : EndStatus \cup {"none"}, cost : Nat]
               /\ callRecord'[j].status \in EndStatus \ {"budget_exceeded"} =>
                     \E n \in DOMAIN usage' : usage'[n].key = j /\ usage'[n].cost = callRecord'[j].cost
               /\ callRecord'[j].status = "budget_exceeded" =>
                     \A n \in DOMAIN usage' : usage'[n].key = j => usage'[n].cost = 0
    <3>1. CASE j = k
      <4>1. callRecord'[j] = [status |-> status, cost |-> cost]
        BY <3>1, <1>2, <1>11 DEF BudgetInv, CalledWell
      <4>2. usage'[last].key = j /\ usage'[last].cost = cost /\ \A n \in DOMAIN usage' : usage'[n].key = j => n = last
        BY <3>1, <1>5, <1>14, <1>15
      <4> QED
        BY <4>1, <4>2, <1>14
    <3>2. CASE j # k
      <4>1. callRecord'[j] = callRecord[j]
        BY <3>2, <1>11 DEF BudgetInv, CalledWell
      <4>2. usage'[last].key # j
        BY <3>2, <1>5, <1>14
      <4> QED
        BY <4>1, <4>2, <1>14 DEF BudgetInv, CalledWell
    <3> QED
      BY <3>1, <3>2
  <2> QED
    BY <1>11, <2>1 DEF BudgetInv, CalledWell
<1>18. ASSUME NEW h \in Gateways PROVE ServesWell(h)'
  <2>1. CASE h = g
    <3>1. serving'[h] = NotServing
      BY <2>1, <1>2 DEF BudgetInv
    <3> QED
      BY <3>1 DEF ServesWell, NotServing
  <2>2. CASE h # g
    <3>1. serving'[h] = serving[h] /\ ServesWell(h)
      BY <2>2, <1>2 DEF BudgetInv
    <3>2. ASSUME serving[h] # NotServing PROVE Reservation(serving[h].key)' # {}
      <4>1. serving[h].key # k /\ Reservation(serving[h].key) # {}
        BY <1>2, <2>2, <3>1, <3>2 DEF ServesWell
      <4>2. PICK c \in reserved : c.key = serving[h].key
        BY <4>1 DEF Reservation
      <4>3. c \in reserved'
        BY <1>3, <1>9, <4>1, <4>2
      <4> QED
        BY <3>1, <4>2, <4>3 DEF Reservation
    <3> QED
      BY <3>1, <3>2 DEF ServesWell
  <2> QED
    BY <2>1, <2>2
<1> QED
  BY <1>2, <1>6, <1>10, <1>12, <1>16, <1>17, <1>18 DEF BudgetInv

(* A call begins: it is refused, admitted, or takes over what is open.     *)
LEMMA CallsBegin ==
    ASSUME BudgetInv, NEW k \in CallKeys, NEW retries \in {0, 1}, BeginCall(k, retries)
    PROVE  BudgetInv'
<1>1. UNCHANGED <<budgetDay, policies, usage>> /\ callRecord[k] = NotCalled /\ GatewayOf[k] \in Gateways
  BY DEF BeginCall, Gateways
<1>2. CASE Reservation(k) = {} /\ (policies = <<>> \/ ~WithinBudget(RequestOf[k]))
  <2>1. callRecord' = [callRecord EXCEPT ![k].status = "budget_exceeded"] /\ UNCHANGED <<reserved, serving>>
    BY <1>2 DEF BeginCall
  <2>2. DOMAIN callRecord = CallKeys /\ callRecord'[k] = [status |-> "budget_exceeded", cost |-> 0]
        /\ \A j \in CallKeys \ {k} : callRecord'[j] = callRecord[j]
    BY <1>1, <2>1 DEF BudgetInv, CalledWell, NotCalled
  <2>3. ReservedWell'
    BY <1>1, <1>2, <2>1, <2>2 DEF BudgetInv, ReservedWell, Reservation
  <2>4. UsedWell'
    <3>1. \A n \in DOMAIN usage : usage[n].key \in CallKeys
      <4>1. \A n \in DOMAIN usage : usage[n] \in FactRow
        BY DEF BudgetInv, UsedWell
      <4> QED
        BY <4>1 DEF FactRow
    <3>2. \A n \in DOMAIN usage : usage[n].key # k
      <4>1. callRecord[k].status \notin EndStatus
        BY <1>1 DEF NotCalled, EndStatus
      <4>2. \A n \in DOMAIN usage : callRecord[usage[n].key].status \in EndStatus
        BY DEF BudgetInv, UsedWell
      <4> QED
        BY <4>1, <4>2
    <3> QED
      BY <1>1, <2>2, <3>1, <3>2 DEF BudgetInv, UsedWell
  <2>8. \A n \in DOMAIN usage : usage[n].key # k
    <3>1. callRecord[k].status \notin EndStatus
      BY <1>1 DEF NotCalled, EndStatus
    <3>2. \A n \in DOMAIN usage : callRecord[usage[n].key].status \in EndStatus
      BY DEF BudgetInv, UsedWell
    <3> QED
      BY <3>1, <3>2
  <2>5. CalledWell'
    <3>1. ASSUME NEW j \in CallKeys
          PROVE  /\ callRecord'[j] \in [status : EndStatus \cup {"none"}, cost : Nat]
                 /\ callRecord'[j].status \in EndStatus \ {"budget_exceeded"} =>
                       \E n \in DOMAIN usage' : usage'[n].key = j /\ usage'[n].cost = callRecord'[j].cost
                 /\ callRecord'[j].status = "budget_exceeded" =>
                       \A n \in DOMAIN usage' : usage'[n].key = j => usage'[n].cost = 0
      <4>1. CASE j = k
        BY <4>1, <1>1, <2>2, <2>8 DEF EndStatus
      <4>2. CASE j # k
        BY <4>2, <1>1, <2>2 DEF BudgetInv, CalledWell
      <4> QED
        BY <4>1, <4>2
    <3> QED
      BY <2>1, <2>2, <3>1 DEF CalledWell
  <2>6. \A g \in Gateways : ServesWell(g)'
    BY <2>1 DEF BudgetInv, ServesWell, Reservation
  <2>7. WithinLimits'
    BY <1>1, <2>1, HeldStays DEF BudgetInv, WithinLimits
  <2> QED
    BY <1>1, <2>1, <2>3, <2>4, <2>5, <2>6, <2>7 DEF BudgetInv
<1>3. CASE ~(Reservation(k) = {} /\ (policies = <<>> \/ ~WithinBudget(RequestOf[k])))
  <2>1. PICK mine : mine = [key |-> k, day |-> budgetDay, policy |-> ActivePolicy]
    OBVIOUS
  <2>2. /\ serving' = [serving EXCEPT ![GatewayOf[k]] = [key |-> k, left |-> retries]]
        /\ reserved' = IF Reservation(k) # {} THEN reserved ELSE reserved \cup {mine}
        /\ UNCHANGED callRecord
    BY <1>3, <2>1 DEF BeginCall
  <2>3. ReservedWell'
    <3>1. CASE Reservation(k) # {}
      BY <3>1, <1>1, <2>2 DEF BudgetInv, ReservedWell
    <3>2. CASE Reservation(k) = {}
      <4>1. policies # <<>> /\ reserved' = reserved \cup {mine}
        BY <3>2, <1>3, <2>2
      <4>2. mine.policy \in DOMAIN policies /\ mine.day = budgetDay /\ mine.key = k
        BY <4>1, <2>1, ActiveIs
      <4>3. \A c \in reserved : c.key # k
        BY <3>2 DEF Reservation
      <4>4. IsFiniteSet(reserved')
        BY <4>1, FS_AddElement DEF BudgetInv, ReservedWell
      <4> QED
        BY <1>1, <2>2, <4>1, <4>2, <4>3, <4>4 DEF BudgetInv, ReservedWell
    <3> QED
      BY <3>1, <3>2
  <2>4. UsedWell' /\ CalledWell'
    BY <1>1, <2>2 DEF BudgetInv, UsedWell, CalledWell
  <2>5. reserved \subseteq reserved' /\ Reservation(k)' # {}
    BY <2>1, <2>2 DEF Reservation
  <2>6. ASSUME NEW g \in Gateways PROVE ServesWell(g)'
    <3>1. CASE g = GatewayOf[k]
      <4>1. serving'[g] = [key |-> k, left |-> retries]
        BY <3>1, <2>2 DEF BudgetInv
      <4> QED
        BY <3>1, <4>1, <2>5 DEF ServesWell
    <3>2. CASE g # GatewayOf[k]
      BY <3>2, <2>2, <2>5 DEF BudgetInv, ServesWell, Reservation
    <3> QED
      BY <3>1, <3>2
  <2>7. WithinLimits'
    <3>1. CASE Reservation(k) # {}
      BY <3>1, <1>1, <2>2, HeldStays DEF BudgetInv, WithinLimits
    <3>2. CASE Reservation(k) = {}
      BY <3>2, <1>1, <1>3, <2>1, <2>2, ReservationsGo
    <3> QED
      BY <3>1, <3>2
  <2> QED
    BY <1>1, <2>2, <2>3, <2>4, <2>6, <2>7 DEF BudgetInv
<1> QED
  BY <1>2, <1>3

LEMMA AnswersGo ==
    ASSUME BudgetInv, NEW g \in Gateways, NEW cost \in Costs, Answer(g, cost)
    PROVE  BudgetInv'
<1>1. RequestOf[serving[g].key].cents \in Nat /\ cost \in Nat
  BY BudgetBounds DEF Answer, BudgetInv, ServesWell
<1>2. CASE cost <= RequestOf[serving[g].key].cents
  BY <1>1, <1>2, EndsGo DEF Answer, EndStatus
<1>3. CASE ~(cost <= RequestOf[serving[g].key].cents)
  BY <1>1, <1>3, EndsGo DEF Answer, EndStatus
<1> QED
  BY <1>2, <1>3

LEMMA GivesUp ==
    ASSUME BudgetInv, NEW g \in Gateways, GiveUp(g)
    PROVE  BudgetInv'
<1>1. PICK s \in EndStatus : EndCall(g, s, 0)
  BY DEF GiveUp, EndStatus
<1>2. RequestOf[serving[g].key].cents \in Nat
  BY <1>1, BudgetBounds DEF EndCall, BudgetInv, ServesWell
<1> QED
  BY <1>1, <1>2, EndsGo

(* A call tries again, or is given up with its reservation open.           *)
LEMMA AttemptsGo ==
    ASSUME BudgetInv, NEW g \in Gateways, RetryCall(g) \/ CallEscapes(g)
    PROVE  BudgetInv'
<1>1. UNCHANGED <<budgetDay, policies, reserved, usage, callRecord>> /\ serving[g] # NotServing /\ ServesWell(g)
  BY DEF RetryCall, CallEscapes, BudgetInv
<1>2. ReservedWell' /\ UsedWell' /\ CalledWell'
  BY <1>1 DEF BudgetInv, ReservedWell, UsedWell, CalledWell
<1>3. DOMAIN serving' = Gateways /\ \A h \in Gateways \ {g} : serving'[h] = serving[h]
  BY DEF RetryCall, CallEscapes, BudgetInv
<1>4. ServesWell(g)'
  <2>1. CASE RetryCall(g)
    <3>1. serving'[g] = [serving[g] EXCEPT !.left = @ - 1]
      BY <2>1 DEF RetryCall, BudgetInv
    <3>2. serving[g] \in [key : CallKeys \cup {"none"}, left : Int]
      BY <1>1 DEF ServesWell
    <3>3. serving'[g] \in [key : CallKeys \cup {"none"}, left : Int] /\ serving'[g].key = serving[g].key
      BY <3>1, <3>2
    <3> QED
      BY <1>1, <3>3 DEF ServesWell, Reservation
  <2>2. CASE CallEscapes(g)
    <3>1. serving'[g] = NotServing
      BY <2>2 DEF CallEscapes, BudgetInv
    <3> QED
      BY <3>1 DEF ServesWell, NotServing
  <2> QED
    BY <2>1, <2>2
<1>5. \A h \in Gateways : ServesWell(h)'
  BY <1>1, <1>3, <1>4 DEF BudgetInv, ServesWell, Reservation
<1>6. WithinLimits'
  BY <1>1, HeldStays DEF BudgetInv, WithinLimits
<1> QED
  BY <1>1, <1>2, <1>3, <1>5, <1>6 DEF BudgetInv

LEMMA BudgetGoes == BudgetInv /\ BudgetNext => BudgetInv'
BY DaysGo, PoliciesGo, CallsBegin, AttemptsGo, GivesUp, AnswersGo DEF BudgetNext

LEMMA BudgetStays == BudgetInv /\ UNCHANGED budgetVars => BudgetInv'
<1> SUFFICES ASSUME BudgetInv, UNCHANGED budgetVars PROVE BudgetInv'
  OBVIOUS
<1>1. ReservedWell' /\ UsedWell' /\ CalledWell'
  BY DEF budgetVars, BudgetInv, ReservedWell, UsedWell, CalledWell
<1>2. \A g \in Gateways : ServesWell(g)'
  BY DEF budgetVars, BudgetInv, ServesWell, Reservation
<1>3. WithinLimits'
  BY HeldStays DEF budgetVars, BudgetInv, WithinLimits
<1> QED
  BY <1>1, <1>2, <1>3 DEF budgetVars, BudgetInv

BudgetSpec == BudgetInit /\ [][BudgetNext]_budgetVars

(* The invariant of the budget and the gateways that call models.          *)
THEOREM BudgetInvariant == BudgetSpec => []BudgetInv
<1>1. BudgetInit => BudgetInv
  BY BudgetStarts
<1>2. BudgetInv /\ [BudgetNext]_budgetVars => BudgetInv'
  BY BudgetGoes, BudgetStays
<1> QED
  BY <1>1, <1>2, PTL DEF BudgetSpec

(* What is held under a limit, reserved or charged, is within it, whatever *)
(* the calls, the limits and the days, and however the policies follow one *)
(* another while calls are under way.                                      *)
THEOREM BudgetKeptAlways == BudgetSpec => []BudgetKept
<1>1. BudgetInv => BudgetKept
  BY BudgetTold
<1> QED
  BY <1>1, BudgetInvariant, PTL

LEMMA Budgeted == ASSUME Next PROVE [BudgetNext]_budgetVars
<1>1. UNCHANGED servedVars => UNCHANGED budgetVars
  BY DEF servedVars, memoryVars
<1>2. CASE ServedNext
  <2>1. CASE chosen = "budget"
    BY <1>2, <2>1 DEF ServedNext, CallsNext
  <2>2. CASE chosen # "budget"
    BY <1>2, <2>2 DEF ServedNext, memoryVars
  <2> QED
    BY <2>1, <2>2
<1>3. CASE DecideNext
  BY <1>1, <1>3 DEF DecideNext
<1>4. CASE RecoverNext
  BY <1>1, <1>4 DEF RecoverNext
<1> QED
  BY <1>2, <1>3, <1>4 DEF Next

(* It holds of the very specification the run of the services checks.      *)
THEOREM BudgetKeptInServices == Spec => []BudgetKept
<1>1. Init => BudgetInit
  BY DEF Init
<1>2. [Next]_allVars => [BudgetNext]_budgetVars
  <2>1. UNCHANGED allVars => UNCHANGED budgetVars
    BY DEF allVars, servedVars, memoryVars
  <2> QED
    BY <2>1, Budgeted
<1>3. BudgetSpec => []BudgetKept
  BY BudgetKeptAlways
<1> QED
  BY <1>1, <1>2, <1>3, PTL DEF Spec, BudgetSpec

-----------------------------------------------------------------------------
(* Folds. What is folded over a finite set is a function on its subsets,   *)
(* which takes one element after the other away.                           *)
Folded(Pick, Grow, base, s, g) == IF s = {} THEN base ELSE Grow[<<Pick[s], g[s \ {Pick[s]}]>>]
Foldable(S, T, base, Pick, Grow) ==
    /\ IsFiniteSet(S) /\ base \in T /\ Grow \in [S \X T -> T]
    /\ \A s \in SUBSET S : s # {} => Pick[s] \in s
FoldOf(S, T, base, Pick, Grow, g) == \A s \in SUBSET S : g[s] \in T /\ g[s] = Folded(Pick, Grow, base, s, g)

LEMMA FoldExists ==
    ASSUME NEW S, NEW T, NEW base, NEW Pick, NEW Grow, Foldable(S, T, base, Pick, Grow)
    PROVE  \E g : FoldOf(S, T, base, Pick, Grow, g)
<1>1. IsFiniteSet(S) /\ base \in T
  BY DEF Foldable
<1>2. Grow \in [S \X T -> T]
  BY DEF Foldable
<1>3. \A s \in SUBSET S : s # {} => Pick[s] \in s
  BY DEF Foldable
<1> DEFINE Folds(g, n) == \A s \in UpTo(S, n) : g[s] \in T /\ g[s] = Folded(Pick, Grow, base, s, g)
           Failing == {m \in Nat : ~\E g : Folds(g, m)}
<1>4. Cardinality(S) \in Nat /\ UpTo(S, Cardinality(S)) = SUBSET S
  <2>1. Cardinality(S) \in Nat
    BY <1>1, FS_CardinalityType
  <2> QED
    BY <1>1, <2>1, SubsetSizes DEF UpTo
<1>5. SUFFICES ASSUME Failing # {} PROVE FALSE
  <2>1. CASE Failing = {}
    <3>1. PICK g : Folds(g, Cardinality(S))
      BY <1>4, <2>1
    <3> QED
      BY <1>4, <3>1 DEF FoldOf
  <2> QED
    BY <2>1
<1>6. PICK m \in Failing : \A k \in Failing : m <= k
  BY <1>5, LeastIn
<1>7. CASE m = 0
  <2>1. ASSUME NEW s \in UpTo(S, 0) PROVE s = {}
    <3>1. SUFFICES ASSUME NEW x \in s PROVE FALSE
      OBVIOUS
    <3>2. s \in SUBSET S /\ Cardinality(s) <= 0
      BY DEF UpTo
    <3>3. Cardinality(s) \in Nat \ {0}
      BY <1>1, <3>2, SmallerSets
    <3> QED
      BY <3>2, <3>3
  <2>2. Folds([s \in UpTo(S, 0) |-> base], 0)
    BY <1>1, <2>1 DEF Folded
  <2> QED
    BY <1>7, <2>2
<1>8. CASE m # 0
  <2>1. m - 1 \in Nat /\ m - 1 \notin Failing
    BY <1>6, <1>8
  <2>2. PICK g : Folds(g, m - 1)
    BY <2>1
  <2> DEFINE h == [s \in UpTo(S, m) |-> Folded(Pick, Grow, base, s, g)]
  <2>3. ASSUME NEW s \in UpTo(S, m) PROVE h[s] \in T /\ h[s] = Folded(Pick, Grow, base, s, h)
    <3>1. CASE s = {}
      BY <1>1, <3>1 DEF Folded
    <3>2. CASE s # {}
      <4>1. PICK x \in s : x = Pick[s]
        BY <1>3, <3>2 DEF UpTo
      <4>2. s \ {x} \in UpTo(S, m - 1) /\ s \ {x} \in UpTo(S, m) /\ x \in S
        <5>1. s \in SUBSET S /\ Cardinality(s) <= m
          BY <2>3 DEF UpTo
        <5>2. Cardinality(s) \in Nat /\ s \ {x} \in SUBSET S /\ Cardinality(s \ {x}) = Cardinality(s) - 1
          BY <1>1, <5>1, <4>1, SmallerSets
        <5> QED
          BY <5>1, <5>2, <4>1 DEF UpTo
      <4>3. g[s \ {x}] \in T /\ g[s \ {x}] = Folded(Pick, Grow, base, s \ {x}, g)
        BY <2>2, <4>2
      <4>4. h[s \ {x}] = g[s \ {x}]
        BY <4>2, <4>3
      <4>5. h[s] = Grow[<<x, g[s \ {x}]>>]
        BY <3>2, <4>1 DEF Folded
      <4>6. Grow[<<x, g[s \ {x}]>>] \in T
        BY <1>2, <4>2, <4>3
      <4> HIDE DEF h
      <4> QED
        BY <3>2, <4>1, <4>4, <4>5, <4>6 DEF Folded
    <3> QED
      BY <3>1, <3>2
  <2>4. Folds(h, m)
    BY <2>3
  <2> QED
    BY <2>4
<1> QED
  BY <1>7, <1>8

(* A finite set of numbers has a largest one.                              *)
LEMMA MostOf ==
    ASSUME NEW n \in Nat, NEW s \in SUBSET (1 .. n), s # {}
    PROVE  Max(s) \in s /\ \A k \in s : k <= Max(s)
<1>1. PICK B : B = {k \in Nat : \A j \in s : j <= k}
  OBVIOUS
<1>2. B \subseteq Nat /\ n \in B
  BY <1>1
<1>3. PICK top \in B : \A k \in B : top <= k
  BY <1>2, LeastIn
<1>4. top \in s
  <2>1. SUFFICES ASSUME top \notin s PROVE FALSE
    OBVIOUS
  <2>2. \A j \in s : j <= top /\ j \in Nat /\ j # 0 /\ j # top
    BY <1>1, <1>3, <2>1
  <2>3. top \in Nat /\ top # 0
    <3>1. PICK j \in s : j <= top /\ j \in Nat /\ j # 0
      BY <2>2
    <3> QED
      BY <1>1, <3>1
  <2>4. top - 1 \in B
    BY <1>1, <2>2, <2>3
  <2> QED
    BY <1>3, <2>3, <2>4
<1>5. \A k \in s : top >= k
  BY <1>1, <1>3
<1>6. Max(s) \in s /\ \A k \in s : Max(s) >= k
  BY <1>4, <1>5 DEF Max
<1> QED
  BY <1>6

(* The rows that count. What is kept of a list, in whatever order it is    *)
(* gone through, is the last version of each measure in it.                *)
Newest(rows) == {o \in rows : \A p \in rows : p[1] = o[1] => p[2] <= o[2]}
None4Each == [m \in Measures |-> 0]
LaterBody(order, s, g) == IF s = {} THEN None4Each ELSE LET x == Max(s) IN Later(g[s \ {x}], order[x])
Laters(order, g) == g = [s \in SUBSET DOMAIN order |-> LaterBody(order, s, g)]

Listable == Measures \X (Nat \ {0})

LEMMA ListablePairs == \A o \in Listable : o[1] \in Measures /\ o[2] \in Nat /\ o[2] # 0 /\ o = <<o[1], o[2]>>
BY DEF Listable

LEMMA SequenceOf ==
    ASSUME NEW R, NEW order \in Seq(R)
    PROVE  /\ Len(order) \in Nat /\ DOMAIN order = 1 .. Len(order) /\ IsFiniteSet(DOMAIN order)
           /\ \A k \in DOMAIN order : order[k] \in R
<1>1. Len(order) \in Nat /\ DOMAIN order = 1 .. Len(order) /\ \A k \in DOMAIN order : order[k] \in R
  OBVIOUS
<1>2. IsFiniteSet(1 .. Len(order))
  BY <1>1, FS_Interval
<1> QED
  BY <1>1, <1>2

LEMMA LatersUnfold ==
    ASSUME NEW order
    PROVE  FoldLeft(Later, [m \in Measures |-> 0], order) = (CHOOSE g : Laters(order, g))[DOMAIN order]
BY DEF FoldLeft, MapThenFoldSet, Laters, LaterBody, None4Each

LEMMA LaterOf ==
    ASSUME NEW best \in [Measures -> Nat], NEW o \in Listable
    PROVE  /\ Later(best, o) \in [Measures -> Nat]
           /\ \A m \in Measures : Later(best, o)[m] = IF m = o[1] /\ o[2] > best[m] THEN o[2] ELSE best[m]
BY ListablePairs DEF Later

LEMMA LatersAre ==
    ASSUME NEW order \in Seq(Listable)
    PROVE  \E g : Laters(order, g) /\ FoldLeft(Later, [m \in Measures |-> 0], order) = g[DOMAIN order]
<1>1. PICK S : S = DOMAIN order /\ IsFiniteSet(S) /\ S = 1 .. Len(order) /\ Len(order) \in Nat
  BY SequenceOf
<1>2. PICK T : T = [Measures -> Nat]
  OBVIOUS
<1>3. PICK Pick : Pick = [s \in SUBSET S |-> Max(s)]
  OBVIOUS
<1>4. PICK Grow : Grow = [p \in S \X T |-> Later(p[2], order[p[1]])]
  OBVIOUS
<1>5. \A s \in SUBSET S : s # {} => Pick[s] \in s
  <2> SUFFICES ASSUME NEW s \in SUBSET S, s # {} PROVE Pick[s] \in s
    OBVIOUS
  <2>1. Max(s) \in s
    BY <1>1, MostOf
  <2> QED
    BY <1>3, <2>1
<1>6. Grow \in [S \X T -> T]
  <2> SUFFICES ASSUME NEW p \in S \X T PROVE Later(p[2], order[p[1]]) \in T
    BY <1>4
  <2>1. p[2] \in [Measures -> Nat] /\ order[p[1]] \in Listable
    BY <1>1, <1>2, SequenceOf
  <2> QED
    BY <1>2, <2>1, LaterOf
<1>7. PICK base \in T : base = None4Each
  BY <1>2 DEF None4Each
<1>8. PICK g : \A s \in SUBSET S : g[s] \in T /\ g[s] = Folded(Pick, Grow, None4Each, s, g)
  <2>1. Foldable(S, T, base, Pick, Grow)
    BY <1>1, <1>5, <1>6 DEF Foldable
  <2>2. PICK g : FoldOf(S, T, base, Pick, Grow, g)
    BY <2>1, FoldExists
  <2> QED
    BY <2>2, <1>7 DEF FoldOf
<1>9. PICK h : h = [s \in SUBSET S |-> g[s]]
  OBVIOUS
<1>10. ASSUME NEW s \in SUBSET S PROVE h[s] = LaterBody(order, s, h)
  <2>1. CASE s = {}
    BY <2>1, <1>8, <1>9 DEF Folded, LaterBody
  <2>2. CASE s # {}
    <3>1. Pick[s] = Max(s) /\ Max(s) \in s /\ s \ {Max(s)} \in SUBSET S
      BY <1>3, <1>5, <2>2
    <3>2. g[s] = Grow[<<Max(s), g[s \ {Max(s)}]>>]
      BY <2>2, <3>1, <1>8 DEF Folded
    <3>3. <<Max(s), g[s \ {Max(s)}]>> \in S \X T
      BY <3>1, <1>8
    <3>4. g[s] = Later(g[s \ {Max(s)}], order[Max(s)])
      BY <3>2, <3>3, <1>4
    <3>5. h[s] = g[s] /\ h[s \ {Max(s)}] = g[s \ {Max(s)}]
      BY <3>1, <1>9
    <3> QED
      BY <2>2, <3>4, <3>5 DEF LaterBody
  <2> QED
    BY <2>1, <2>2
<1>11. Laters(order, h)
  BY <1>1, <1>9, <1>10 DEF Laters
<1> QED
  BY <1>11, LatersUnfold

(* What is gone through is as late as anything in it, and in it.           *)
LEMMA LatersTop ==
    ASSUME NEW order \in Seq(Listable), NEW g, Laters(order, g)
    PROVE  /\ g[DOMAIN order] \in [Measures -> Nat]
           /\ \A k \in DOMAIN order : order[k][2] <= g[DOMAIN order][order[k][1]]
           /\ \A m \in Measures : g[DOMAIN order][m] # 0 => \E k \in DOMAIN order : order[k] = <<m, g[DOMAIN order][m]>>
<1> DEFINE Top(s) == /\ g[s] \in [Measures -> Nat]
                     /\ \A k \in s : order[k][2] <= g[s][order[k][1]]
                     /\ \A m \in Measures : g[s][m] # 0 => \E k \in s : order[k] = <<m, g[s][m]>>
<1>1. PICK S : S = DOMAIN order /\ IsFiniteSet(S) /\ S = 1 .. Len(order) /\ Len(order) \in Nat
  BY SequenceOf
<1>2. PICK B : B = {s \in SUBSET S : ~Top(s)}
  OBVIOUS
<1>3. SUFFICES ASSUME B # {} PROVE FALSE
  <2>1. B = {} => Top(S)
    BY <1>2
  <2> QED
    BY <1>1, <2>1
<1>4. PICK t \in B : \A u \in B : Cardinality(t) <= Cardinality(u)
  <2>1. B \subseteq SUBSET S
    BY <1>2
  <2> QED
    BY <1>1, <1>3, <2>1, SmallestSet
<1>5. t \in SUBSET S /\ ~Top(t) /\ g[t] = LaterBody(order, t, g)
  BY <1>1, <1>2, <1>4 DEF Laters
<1>6. t # {}
  <2>1. SUFFICES ASSUME t = {} PROVE FALSE
    OBVIOUS
  <2>2. g[t] = None4Each
    BY <2>1, <1>5 DEF LaterBody
  <2> QED
    BY <2>1, <2>2, <1>5 DEF None4Each
<1>7. PICK x \in t : x = Max(t)
  BY <1>1, <1>5, <1>6, MostOf
<1>8. t \ {x} \in SUBSET S /\ ~(Cardinality(t) <= Cardinality(t \ {x}))
  <2>1. Cardinality(t) \in Nat \ {0} /\ t \ {x} \in SUBSET S /\ Cardinality(t \ {x}) = Cardinality(t) - 1
    BY <1>1, <1>5, <1>7, SmallerSets
  <2> QED
    BY <2>1
<1>9. Top(t \ {x})
  BY <1>2, <1>4, <1>8
<1>10. PICK best \in [Measures -> Nat] : best = g[t \ {x}]
  BY <1>9
<1>11. PICK o \in Listable : o = order[x]
  BY <1>1, <1>5, SequenceOf
<1>12. g[t] = Later(best, o)
  BY <1>5, <1>6, <1>7, <1>10, <1>11 DEF LaterBody
<1>13. PICK now \in [Measures -> Nat] :
          now = g[t] /\ \A m \in Measures : now[m] = IF m = o[1] /\ o[2] > best[m] THEN o[2] ELSE best[m]
  BY <1>12, LaterOf
<1>14. \A k \in t : order[k] \in Listable
  BY <1>1, <1>5, SequenceOf
<1>15. PICK a \in Measures, b \in Nat : o = <<a, b>> /\ a = o[1] /\ b = o[2]
  BY ListablePairs
<1>16. b <= now[a] /\ \A m \in Measures : (now[m] = b /\ m = a) \/ now[m] = best[m]
  BY <1>13, <1>15
<1>17. \A m \in Measures : best[m] <= now[m]
  BY <1>13, <1>15
<1>18. ASSUME NEW k \in t PROVE order[k][2] <= now[order[k][1]]
  <2>1. CASE k = x
    BY <2>1, <1>11, <1>15, <1>16
  <2>2. CASE k # x
    <3>1. order[k][2] <= best[order[k][1]]
      BY <2>2, <1>9, <1>10
    <3>2. PICK c \in Measures, d \in Nat : c = order[k][1] /\ d = order[k][2]
      BY <1>14, ListablePairs
    <3>3. d <= best[c]
      BY <3>1, <3>2
    <3>4. best[c] <= now[c] /\ now[c] \in Nat /\ best[c] \in Nat
      BY <1>17
    <3>5. d <= now[c]
      BY <3>3, <3>4
    <3> QED
      BY <3>2, <3>5
  <2> QED
    BY <2>1, <2>2
<1>19. ASSUME NEW m \in Measures, now[m] # 0 PROVE \E k \in t : order[k] = <<m, now[m]>>
  <2>1. CASE now[m] = b /\ m = a
    <3>1. order[x] = <<m, now[m]>>
      BY <2>1, <1>11, <1>15
    <3> QED
      BY <3>1
  <2>2. CASE now[m] = best[m]
    <3>1. PICK k \in t \ {x} : order[k] = <<m, best[m]>>
      BY <2>2, <1>9, <1>10, <1>19
    <3> QED
      BY <2>2, <3>1
  <2> QED
    BY <2>1, <2>2, <1>16
<1> QED
  BY <1>5, <1>13, <1>18, <1>19

LEMMA LatestIs ==
    ASSUME NEW order \in Seq(Listable)
    PROVE  Latest(order) = Newest(Range(order))
<1>1. PICK g : Laters(order, g) /\ FoldLeft(Later, [m \in Measures |-> 0], order) = g[DOMAIN order]
  BY LatersAre
<1>2. PICK best \in [Measures -> Nat] :
          /\ best = g[DOMAIN order]
          /\ \A k \in DOMAIN order : order[k][2] <= best[order[k][1]]
          /\ \A m \in Measures : best[m] # 0 => \E k \in DOMAIN order : order[k] = <<m, best[m]>>
  BY <1>1, LatersTop
<1>3. Latest(order) = {<<m, best[m]>> : m \in {x \in Measures : best[x] # 0}}
  BY <1>1, <1>2 DEF Latest
<1>4. PICK rows : rows = Range(order) /\ rows \subseteq Listable
  <2>1. \A k \in DOMAIN order : order[k] \in Listable
    BY SequenceOf
  <2>2. Range(order) \subseteq Listable
    BY <2>1 DEF Range
  <2> QED
    BY <2>2
<1>5. \A p \in rows : p[2] <= best[p[1]]
  BY <1>2, <1>4 DEF Range
<1>6. \A m \in Measures : best[m] # 0 => <<m, best[m]>> \in rows
  BY <1>2, <1>4 DEF Range
<1>7. ASSUME NEW o \in Latest(order) PROVE o \in Newest(rows)
  <2>1. PICK m \in Measures : best[m] # 0 /\ o = <<m, best[m]>>
    BY <1>3
  <2>2. o \in rows /\ \A p \in rows : p[1] = o[1] => p[2] <= o[2]
    BY <2>1, <1>5, <1>6
  <2> QED
    BY <2>2 DEF Newest
<1>8. ASSUME NEW o \in Newest(rows) PROVE o \in Latest(order)
  <2>1. o \in rows /\ \A p \in rows : p[1] = o[1] => p[2] <= o[2]
    BY DEF Newest
  <2>2. PICK m \in Measures, v \in Nat : o = <<m, v>> /\ o[1] = m /\ o[2] = v /\ v # 0
    BY <2>1, <1>4, ListablePairs
  <2>3. v <= best[m] /\ best[m] \in Nat
    BY <2>1, <2>2, <1>5
  <2>4. best[m] # 0 /\ <<m, best[m]>> \in rows
    BY <2>2, <2>3, <1>6
  <2>5. best[m] <= v
    BY <2>1, <2>2, <2>4
  <2>6. o = <<m, best[m]>>
    BY <2>2, <2>3, <2>5
  <2> QED
    BY <2>4, <2>6, <1>3
<1> QED
  BY <1>4, <1>7, <1>8

(* What is listed is there: the rows of one measure after another.         *)
ObservationRow == [metric : Nat, version : Nat, found : BOOLEAN, body : Bodies]
Observed == \A m \in Measures : observations[m] \in Seq(ObservationRow)
Stored == {o \in Listable : o[2] \in DOMAIN observations[o[1]]}
RowsOf(m) == [v \in DOMAIN observations[m] |-> <<m, v>>]
ListBody(s, g) == IF s = {} THEN <<>> ELSE LET x == CHOOSE y \in s : TRUE IN g[s \ {x}] \o RowsOf(x)
Lists(measures, g) == g = [s \in SUBSET measures |-> ListBody(s, g)]

LEMMA ListsUnfold ==
    ASSUME NEW measures, ListObservations(measures)
    PROVE  listed' = (CHOOSE g : Lists(measures, g))[measures]
BY DEF ListObservations, FoldSet, MapThenFoldSet, Lists, ListBody, RowsOf

LEMMA RowsStored == ASSUME Observed, NEW m \in Measures PROVE RowsOf(m) \in Seq(Stored)
<1>1. observations[m] \in Seq(ObservationRow)
  BY DEF Observed
<1>2. PICK n \in Nat : DOMAIN observations[m] = 1 .. n
  BY <1>1, SequenceOf
<1>3. \A v \in 1 .. n : <<m, v>> \in Stored
  BY <1>2 DEF Stored, Listable
<1>4. RowsOf(m) = [v \in 1 .. n |-> <<m, v>>]
  BY <1>2 DEF RowsOf
<1>5. RowsOf(m) \in [1 .. n -> Stored]
  BY <1>3, <1>4
<1> QED
  BY <1>5, SeqDef

LEMMA ListsAre ==
    ASSUME Observed, NEW measures \in SUBSET Measures, IsFiniteSet(Measures)
    PROVE  \E g : Lists(measures, g) /\ (CHOOSE h : Lists(measures, h)) = g
<1>1. PICK T : T = Seq(Stored)
  OBVIOUS
<1>2. PICK base : base = <<>> /\ base \in T
  BY <1>1, EmptySeq
<1>3. PICK Pick : Pick = [s \in SUBSET measures |-> CHOOSE y \in s : TRUE]
  OBVIOUS
<1>4. PICK Grow : Grow = [p \in measures \X T |-> p[2] \o RowsOf(p[1])]
  OBVIOUS
<1>5. Grow \in [measures \X T -> T]
  <2> SUFFICES ASSUME NEW x \in measures, NEW rows \in T PROVE rows \o RowsOf(x) \in T
    BY <1>4
  <2>1. RowsOf(x) \in Seq(Stored)
    BY RowsStored
  <2> QED
    BY <2>1, <1>1
<1>6. IsFiniteSet(measures)
  BY FS_Subset
<1>7. \A s \in SUBSET measures : s # {} => Pick[s] \in s
  BY <1>3
<1>8. Foldable(measures, T, base, Pick, Grow)
  BY <1>2, <1>5, <1>6, <1>7 DEF Foldable
<1>9. PICK g : FoldOf(measures, T, base, Pick, Grow, g)
  BY <1>8, FoldExists
<1>10. \A s \in SUBSET measures : g[s] \in T /\ g[s] = Folded(Pick, Grow, base, s, g)
  BY <1>9 DEF FoldOf
<1>11. PICK h : h = [s \in SUBSET measures |-> g[s]]
  OBVIOUS
<1>12. ASSUME NEW s \in SUBSET measures PROVE h[s] = ListBody(s, h)
  <2>1. CASE s = {}
    BY <2>1, <1>2, <1>10, <1>11 DEF Folded, ListBody
  <2>2. CASE s # {}
    <3>1. PICK x \in s : x = Pick[s] /\ x = CHOOSE y \in s : TRUE
      BY <1>3, <1>7, <2>2
    <3>2. s \ {x} \in SUBSET measures /\ x \in measures
      BY <3>1
    <3>3. g[s] = Grow[<<x, g[s \ {x}]>>]
      BY <2>2, <3>1, <1>10 DEF Folded
    <3>4. <<x, g[s \ {x}]>> \in measures \X T
      BY <3>2, <1>10
    <3>5. g[s] = g[s \ {x}] \o RowsOf(x)
      BY <3>3, <3>4, <1>4
    <3>6. h[s] = g[s] /\ h[s \ {x}] = g[s \ {x}]
      BY <3>2, <1>11
    <3> QED
      BY <2>2, <3>1, <3>5, <3>6 DEF ListBody
  <2> QED
    BY <2>1, <2>2
<1>13. Lists(measures, h)
  BY <1>11, <1>12 DEF Lists
<1> QED
  BY <1>13

LEMMA ListedStored ==
    ASSUME Observed, NEW measures \in SUBSET Measures, IsFiniteSet(Measures), NEW g, Lists(measures, g)
    PROVE  g[measures] \in Seq(Stored)
<1>1. PICK B : B = {s \in SUBSET measures : g[s] \notin Seq(Stored)}
  OBVIOUS
<1>2. SUFFICES ASSUME B # {} PROVE FALSE
  BY <1>1
<1>3. IsFiniteSet(measures)
  BY FS_Subset
<1>4. PICK t \in B : \A u \in B : Cardinality(t) <= Cardinality(u)
  <2>1. B \subseteq SUBSET measures
    BY <1>1
  <2> QED
    BY <1>2, <1>3, <2>1, SmallestSet
<1>5. t \in SUBSET measures /\ g[t] \notin Seq(Stored) /\ g[t] = ListBody(t, g)
  BY <1>1, <1>4 DEF Lists
<1>6. t # {}
  BY <1>5 DEF ListBody
<1>7. PICK x \in t : x = CHOOSE y \in t : TRUE
  BY <1>6
<1>8. t \ {x} \in SUBSET measures /\ ~(Cardinality(t) <= Cardinality(t \ {x}))
  <2>1. Cardinality(t) \in Nat \ {0} /\ t \ {x} \in SUBSET measures /\ Cardinality(t \ {x}) = Cardinality(t) - 1
    BY <1>3, <1>5, <1>7, SmallerSets
  <2> QED
    BY <2>1
<1>9. g[t \ {x}] \in Seq(Stored)
  BY <1>1, <1>4, <1>8
<1>10. RowsOf(x) \in Seq(Stored)
  BY <1>5, <1>7, RowsStored
<1>11. g[t] = g[t \ {x}] \o RowsOf(x)
  BY <1>5, <1>6, <1>7 DEF ListBody
<1> QED
  BY <1>5, <1>9, <1>10, <1>11, ConcatProperties

LEMMA ListKept ==
    ASSUME Observed, NEW measures \in SUBSET Measures, ListObservations(measures)
    PROVE  listed' \in Seq(Stored)
<1>1. PICK g : Lists(measures, g) /\ (CHOOSE h : Lists(measures, h)) = g
  BY ListsAre, MetricBounds
<1> QED
  BY <1>1, ListsUnfold, ListedStored, MetricBounds

-----------------------------------------------------------------------------
(* Versions of metrics, the observations made by them, and the snapshots.  *)
MetricStates == {"draft", "active", "retired"}
ServedRow(row) ==
    \A u \in DOMAIN row : row[u] = "retired" =>
        \E v \in DOMAIN row : row[v] = "active" /\ \A w \in DOMAIN row : row[w] = "retired" => w < v
Defined(n, v) == n \in MetricNames /\ v \in DOMAIN metrics[n] /\ metrics[n][v] # "draft"
Catalogued ==
    /\ DOMAIN metrics = MetricNames
    /\ \A n \in MetricNames : metrics[n] \in Seq(MetricStates) /\ ServedRow(metrics[n])

(* What was found in the catalogue, by a reading or a version stored, is a *)
(* definition that was put in force.                                       *)
Meant(n, o) == o.found => o.version = o.metric /\ Defined(n, o.metric)
ReadingFit(d) == d.metric \in Nat /\ d.version \in Nat /\ d.found \in BOOLEAN /\ Meant(d.name, d)

ReadWell == \A r \in Recorders : reading[r] # NoRead => ReadingFit(reading[r])
MeantWell ==
    \A m \in Measures : \A a \in DOMAIN observations[m] :
        observations[m][a].metric = observations[m][1].metric /\ Meant(NameOf[m], observations[m][a])
Recorded == DOMAIN reading = Recorders /\ DOMAIN observations = Measures /\ Observed /\ ReadWell /\ MeantWell

NamesFor(kind) == IF kind = "kpi" THEN KpiNames ELSE GeoNames
Rated(kind, rows) == Counting(IF kind = "kpi" THEN About(rows, RateNames) ELSE rows, {"for", "against"})
ReportWell(s) == s.inputs \subseteq Stored /\ s.of = Cardinality(Rated(s.kind, s.inputs))
ToldWell ==
    told # NoTold =>
        /\ told.kind \in {"kpi", "geo"} /\ told.from \subseteq Stored
        /\ told.report.inputs = About(Inside(Newest(told.from), told.window), NamesFor(told.kind))
        /\ told.report.of = Cardinality(Rated(told.kind, told.report.inputs))
Reported == listed \in Seq(Stored) /\ (\A s \in reports : ReportWell(s)) /\ ToldWell

MetricInv == Catalogued /\ Recorded /\ Reported

LEMMA MetricsTold == MetricInv => MetricServed /\ OneMeaning /\ CountedOnce
<1> SUFFICES ASSUME MetricInv PROVE MetricServed /\ OneMeaning /\ CountedOnce
  OBVIOUS
<1>1. MetricServed
  BY DEF MetricInv, Catalogued, ServedRow, MetricServed, Range
<1>2. OneMeaning
  BY DEF MetricInv, Recorded, MeantWell, Meant, Defined, OneMeaning
<1>3. ASSUME told # NoTold
      PROVE  LET newest == {o \in told.from : \A p \in told.from : p[1] = o[1] => p[2] <= o[2]}
                 names == IF told.kind = "kpi" THEN KpiNames ELSE GeoNames
                 expected == About(Inside(newest, told.window), names)
             IN /\ told.report.inputs = expected
                /\ told.report.of = Cardinality(About(Counting(expected, {"for", "against"}),
                                                       IF told.kind = "kpi" THEN RateNames ELSE GeoNames))
  <2>1. /\ told.kind \in {"kpi", "geo"}
        /\ told.report.inputs = About(Inside(Newest(told.from), told.window), NamesFor(told.kind))
        /\ told.report.of = Cardinality(Rated(told.kind, told.report.inputs))
    BY <1>3 DEF MetricInv, Reported, ToldWell
  <2>2. CASE told.kind = "kpi"
    <3>1. Rated(told.kind, told.report.inputs) = About(Counting(told.report.inputs, {"for", "against"}), RateNames)
      BY <2>2 DEF Rated, Counting, About
    <3> QED
      BY <2>1, <2>2, <3>1 DEF Newest, NamesFor
  <2>3. CASE told.kind = "geo"
    <3>1. \A o \in told.report.inputs : NameOf[o[1]] \in GeoNames
      BY <2>1, <2>3 DEF About, NamesFor
    <3>2. Rated(told.kind, told.report.inputs) = About(Counting(told.report.inputs, {"for", "against"}), GeoNames)
      BY <2>3, <3>1 DEF Rated, Counting, About
    <3> QED
      BY <2>1, <2>3, <3>2 DEF Newest, NamesFor
  <2> QED
    BY <2>1, <2>2, <2>3
<1>4. CountedOnce
  BY <1>3 DEF CountedOnce
<1> QED
  BY <1>1, <1>2, <1>4

FirstSeen(body) == [metric |-> 1, version |-> 1, found |-> TRUE, body |-> body]

LEMMA MetricsStart ==
    ASSUME NEW rows, MetricInit(rows),
           rows = <<>> \/ \E body \in Bodies : rows = <<FirstSeen(body)>>
    PROVE  MetricInv
<1>1. \A n \in MetricNames : metrics[n] = (IF rows = <<>> THEN <<>> ELSE <<"active">>)
  BY DEF MetricInit
<1>2. Catalogued
  <2>1. <<>> \in Seq(MetricStates) /\ ServedRow(<<>>)
    BY EmptySeq DEF ServedRow
  <2>2. <<"active">> \in Seq(MetricStates) /\ ServedRow(<<"active">>)
    BY DEF MetricStates, ServedRow
  <2> QED
    BY <1>1, <2>1, <2>2 DEF Catalogued, MetricInit
<1>3. Recorded
  <2>1. CASE rows = <<>>
    <3>1. <<>> \in Seq(ObservationRow) /\ DOMAIN <<>> = {}
      BY EmptySeq
    <3> QED
      BY <2>1, <3>1 DEF MetricInit, Recorded, Observed, ReadWell, MeantWell
  <2>2. CASE \E body \in Bodies : rows = <<FirstSeen(body)>>
    <3>1. PICK body \in Bodies : rows = <<FirstSeen(body)>>
      BY <2>2
    <3>2. PICK row : row = FirstSeen(body)
      OBVIOUS
    <3>3. row \in ObservationRow /\ row.metric = 1 /\ row.version = 1
      BY <3>2 DEF ObservationRow, FirstSeen
    <3>4. rows \in Seq(ObservationRow) /\ DOMAIN rows = {1} /\ rows[1] = row /\ rows # <<>>
      BY <3>1, <3>2, <3>3
    <3>5. \A n \in MetricNames : 1 \in DOMAIN metrics[n] /\ metrics[n][1] = "active"
      BY <1>1, <3>4
    <3>6. \A m \in Measures : NameOf[m] \in MetricNames
      BY MetricBounds
    <3> QED
      BY <3>3, <3>4, <3>5, <3>6 DEF MetricInit, Recorded, Observed, ReadWell, MeantWell, Meant, Defined
  <2> QED
    BY <2>1, <2>2
<1>4. Reported
  BY EmptySeq DEF MetricInit, Reported, ToldWell
<1> QED
  BY <1>2, <1>3, <1>4 DEF MetricInv

(* A version of a metric is followed by another, put in force or retired.  *)
LEMMA RowServed ==
    ASSUME NEW row \in Seq(MetricStates), ServedRow(row)
    PROVE  /\ ServedRow(Append(row, "draft"))
           /\ \A v \in DOMAIN row : row[v] = "draft" => ServedRow([row EXCEPT ![v] = "active"])
           /\ \A v, w \in DOMAIN row :
                 row[v] = "active" /\ row[w] = "active" /\ w > v => ServedRow([row EXCEPT ![v] = "retired"])
<1>1. PICK n \in Nat : n = Len(row) /\ DOMAIN row = 1 .. n
  OBVIOUS
<1>2. \A u \in 1 .. n : row[u] = "retired" =>
          \E v \in 1 .. n : row[v] = "active" /\ \A w \in 1 .. n : row[w] = "retired" => w < v
  BY <1>1 DEF ServedRow
<1>3. ServedRow(Append(row, "draft"))
  <2>1. PICK now : now = Append(row, "draft")
    OBVIOUS
  <2>2. DOMAIN now = 1 .. n + 1 /\ now[n + 1] = "draft" /\ \A u \in 1 .. n : now[u] = row[u]
    BY <1>1, <2>1
  <2>3. \A u \in 1 .. n + 1 : now[u] = "retired" => u \in 1 .. n
    BY <1>1, <2>2
  <2>4. ASSUME NEW u \in 1 .. n + 1, now[u] = "retired"
        PROVE  \E v \in 1 .. n + 1 : now[v] = "active" /\ \A w \in 1 .. n + 1 : now[w] = "retired" => w < v
    <3>1. u \in 1 .. n /\ row[u] = "retired"
      BY <2>2, <2>3, <2>4
    <3>2. PICK v \in 1 .. n : row[v] = "active" /\ \A w \in 1 .. n : row[w] = "retired" => w < v
      BY <1>2, <3>1
    <3>3. v \in 1 .. n + 1 /\ now[v] = "active"
      BY <1>1, <2>2, <3>2
    <3>4. \A w \in 1 .. n + 1 : now[w] = "retired" => w < v
      BY <2>2, <2>3, <3>2
    <3> QED
      BY <3>3, <3>4
  <2> QED
    BY <2>1, <2>2, <2>4 DEF ServedRow
<1>4. ASSUME NEW v \in DOMAIN row, row[v] = "draft" PROVE ServedRow([row EXCEPT ![v] = "active"])
  <2>1. PICK now : now = [row EXCEPT ![v] = "active"]
    OBVIOUS
  <2>2. DOMAIN now = 1 .. n /\ now[v] = "active" /\ \A u \in 1 .. n : u # v => now[u] = row[u]
    BY <1>1, <2>1
  <2>3. \A u \in 1 .. n : now[u] = "retired" <=> row[u] = "retired"
    BY <1>4, <2>2
  <2>4. \A u \in 1 .. n : row[u] = "active" => now[u] = "active"
    BY <2>2
  <2> QED
    BY <2>1, <2>2, <2>3, <2>4, <1>2 DEF ServedRow
<1>5. ASSUME NEW v \in DOMAIN row, NEW w \in DOMAIN row, row[v] = "active", row[w] = "active", w > v
      PROVE  ServedRow([row EXCEPT ![v] = "retired"])
  <2>1. PICK now : now = [row EXCEPT ![v] = "retired"]
    OBVIOUS
  <2>2. DOMAIN now = 1 .. n /\ now[v] = "retired" /\ \A u \in 1 .. n : u # v => now[u] = row[u]
    BY <1>1, <2>1
  <2>3. v \in 1 .. n /\ w \in 1 .. n /\ w # v /\ now[w] = "active"
    BY <1>1, <1>5, <2>2
  <2>4. \E x \in 1 .. n : now[x] = "active" /\ \A u \in 1 .. n : now[u] = "retired" => u < x
    <3>1. CASE \A u \in 1 .. n : row[u] = "retired" => u < w
      BY <3>1, <2>2, <2>3, <1>5
    <3>2. CASE \E u \in 1 .. n : row[u] = "retired" /\ ~(u < w)
      <4>1. PICK u \in 1 .. n : row[u] = "retired" /\ ~(u < w)
        BY <3>2
      <4>2. PICK x \in 1 .. n : row[x] = "active" /\ \A y \in 1 .. n : row[y] = "retired" => y < x
        BY <1>2, <4>1
      <4>3. u < x /\ v < x
        BY <4>1, <4>2, <1>5, <2>3
      <4>4. now[x] = "active" /\ \A y \in 1 .. n : now[y] = "retired" => y < x
        BY <4>2, <4>3, <2>2, <2>3
      <4> QED
        BY <4>4
    <3> QED
      BY <3>1, <3>2
  <2> QED
    BY <2>1, <2>2, <2>4 DEF ServedRow
<1> QED
  BY <1>3, <1>4, <1>5

(* The catalogue moves one metric on; what was defined by it stays so.     *)
LEMMA CatalogMoves ==
    ASSUME MetricInv, NEW n \in MetricNames, CatalogNext(n)
    PROVE  /\ Catalogued' /\ UNCHANGED <<observations, reading, kept, listed, reports, reportOf, told>>
           /\ \A m, v : Defined(m, v) => Defined(m, v)'
<1>1. /\ DOMAIN metrics = MetricNames
      /\ \A m \in MetricNames : metrics[m] \in Seq(MetricStates) /\ ServedRow(metrics[m])
  BY DEF MetricInv, Catalogued
<1>2. PICK len \in Nat : len = Len(metrics[n]) /\ DOMAIN metrics[n] = 1 .. len
  BY <1>1
<1>3. PICK row : /\ metrics' = [metrics EXCEPT ![n] = row] /\ row \in Seq(MetricStates) /\ ServedRow(row)
                 /\ \A v \in DOMAIN metrics[n] : v \in DOMAIN row /\ (metrics[n][v] # "draft" => row[v] # "draft")
  <2>1. PICK v, w \in 0 .. MaxMetricVersions : CreateMetric(n, v) \/ ActivateMetric(n, v) \/ RetireMetric(n, v, w)
    BY DEF CatalogNext
  <2>2. CASE CreateMetric(n, v)
    <3>1. PICK row : row = Append(metrics[n], "draft") /\ metrics' = [metrics EXCEPT ![n] = row]
      BY <2>2 DEF CreateMetric
    <3>2. row \in Seq(MetricStates) /\ DOMAIN row = 1 .. len + 1 /\ \A u \in 1 .. len : row[u] = metrics[n][u]
      BY <3>1, <1>1, <1>2 DEF MetricStates
    <3>3. ServedRow(row)
      BY <3>1, <1>1, RowServed
    <3>4. \A u \in DOMAIN metrics[n] : u \in DOMAIN row /\ row[u] = metrics[n][u]
      BY <3>2, <1>2
    <3> QED
      BY <3>1, <3>2, <3>3, <3>4
  <2>3. CASE ActivateMetric(n, v)
    <3>1. v \in DOMAIN metrics[n] /\ metrics[n][v] = "draft"
      BY <2>3 DEF ActivateMetric
    <3>2. PICK row : row = [metrics[n] EXCEPT ![v] = "active"] /\ metrics' = [metrics EXCEPT ![n] = row]
      BY <2>3, <1>1 DEF ActivateMetric
    <3>3. row \in Seq(MetricStates) /\ DOMAIN row = 1 .. len
          /\ \A u \in 1 .. len : row[u] = IF u = v THEN "active" ELSE metrics[n][u]
      BY <3>1, <3>2, <1>1, <1>2 DEF MetricStates
    <3>4. ServedRow(row)
      BY <3>1, <3>2, <1>1, RowServed
    <3> QED
      BY <3>2, <3>3, <3>4, <1>2
  <2>4. CASE RetireMetric(n, v, w)
    <3>1. v \in DOMAIN metrics[n] /\ w \in DOMAIN metrics[n] /\ metrics[n][v] = "active" /\ metrics[n][w] = "active" /\ w > v
      BY <2>4 DEF RetireMetric, Replaces
    <3>2. PICK row : row = [metrics[n] EXCEPT ![v] = "retired"] /\ metrics' = [metrics EXCEPT ![n] = row]
      BY <2>4, <1>1 DEF RetireMetric
    <3>3. row \in Seq(MetricStates) /\ DOMAIN row = 1 .. len
          /\ \A u \in 1 .. len : row[u] = IF u = v THEN "retired" ELSE metrics[n][u]
      BY <3>1, <3>2, <1>1, <1>2 DEF MetricStates
    <3>4. ServedRow(row)
      BY <3>1, <3>2, <1>1, RowServed
    <3> QED
      BY <3>2, <3>3, <3>4, <1>2
  <2> QED
    BY <2>1, <2>2, <2>3, <2>4
<1>4. UNCHANGED <<observations, reading, kept, listed, reports, reportOf, told>>
  BY DEF CatalogNext, CreateMetric, ActivateMetric, RetireMetric
<1>5. \A m \in MetricNames : metrics'[m] = IF m = n THEN row ELSE metrics[m]
  BY <1>1, <1>3
<1>6. Catalogued'
  <2>1. DOMAIN metrics' = MetricNames
    BY <1>1, <1>3
  <2>2. \A m \in MetricNames : metrics'[m] \in Seq(MetricStates) /\ ServedRow(metrics'[m])
    BY <1>1, <1>3, <1>5
  <2> QED
    BY <2>1, <2>2 DEF Catalogued, ServedRow
<1>7. \A m, v : Defined(m, v) => Defined(m, v)'
  BY <1>3, <1>5 DEF Defined
<1> QED
  BY <1>4, <1>6, <1>7

LEMMA CatalogKeeps ==
    ASSUME MetricInv, NEW n \in MetricNames, CatalogNext(n)
    PROVE  MetricInv'
<1>1. /\ Catalogued' /\ UNCHANGED <<observations, reading, kept, listed, reports, reportOf, told>>
      /\ \A m, v : Defined(m, v) => Defined(m, v)'
  BY CatalogMoves
<1>2. Recorded'
  <2>0. ASSUME NEW name, NEW o, Meant(name, o) PROVE o.found => o.version = o.metric /\ Defined(name, o.metric)'
    <3>1. o.found => \E v : v = o.metric /\ o.version = v /\ Defined(name, v)'
      BY <2>0, <1>1 DEF Meant
    <3> QED
      BY <3>1 DEF Defined
  <2>1. ASSUME NEW r \in Recorders, reading'[r] # NoRead PROVE ReadingFit(reading[r])'
    <3>1. ReadingFit(reading[r])
      BY <1>1, <2>1 DEF MetricInv, Recorded, ReadWell
    <3>2. PICK d : d = reading[r]
      OBVIOUS
    <3>3. d.found => d.version = d.metric /\ Defined(d.name, d.metric)'
      BY <3>1, <3>2, <2>0 DEF ReadingFit
    <3> QED
      BY <3>1, <3>2, <3>3, <1>1 DEF ReadingFit, Meant, Defined
  <2>2. ASSUME NEW m \in Measures, NEW a \in DOMAIN observations'[m]
        PROVE  /\ observations'[m][a].metric = observations'[m][1].metric
               /\ Meant(NameOf[m], observations[m][a])'
    <3>1. observations[m][a].metric = observations[m][1].metric /\ Meant(NameOf[m], observations[m][a])
      BY <1>1, <2>2 DEF MetricInv, Recorded, MeantWell
    <3>2. PICK o : o = observations[m][a]
      OBVIOUS
    <3>3. o.found => o.version = o.metric /\ Defined(NameOf[m], o.metric)'
      BY <3>1, <3>2, <2>0
    <3> QED
      BY <3>1, <3>2, <3>3, <1>1 DEF Meant, Defined
  <2> QED
    BY <1>1, <2>1, <2>2 DEF MetricInv, Recorded, Observed, ReadWell, MeantWell
<1>3. Reported'
  BY <1>1 DEF MetricInv, Reported, ReportWell, ToldWell, Stored, Rated, Counting, About, Inside, Says
<1> QED
  BY <1>1, <1>2, <1>3 DEF MetricInv

(* What is stored stays as it is; a version more is stored after it.       *)
LEMMA VersionsStay ==
    ASSUME NEW m \in Measures, NEW row \in ObservationRow, Observed, DOMAIN observations = Measures, SaveVersion(m, row)
    PROVE  /\ DOMAIN observations' = Measures /\ Observed'
           /\ \A n \in Measures : \A a \in DOMAIN observations[n] :
                 a \in DOMAIN observations'[n] /\ observations'[n][a] = observations[n][a]
           /\ \A n \in Measures : \A a \in DOMAIN observations'[n] :
                 a \in DOMAIN observations[n] \/ (n = m /\ a = Len(observations[m]) + 1 /\ observations'[m][a] = row)
<1>1. PICK rows : rows = observations[m] /\ rows \in Seq(ObservationRow)
  BY DEF Observed
<1>2. PICK now : now = Append(rows, row)
  OBVIOUS
<1>3. /\ now \in Seq(ObservationRow) /\ DOMAIN now = 1 .. Len(rows) + 1 /\ now[Len(rows) + 1] = row
      /\ DOMAIN rows = 1 .. Len(rows) /\ \A a \in 1 .. Len(rows) : now[a] = rows[a]
  BY <1>1, <1>2
<1>4. DOMAIN observations' = Measures /\ \A n \in Measures : observations'[n] = IF n = m THEN now ELSE observations[n]
  BY <1>1, <1>2 DEF SaveVersion
<1>5. Observed'
  BY <1>3, <1>4 DEF Observed, ObservationRow
<1>6. Len(rows) \in Nat
  BY <1>1
<1> QED
  BY <1>1, <1>3, <1>4, <1>5, <1>6

LEMMA ReportsStand ==
    ASSUME Reported, Observed, UNCHANGED <<listed, reports, told>>,
           \A n \in Measures : \A a \in DOMAIN observations[n] :
              a \in DOMAIN observations'[n] /\ observations'[n][a] = observations[n][a]
    PROVE  Reported'
<1>1. \A o \in Stored : o \in Stored' /\ Says(o)' = Says(o)
  BY ListablePairs DEF Stored, Says
<1>2. Stored \subseteq Stored'
  BY <1>1
<1>3. ASSUME NEW rows, rows \subseteq Stored, NEW kind PROVE Rated(kind, rows)' = Rated(kind, rows)
  BY <1>1, <1>3 DEF Rated, Counting, About
<1>4. ASSUME NEW rows, rows \subseteq Stored, NEW w PROVE Inside(rows, w)' = Inside(rows, w)
  BY <1>1, <1>4 DEF Inside
<1>5. listed' \in Seq(Stored')
  <2>1. listed \in Seq(Stored)
    BY DEF Reported
  <2> QED
    BY <2>1, <1>2
<1>6. ASSUME NEW s \in reports PROVE ReportWell(s)'
  <2>1. s.inputs \subseteq Stored /\ s.of = Cardinality(Rated(s.kind, s.inputs))
    BY <1>6 DEF Reported, ReportWell
  <2>2. Rated(s.kind, s.inputs)' = Rated(s.kind, s.inputs)
    BY <2>1, <1>3
  <2> QED
    BY <2>1, <2>2, <1>2 DEF ReportWell
<1>7. ToldWell'
  <2>1. SUFFICES ASSUME told # NoTold PROVE ToldWell'
    BY DEF ToldWell
  <2>2. /\ told.kind \in {"kpi", "geo"} /\ told.from \subseteq Stored
        /\ told.report.inputs = About(Inside(Newest(told.from), told.window), NamesFor(told.kind))
        /\ told.report.of = Cardinality(Rated(told.kind, told.report.inputs))
    BY <2>1 DEF Reported, ToldWell
  <2>3. Newest(told.from) \subseteq Stored /\ told.report.inputs \subseteq Stored
    BY <2>2 DEF Newest, About, Inside
  <2>4. Inside(Newest(told.from), told.window)' = Inside(Newest(told.from), told.window)
    BY <2>3, <1>4
  <2>5. Rated(told.kind, told.report.inputs)' = Rated(told.kind, told.report.inputs)
    BY <2>3, <1>3
  <2> QED
    BY <2>2, <2>3, <2>4, <2>5, <1>2 DEF ToldWell
<1> QED
  BY <1>5, <1>6, <1>7 DEF Reported

LEMMA ReadingKeeps ==
    ASSUME MetricInv, NEW r \in Recorders, NEW d, ReadingFit(d), reading' = [reading EXCEPT ![r] = d],
           UNCHANGED <<metrics, observations, kept, listed, reports, reportOf, told>>
    PROVE  MetricInv'
<1>1. Catalogued' /\ \A m, w : Defined(m, w)' <=> Defined(m, w)
  BY DEF MetricInv, Catalogued, Defined
<1>2. Recorded'
  <2>1. ASSUME NEW q \in Recorders, reading'[q] # NoRead PROVE ReadingFit(reading'[q])
    <3>1. CASE q = r
      BY <3>1 DEF MetricInv, Recorded
    <3>2. CASE q # r
      BY <3>2, <2>1 DEF MetricInv, Recorded, ReadWell
    <3> QED
      BY <3>1, <3>2
  <2>2. ReadWell'
    BY <2>1 DEF ReadWell, ReadingFit, Meant, Defined
  <2> QED
    BY <2>2 DEF MetricInv, Recorded, Observed, MeantWell, Meant, Defined
<1>3. Reported'
  BY DEF MetricInv, Reported, ReportWell, ToldWell, Stored, Rated, Counting, About, Inside, Says
<1> QED
  BY <1>1, <1>2, <1>3 DEF MetricInv

(* What is found is in force; what is supplied is taken at its word.       *)
LEMMA DefinitionRead ==
    ASSUME MetricInv, NEW r \in Recorders, NEW n \in MetricNames, NEW v, ReadDefinition(r, n, v)
    PROVE  MetricInv'
<1>1. PICK d : d = [name |-> n, metric |-> v, version |-> v, found |-> TRUE]
  OBVIOUS
<1>2. /\ v \in DOMAIN metrics[n] /\ metrics[n][v] = "active"
      /\ reading' = [reading EXCEPT ![r] = d]
      /\ UNCHANGED <<metrics, observations, kept, listed, reports, reportOf, told>>
  BY <1>1 DEF ReadDefinition
<1>3. v \in Nat
  <2>1. metrics[n] \in Seq(MetricStates)
    BY DEF MetricInv, Catalogued
  <2> QED
    BY <1>2, <2>1
<1>4. ReadingFit(d)
  BY <1>1, <1>2, <1>3 DEF ReadingFit, Meant, Defined
<1> QED
  BY <1>2, <1>4, ReadingKeeps

LEMMA DefinitionSupplied ==
    ASSUME MetricInv, NEW r \in Recorders, NEW n, NEW id \in Nat, NEW v \in Nat, SupplyDefinition(r, n, id, v)
    PROVE  MetricInv'
<1>1. PICK d : d = [name |-> n, metric |-> id, version |-> v, found |-> FALSE]
  OBVIOUS
<1>2. /\ reading' = [reading EXCEPT ![r] = d]
      /\ UNCHANGED <<metrics, observations, kept, listed, reports, reportOf, told>>
  BY <1>1 DEF SupplyDefinition
<1>3. ReadingFit(d)
  BY <1>1 DEF ReadingFit, Meant
<1> QED
  BY <1>2, <1>3, ReadingKeeps

LEMMA RefusedKeeps ==
    ASSUME MetricInv, NEW r \in Recorders, RecordRefused(r)
    PROVE  MetricInv'
<1>1. /\ reading' = [reading EXCEPT ![r] = NoRead]
      /\ UNCHANGED <<metrics, observations, kept, listed, reports, reportOf, told>>
  BY DEF RecordRefused
<1>2. Catalogued' /\ Reported'
  BY <1>1 DEF MetricInv, Catalogued, Reported, ReportWell, ToldWell, Stored, Rated, Counting, About, Inside, Says
<1>3. ReadWell'
  BY <1>1 DEF MetricInv, Recorded, ReadWell, ReadingFit, Meant, Defined
<1> QED
  BY <1>1, <1>2, <1>3 DEF MetricInv, Recorded, Observed, MeantWell, Meant, Defined

(* What was read of a definition is what the version is stored under; the  *)
(* definition was in force then, and was put in force for good.            *)
LEMMA VersionKept ==
    ASSUME MetricInv, NEW r \in Recorders, NEW k, NEW m \in Measures, NEW body \in Bodies, NEW given, NEW expected,
           RecordObservation(r, k, m, body, given, expected)
    PROVE  MetricInv'
<1>1. PICK row : row = RowFrom(reading[r], body)
  OBVIOUS
<1>2. /\ reading[r].name = NameOf[m] /\ reading' = [reading EXCEPT ![r] = NoRead]
      /\ \/ UNCHANGED observations
         \/ NextRow(m, given, expected, row) /\ SaveVersion(m, row)
      /\ UNCHANGED <<metrics, listed, reports, reportOf, told>>
  BY <1>1 DEF RecordObservation
<1>3. Catalogued' /\ \A n, v : Defined(n, v)' <=> Defined(n, v)
  BY <1>2 DEF MetricInv, Catalogued, Defined
<1>4. NameOf[m] \in MetricNames /\ reading[r] # NoRead
  BY <1>2, MetricBounds DEF NoRead
<1>5. ReadingFit(reading[r])
  BY <1>4 DEF MetricInv, Recorded, ReadWell
<1>6. row \in ObservationRow /\ Meant(NameOf[m], row)
  BY <1>1, <1>2, <1>5 DEF RowFrom, ReadingFit, Meant, ObservationRow
<1>7. /\ DOMAIN observations' = Measures /\ Observed'
      /\ \A n \in Measures : \A a \in DOMAIN observations[n] :
            a \in DOMAIN observations'[n] /\ observations'[n][a] = observations[n][a]
      /\ \A n \in Measures : \A a \in DOMAIN observations'[n] :
            \/ a \in DOMAIN observations[n]
            \/ /\ n = m /\ a = Len(observations[m]) + 1 /\ observations'[m][a] = row
               /\ observations[m] # <<>> => observations[m][1].metric = row.metric
  <2>1. CASE UNCHANGED observations
    BY <2>1 DEF MetricInv, Recorded, Observed
  <2>2. CASE NextRow(m, given, expected, row) /\ SaveVersion(m, row)
    BY <2>2, <1>6, VersionsStay DEF MetricInv, Recorded, NextRow
  <2> QED
    BY <1>2, <2>1, <2>2
<1>8. ReadWell'
  BY <1>2, <1>3 DEF MetricInv, Recorded, ReadWell, ReadingFit, Meant, Defined
<1>9. ASSUME NEW n \in Measures, NEW a \in DOMAIN observations'[n]
      PROVE  observations'[n][a].metric = observations'[n][1].metric /\ Meant(NameOf[n], observations'[n][a])
  <2>1. observations[n] \in Seq(ObservationRow)
    BY DEF MetricInv, Recorded, Observed
  <2>2. CASE a \in DOMAIN observations[n]
    <3>1. 1 \in DOMAIN observations[n]
      BY <2>1, <2>2
    <3>2. observations'[n][a] = observations[n][a] /\ observations'[n][1] = observations[n][1]
      BY <1>7, <2>2, <3>1
    <3> QED
      BY <2>2, <3>2 DEF MetricInv, Recorded, MeantWell
  <2>3. CASE a \notin DOMAIN observations[n] /\ observations[n] = <<>>
    <3>1. n = m /\ a = 1 /\ observations'[n][a] = row
      BY <2>1, <2>3, <1>7
    <3> QED
      BY <3>1, <1>6
  <2>4. CASE a \notin DOMAIN observations[n] /\ observations[n] # <<>>
    <3>1. n = m /\ observations'[n][a] = row /\ observations[n][1].metric = row.metric
      BY <2>4, <1>7
    <3>2. 1 \in DOMAIN observations[n]
      BY <2>1, <2>4
    <3>3. observations'[n][1] = observations[n][1]
      BY <1>7, <3>2
    <3> QED
      BY <3>1, <3>3, <1>6
  <2> QED
    BY <2>2, <2>3, <2>4
<1>10. MeantWell'
  BY <1>3, <1>9 DEF MeantWell, Meant, Defined
<1>11. Recorded'
  BY <1>2, <1>7, <1>8, <1>10 DEF MetricInv, Recorded
<1>12. Reported'
  <2>1. Reported /\ Observed
    BY DEF MetricInv, Recorded
  <2>2. UNCHANGED <<listed, reports, told>>
    BY <1>2
  <2> QED
    BY <2>1, <2>2, <1>7, ReportsStand
<1> QED
  BY <1>3, <1>11, <1>12 DEF MetricInv

LEMMA RecordsGo ==
    ASSUME MetricInv, NEW r \in Recorders, NEW m \in Measures, NEW keys, RecordNext(r, m, keys)
    PROVE  MetricInv'
<1>1. NameOf[m] \in MetricNames
  BY MetricBounds
<1> QED
  <2>1. ASSUME NEW id \in 1 .. MaxMetricVersions, NEW v \in 1 .. MaxMetricVersions, SupplyDefinition(r, NameOf[m], id, v)
        PROVE  MetricInv'
    BY <2>1, DefinitionSupplied
  <2> QED
    BY <1>1, <2>1, DefinitionRead, VersionKept, RefusedKeeps DEF RecordNext

LEMMA ListKeeps ==
    ASSUME MetricInv, NEW measures \in SUBSET Measures, ListObservations(measures)
    PROVE  MetricInv'
<1>1. UNCHANGED <<metrics, observations, reading, kept, reports, reportOf, told>>
  BY DEF ListObservations
<1>2. listed' \in Seq(Stored)
  BY ListKept DEF MetricInv, Recorded
<1>3. Catalogued' /\ Recorded'
  BY <1>1 DEF MetricInv, Catalogued, Recorded, Observed, ReadWell, ReadingFit, MeantWell, Meant, Defined
<1>4. Reported'
  BY <1>1, <1>2 DEF MetricInv, Reported, ReportWell, ToldWell, Stored, Rated, Counting, About, Inside, Says
<1> QED
  BY <1>3, <1>4 DEF MetricInv

LEMMA ListTurned ==
    ASSUME NEW R, NEW rows \in Seq(R)
    PROVE  Reverse(rows) \in Seq(R)
<1>1. PICK n \in Nat : n = Len(rows) /\ \A i \in 1 .. n : rows[i] \in R
  OBVIOUS
<1>2. Reverse(rows) = [i \in 1 .. n |-> rows[(n - i) + 1]]
  BY <1>1 DEF Reverse
<1>3. \A i \in 1 .. n : (n - i) + 1 \in 1 .. n
  OBVIOUS
<1>4. Reverse(rows) \in [1 .. n -> R]
  BY <1>1, <1>2, <1>3
<1> QED
  BY <1>4, SeqDef

(* A snapshot counts the latest of what it is given; the one that exists   *)
(* counts the same rows.                                                   *)
LEMMA CalculateKeeps ==
    ASSUME MetricInv, NEW kind \in {"kpi", "geo"}, NEW order \in Seq(Stored), NEW k, NEW w,
           Calculate(kind, NamesFor(kind), order, k, w)
    PROVE  MetricInv'
<1>1. PICK within : within = Inside(Latest(order), w)
  OBVIOUS
<1>2. PICK rows : rows = About(within, NamesFor(kind))
  OBVIOUS
<1>3. PICK odd : odd = Cardinality(within \ rows)
  OBVIOUS
<1>4. PICK new : new = IF kind = "kpi" THEN KpiReport(w, rows, odd) ELSE GeoReport(w, rows, odd)
  OBVIOUS
<1>5. PICK known : known = Known(DigestOf(kind, w, rows, odd))
  OBVIOUS
<1>6. PICK s : s = IF known = {} THEN new ELSE CHOOSE x \in reports : x \in known
  OBVIOUS
<1>7. /\ reports' = reports \cup {s} /\ told' = [kind |-> kind, window |-> w, from |-> Range(order), report |-> s]
      /\ UNCHANGED <<metrics, observations, reading, kept, listed>>
  BY <1>1, <1>2, <1>3, <1>4, <1>5, <1>6 DEF Calculate
<1>8. \A i \in DOMAIN order : order[i] \in Stored
  BY SequenceOf
<1>9. Range(order) \subseteq Stored
  BY <1>8 DEF Range
<1>10. Stored \subseteq Listable
  BY DEF Stored
<1>11. order \in Seq(Listable)
  BY <1>10
<1>12. Latest(order) = Newest(Range(order))
  BY <1>11, LatestIs
<1>13. rows \subseteq Stored /\ rows = About(Inside(Newest(Range(order)), w), NamesFor(kind))
  BY <1>1, <1>2, <1>9, <1>12 DEF About, Inside, Newest
<1>14. new.inputs = rows /\ new.of = Cardinality(Rated(kind, rows)) /\ new.kind = kind
  BY <1>4 DEF KpiReport, GeoReport, Rated
<1>15. s.inputs = rows /\ s.of = Cardinality(Rated(kind, rows)) /\ s.kind = kind
  <2>1. CASE known = {}
    BY <2>1, <1>6, <1>14
  <2>2. CASE known # {}
    <3>1. s \in reports /\ s \in known
      BY <2>2, <1>5, <1>6 DEF Known
    <3>2. DigestOf(s.kind, s.window, s.inputs, s.odd) = DigestOf(kind, w, rows, odd)
      BY <3>1, <1>5 DEF Known
    <3>3. s.kind = kind /\ s.inputs = rows
      BY <3>2 DEF DigestOf
    <3>4. ReportWell(s)
      BY <3>1 DEF MetricInv, Reported
    <3> QED
      BY <3>3, <3>4 DEF ReportWell
  <2> QED
    BY <2>1, <2>2
<1>16. ReportWell(s)
  BY <1>13, <1>15 DEF ReportWell
<1>17. Catalogued' /\ Recorded'
  BY <1>7 DEF MetricInv, Catalogued, Recorded, Observed, ReadWell, ReadingFit, MeantWell, Meant, Defined
<1>18. \A x \in reports' : ReportWell(x)
  BY <1>7, <1>16 DEF MetricInv, Reported
<1>19. /\ told'.kind = kind /\ told'.window = w /\ told'.from = Range(order) /\ told'.report = s
  BY <1>7
<1>20. Reported'
  <2>1. Stored' = Stored /\ \A x : ReportWell(x)' <=> ReportWell(x)
    BY <1>7 DEF ReportWell, Stored, Rated, Counting, About, Says
  <2>2. ToldWell'
    <3>1. About(Inside(Newest(Range(order)), w), NamesFor(kind))' = About(Inside(Newest(Range(order)), w), NamesFor(kind))
      BY <1>7 DEF About, Inside, Says
    <3>2. Rated(kind, rows)' = Rated(kind, rows)
      BY <1>7 DEF Rated, Counting, About, Says
    <3> QED
      BY <1>9, <1>13, <1>15, <1>19, <2>1, <3>1, <3>2 DEF ToldWell, About, Inside, Says, Rated, Counting
  <2> QED
    BY <1>7, <1>18, <2>1, <2>2 DEF MetricInv, Reported
<1> QED
  BY <1>17, <1>20 DEF MetricInv

LEMMA ReportsGo ==
    ASSUME MetricInv, NEW lists \in SUBSET SUBSET Measures, ReportNext(lists)
    PROVE  MetricInv'
<1>1. listed \in Seq(Stored) /\ Reverse(listed) \in Seq(Stored)
  BY ListTurned DEF MetricInv, Reported
<1>2. CASE \E measures \in lists : ListObservations(measures)
  BY <1>2, ListKeeps
<1>3. CASE \E order \in {listed, Reverse(listed)}, k \in ReportKeys, w \in Windows :
              \/ Calculate("kpi", KpiNames, order, k, w)
              \/ Calculate("geo", GeoNames, order, k, w)
  <2>1. PICK order \in Seq(Stored), k \in ReportKeys, w \in Windows :
          Calculate("kpi", KpiNames, order, k, w) \/ Calculate("geo", GeoNames, order, k, w)
    BY <1>1, <1>3
  <2>2. NamesFor("kpi") = KpiNames /\ NamesFor("geo") = GeoNames
    BY DEF NamesFor
  <2> QED
    BY <2>1, <2>2, CalculateKeeps
<1> QED
  BY <1>2, <1>3 DEF ReportNext

LEMMA MetricsStay == MetricInv /\ UNCHANGED metricVars => MetricInv'
<1> SUFFICES ASSUME MetricInv, UNCHANGED metricVars PROVE MetricInv'
  OBVIOUS
<1>1. UNCHANGED <<metrics, observations, reading, kept, listed, reports, reportOf, told>>
  BY DEF metricVars
<1>2. Catalogued' /\ (\A n, v : Defined(n, v)' <=> Defined(n, v))
  BY <1>1 DEF MetricInv, Catalogued, Defined
<1>3. ReadWell' /\ MeantWell'
  BY <1>1 DEF MetricInv, Recorded, ReadWell, ReadingFit, MeantWell, Meant, Defined
<1>4. Recorded'
  BY <1>1, <1>3 DEF MetricInv, Recorded, Observed
<1>5. Reported'
  BY <1>1 DEF MetricInv, Reported, ReportWell, ToldWell, Stored, Rated, Counting, About, Inside, Says
<1> QED
  BY <1>2, <1>4, <1>5 DEF MetricInv

-----------------------------------------------------------------------------
(* Items, actions, experiments and windows. The history of an item is a    *)
(* line of steps from where it was made; an approval shows in all that     *)
(* comes after it.                                                         *)
ItemStates == {"proposed", "approved", "rejected", "expired", "executed"}
ItemRow == [status : ItemStates, approver : BOOLEAN]

ItemWell(i) ==
    /\ item[i] \in Seq(ItemRow) /\ itemTold[i] \in Seq(ItemStates)
    /\ item[i] # <<>> => item[i][1] = Proposed
    /\ \A v \in DOMAIN item[i] :
          /\ v > 1 => <<item[i][v - 1].status, item[i][v].status>> \in ItemSteps
          /\ item[i][v].status \in {"approved", "executed"} => item[i][v].approver
    /\ Len(itemTold[i]) <= Len(item[i])
    /\ \A n \in DOMAIN itemTold[i] : \E v \in n .. Len(item[i]) : item[i][v].status = itemTold[i][n]

ActionRow == [status : ActionStates \cup {"none"}, version : Nat, approver : BOOLEAN]

ActionWell(a) ==
    /\ action[a] \in ActionRow /\ actionTold[a] \in Seq(ActionStates)
    /\ action[a].status \in {"approved", "executing", "executed", "failed"} => action[a].approver
    /\ action[a] # NoAction =>
          /\ Len(actionTold[a]) = action[a].version /\ action[a].version > 0
          /\ a \notin slipped => actionTold[a][Len(actionTold[a])] = action[a].status

FeedbackInv ==
    /\ DOMAIN item = Items /\ DOMAIN itemTold = Items /\ \A i \in Items : ItemWell(i)
    /\ DOMAIN action = Actions /\ DOMAIN actionTold = Actions /\ \A a \in Actions : ActionWell(a)
    /\ DOMAIN experiment = {"status", "version", "counted"}
    /\ DOMAIN windowOf = FeedbackKeys /\ DOMAIN factRow = Range(Facts4)
    /\ \A k \in FeedbackKeys : windowOf[k] # NoFact => windowOf[k] \in Requests4Window
    /\ SamplesFrozen /\ WindowWhole

LEMMA FeedbackStarts == FeedbackInit => FeedbackInv
<1> SUFFICES ASSUME FeedbackInit PROVE FeedbackInv
  OBVIOUS
<1>1. \A i \in Items : ItemWell(i)
  BY DEF FeedbackInit, ItemWell
<1>2. \A a \in Actions : ActionWell(a)
  BY DEF FeedbackInit, ActionWell, NoAction, ActionRow
<1> QED
  BY <1>1, <1>2 DEF FeedbackInit, FeedbackInv, SamplesFrozen, WindowWhole

LEMMA FeedbackTold == FeedbackInv => ApprovedFirst /\ AsTold /\ SamplesFrozen /\ WindowWhole
<1> SUFFICES ASSUME FeedbackInv PROVE ApprovedFirst /\ AsTold
  BY DEF FeedbackInv
<1>1. ASSUME NEW i \in Items, NEW v \in DOMAIN item[i], item[i][v].status = "executed"
      PROVE  item[i][v].approver /\ \E u \in 1 .. v - 1 : item[i][u].status = "approved"
  <2>1. ItemWell(i)
    BY DEF FeedbackInv
  <2>2. v \in Nat /\ v # 0
    BY <2>1 DEF ItemWell
  <2>3. v > 1
    BY <1>1, <2>1, <2>2 DEF ItemWell, Proposed
  <2>4. <<item[i][v - 1].status, "executed">> \in ItemSteps
    BY <1>1, <2>1, <2>3 DEF ItemWell
  <2>5. item[i][v - 1].status = "approved" /\ v - 1 \in 1 .. v - 1
    BY <2>2, <2>3, <2>4 DEF ItemSteps
  <2> QED
    BY <1>1, <2>1, <2>5 DEF ItemWell
<1>2. \A a \in Actions : action[a].status \in {"executing", "executed", "failed"} => action[a].approver
  BY DEF FeedbackInv, ActionWell
<1>3. ASSUME NEW a \in Actions, action[a] # NoAction
      PROVE  Len(actionTold[a]) = action[a].version /\ (a \notin slipped => Last(actionTold[a]) = action[a].status)
  BY <1>3 DEF FeedbackInv, ActionWell, Last
<1>4. \A i \in Items : /\ Len(itemTold[i]) <= Len(item[i])
                       /\ \A n \in DOMAIN itemTold[i] : \E v \in n .. Len(item[i]) : item[i][v].status = itemTold[i][n]
  BY DEF FeedbackInv, ItemWell
<1> QED
  BY <1>1, <1>2, <1>3, <1>4 DEF ApprovedFirst, AsTold

LEMMA ItemsMade ==
    ASSUME FeedbackInv, NEW i \in Items, NEW k, CreateItem(i, k)
    PROVE  FeedbackInv'
<1>1. /\ item' = [item EXCEPT ![i] = <<Proposed>>] /\ itemTold' = [itemTold EXCEPT ![i] = <<"proposed">>]
      /\ UNCHANGED <<actionVars, trialVars, liveVars>>
  BY DEF CreateItem
<1>2. \A j \in Items \ {i} : ItemWell(j)'
  BY <1>1 DEF FeedbackInv, ItemWell
<1>3. ItemWell(i)'
  <2>1. item'[i] = <<Proposed>> /\ itemTold'[i] = <<"proposed">>
    BY <1>1 DEF FeedbackInv
  <2>2. Proposed \in ItemRow /\ Proposed.status = "proposed"
    BY DEF Proposed, ItemRow, ItemStates
  <2>3. 1 \in 1 .. 1 /\ <<Proposed>> \in Seq(ItemRow) /\ <<"proposed">> \in Seq(ItemStates)
    BY <2>2 DEF ItemStates
  <2> QED
    BY <2>1, <2>2, <2>3 DEF ItemWell
<1> QED
  BY <1>1, <1>2, <1>3 DEF FeedbackInv, ActionWell, SamplesFrozen, WindowWhole, actionVars, trialVars, liveVars

LEMMA ItemsMove ==
    ASSUME FeedbackInv, NEW i \in Items, NEW to \in {s[2] : s \in ItemSteps}, NEW v, NEW k, NEW sound \in BOOLEAN,
           TransitionItem(i, to, v, k, sound)
    PROVE  FeedbackInv'
<1>1. PICK row : row = [status |-> to, approver |-> Last(item[i]).approver \/ to = "approved"]
  OBVIOUS
<1>2. /\ item[i] # <<>> /\ <<Last(item[i]).status, to>> \in ItemSteps
      /\ item' = [item EXCEPT ![i] = Append(@, row)]
      /\ itemTold' = IF sound THEN [itemTold EXCEPT ![i] = Append(@, to)] ELSE itemTold
      /\ UNCHANGED <<actionVars, trialVars, liveVars>>
  BY <1>1 DEF TransitionItem
<1>3. \A j \in Items \ {i} : ItemWell(j)'
  BY <1>2 DEF FeedbackInv, ItemWell
<1>4. ItemWell(i)
  BY DEF FeedbackInv
<1>5. PICK n \in Nat \ {0} : /\ n = Len(item[i]) /\ DOMAIN item[i] = 1 .. n /\ Last(item[i]) = item[i][n]
                             /\ item[i][n] \in ItemRow /\ item[i] \in Seq(ItemRow)
  BY <1>2, <1>4 DEF ItemWell, Last
<1>6. /\ row \in ItemRow /\ row.status = to /\ to \in ItemStates
      /\ to \in {"approved", "executed"} => row.approver
  <2>1. to \in ItemStates
    BY DEF ItemSteps, ItemStates
  <2>2. to = "executed" => item[i][n].status = "approved"
    BY <1>2, <1>5 DEF ItemSteps
  <2>3. item[i][n].status = "approved" => item[i][n].approver
    <3>1. \A u \in DOMAIN item[i] : item[i][u].status \in {"approved", "executed"} => item[i][u].approver
      BY <1>4 DEF ItemWell
    <3>2. n \in DOMAIN item[i]
      BY <1>5
    <3> QED
      BY <3>1, <3>2
  <2>4. item[i][n].approver \in BOOLEAN
    BY <1>5 DEF ItemRow
  <2> QED
    BY <1>1, <1>5, <2>1, <2>2, <2>3, <2>4 DEF ItemRow
<1>7. PICK rows : rows = Append(item[i], row)
  OBVIOUS
<1>8. /\ rows \in Seq(ItemRow) /\ Len(rows) = n + 1 /\ DOMAIN rows = 1 .. n + 1 /\ rows[n + 1] = row
      /\ \A u \in 1 .. n : rows[u] = item[i][u]
  BY <1>5, <1>6, <1>7
<1>9. item'[i] = rows
  BY <1>2, <1>7 DEF FeedbackInv
<1>10. \A u \in 1 .. n + 1 :
          /\ u > 1 => <<rows[u - 1].status, rows[u].status>> \in ItemSteps
          /\ rows[u].status \in {"approved", "executed"} => rows[u].approver
  <2> SUFFICES ASSUME NEW u \in 1 .. n + 1
               PROVE  /\ u > 1 => <<rows[u - 1].status, rows[u].status>> \in ItemSteps
                      /\ rows[u].status \in {"approved", "executed"} => rows[u].approver
    OBVIOUS
  <2>1. CASE u = n + 1
    <3>1. rows[u] = row /\ rows[u - 1] = item[i][n]
      BY <2>1, <1>5, <1>8
    <3> QED
      BY <3>1, <1>2, <1>5, <1>6
  <2>2. CASE u # n + 1
    <3>1. u \in 1 .. n /\ rows[u] = item[i][u] /\ (u > 1 => u - 1 \in 1 .. n)
      BY <2>2, <1>5, <1>8
    <3>2. u > 1 => rows[u - 1] = item[i][u - 1]
      BY <3>1, <1>8
    <3> QED
      BY <3>1, <3>2, <1>4, <1>5 DEF ItemWell
  <2> QED
    BY <2>1, <2>2
<1>11. rows # <<>> /\ rows[1] = Proposed
  BY <1>4, <1>5, <1>8 DEF ItemWell
<1>12. PICK old : /\ old = itemTold[i] /\ old \in Seq(ItemStates) /\ Len(old) \in Nat /\ Len(old) <= n
                  /\ \A m \in DOMAIN old : \E u \in m .. n : item[i][u].status = old[m]
  <2>1. itemTold[i] \in Seq(ItemStates) /\ Len(itemTold[i]) <= n
    BY <1>4, <1>5 DEF ItemWell
  <2>2. Len(itemTold[i]) \in Nat
    BY <2>1
  <2>3. \A m \in DOMAIN itemTold[i] : \E u \in m .. n : item[i][u].status = itemTold[i][m]
    BY <1>4, <1>5 DEF ItemWell
  <2> QED
    BY <2>1, <2>2, <2>3
<1>13. \A m \in DOMAIN old : \E u \in m .. n + 1 : rows[u].status = old[m]
  <2> SUFFICES ASSUME NEW m \in DOMAIN old PROVE \E u \in m .. n + 1 : rows[u].status = old[m]
    OBVIOUS
  <2>1. m \in Nat /\ m # 0
    BY <1>12
  <2>2. PICK u \in m .. n : item[i][u].status = old[m]
    BY <1>12
  <2>3. u \in 1 .. n /\ u \in m .. n + 1
    BY <2>1, <2>2, <1>5
  <2> QED
    BY <2>2, <2>3, <1>8
<1>14. CASE ~sound
  <2>1. itemTold'[i] = old
    BY <1>2, <1>12, <1>14
  <2> QED
    <3>1. ItemWell(i)'
      BY <2>1, <1>5, <1>8, <1>9, <1>10, <1>11, <1>12, <1>13 DEF ItemWell
    <3>2. DOMAIN item' = Items /\ DOMAIN itemTold' = Items
      BY <1>2, <1>14 DEF FeedbackInv
    <3> QED
      BY <3>1, <3>2, <1>2, <1>3 DEF FeedbackInv, ActionWell, SamplesFrozen, WindowWhole, actionVars, trialVars, liveVars
<1>15. CASE sound
  <2>1. PICK all : all = Append(old, to)
    OBVIOUS
  <2>2. itemTold'[i] = all
    BY <2>1, <1>2, <1>12, <1>15 DEF FeedbackInv
  <2>3. /\ all \in Seq(ItemStates) /\ Len(all) = Len(old) + 1 /\ DOMAIN all = 1 .. Len(old) + 1
        /\ all[Len(old) + 1] = to /\ \A m \in DOMAIN old : all[m] = old[m]
    BY <2>1, <1>6, <1>12
  <2>4. \A m \in DOMAIN all : \E u \in m .. n + 1 : rows[u].status = all[m]
    <3> SUFFICES ASSUME NEW m \in DOMAIN all PROVE \E u \in m .. n + 1 : rows[u].status = all[m]
      OBVIOUS
    <3>1. CASE m = Len(old) + 1
      <4>1. n + 1 \in m .. n + 1 /\ rows[n + 1].status = all[m]
        BY <3>1, <2>3, <1>5, <1>6, <1>8, <1>12
      <4> QED
        BY <4>1
    <3>2. CASE m # Len(old) + 1
      <4>1. m \in DOMAIN old
        BY <3>2, <2>3, <1>12
      <4> QED
        BY <4>1, <2>3, <1>13
    <3> QED
      BY <3>1, <3>2
  <2>5. ItemWell(i)'
    <3>1. Len(all) <= Len(rows) /\ Len(rows) = n + 1
      BY <2>3, <1>8, <1>12
    <3>2. rows \in Seq(ItemRow) /\ rows[1] = Proposed /\ DOMAIN rows = 1 .. n + 1 /\ all \in Seq(ItemStates)
      BY <2>3, <1>8, <1>11
    <3> QED
      BY <2>2, <2>4, <1>9, <1>10, <3>1, <3>2 DEF ItemWell
  <2>6. DOMAIN item' = Items /\ DOMAIN itemTold' = Items
    BY <1>2 DEF FeedbackInv
  <2> QED
    BY <2>5, <2>6, <1>2, <1>3 DEF FeedbackInv, ActionWell, SamplesFrozen, WindowWhole, actionVars, trialVars, liveVars
<1> QED
  BY <1>14, <1>15

LEMMA ActionsMade ==
    ASSUME FeedbackInv, NEW a \in Actions, NEW k, CreateAction(a, k)
    PROVE  FeedbackInv'
<1>1. /\ action' = [action EXCEPT ![a] = [status |-> "proposed", version |-> 1, approver |-> FALSE]]
      /\ actionTold' = [actionTold EXCEPT ![a] = <<"proposed">>]
      /\ UNCHANGED <<slipped, itemVars, trialVars, liveVars>>
  BY DEF CreateAction
<1>2. \A b \in Actions \ {a} : ActionWell(b)'
  BY <1>1 DEF FeedbackInv, ActionWell
<1>3. ActionWell(a)'
  <2>1. action'[a] = [status |-> "proposed", version |-> 1, approver |-> FALSE] /\ actionTold'[a] = <<"proposed">>
    BY <1>1 DEF FeedbackInv
  <2>2. "proposed" \in ActionStates
    BY DEF ActionStates, ActionSteps
  <2> QED
    BY <2>1, <2>2 DEF ActionWell, ActionRow, NoAction
<1> QED
  BY <1>1, <1>2, <1>3 DEF FeedbackInv, ItemWell, SamplesFrozen, WindowWhole, itemVars, trialVars, liveVars

(* What a command leaves of an action, refused or not.                     *)
LEMMA ActionsMove ==
    ASSUME FeedbackInv, NEW a \in Actions, NEW to \in {s[2] : s \in ActionSteps}, NEW v, NEW k, NEW safe \in BOOLEAN,
           TransitionAction(a, to, v, k, safe)
    PROVE  FeedbackInv'
<1>1. /\ action[a] # NoAction /\ v = action[a].version /\ <<action[a].status, to>> \in ActionSteps
      /\ UNCHANGED <<itemVars, trialVars, liveVars>>
  BY DEF TransitionAction
<1>2. ActionWell(a) /\ action[a] \in ActionRow
  BY DEF FeedbackInv, ActionWell
<1>3. to \in ActionStates /\ to # "none" /\ to # "proposed"
  BY DEF ActionStates, ActionSteps
<1>4. PICK row : row = Moved(a, to)
  OBVIOUS
<1>5. /\ row \in ActionRow /\ row.status = to /\ row.version = v
      /\ to \in {"approved", "executing", "executed", "failed"} => row.approver
      /\ action[a].approver => row.approver
  <2>1. row = [action[a] EXCEPT !.status = to, !.approver = @ \/ to = "approved"]
    BY <1>4 DEF Moved
  <2>2. row.status = to /\ row.version = v /\ row.approver = (action[a].approver \/ to = "approved") /\ row \in ActionRow
    BY <2>1, <1>1, <1>2, <1>3 DEF ActionRow
  <2>3. to \in {"executing", "executed", "failed"} => action[a].status \in {"approved", "failed", "executing"}
    BY <1>1 DEF ActionSteps
  <2> QED
    BY <2>2, <2>3, <1>2 DEF ActionWell
<1>6. \A b \in Actions \ {a} : action'[b] = action[b] /\ actionTold'[b] = actionTold[b] /\ (b \in slipped' <=> b \in slipped)
  BY DEF TransitionAction, FeedbackInv
<1>7. \A b \in Actions \ {a} : ActionWell(b)'
  BY <1>6 DEF FeedbackInv, ActionWell
<1>8. DOMAIN action' = Actions /\ DOMAIN actionTold' = Actions
  BY DEF TransitionAction, FeedbackInv
<1>9. ActionWell(a)'
  <2>1. CASE ~safe
    <3>1. /\ action' = [action EXCEPT ![a].approver = Moved(a, to).approver] /\ UNCHANGED <<actionTold, slipped>>
      BY <2>1 DEF TransitionAction
    <3>2. action'[a] = [action[a] EXCEPT !.approver = row.approver]
      BY <3>1, <1>4 DEF FeedbackInv
    <3>3. /\ action'[a] \in ActionRow /\ action'[a].status = action[a].status /\ action'[a].version = action[a].version
          /\ action'[a].approver = row.approver
      BY <3>2, <1>2, <1>5 DEF ActionRow
    <3> QED
      BY <3>1, <3>3, <1>1, <1>2, <1>5 DEF ActionWell
  <2>2. CASE safe /\ k \in keyUsed
    <3>1. action' = [action EXCEPT ![a] = row] /\ slipped' = slipped \cup {a} /\ UNCHANGED actionTold
      BY <2>2, <1>4 DEF TransitionAction
    <3>2. action'[a] = row /\ a \in slipped'
      BY <3>1 DEF FeedbackInv
    <3> QED
      BY <3>1, <3>2, <1>1, <1>2, <1>5 DEF ActionWell
  <2>3. CASE safe /\ k \notin keyUsed
    <3>1. action' = [action EXCEPT ![a] = [row EXCEPT !.version = v + 1]]
          /\ actionTold' = [actionTold EXCEPT ![a] = Append(@, to)]
      BY <2>3, <1>4 DEF TransitionAction
    <3>2. action'[a] = [row EXCEPT !.version = v + 1] /\ actionTold'[a] = Append(actionTold[a], to)
      BY <3>1 DEF FeedbackInv
    <3>3. /\ action'[a] \in ActionRow /\ action'[a].status = to /\ action'[a].version = v + 1
          /\ action'[a].approver = row.approver /\ v \in Nat
      BY <3>2, <1>1, <1>2, <1>5 DEF ActionRow
    <3>4. actionTold[a] \in Seq(ActionStates) /\ Len(actionTold[a]) = v
      BY <1>1, <1>2 DEF ActionWell
    <3>5. /\ actionTold'[a] \in Seq(ActionStates) /\ Len(actionTold'[a]) = v + 1
          /\ actionTold'[a][v + 1] = to
      BY <3>2, <3>4, <1>3
    <3> QED
      BY <3>3, <3>5, <1>5 DEF ActionWell
  <2> QED
    BY <2>1, <2>2, <2>3
<1> QED
  BY <1>1, <1>7, <1>8, <1>9 DEF FeedbackInv, ItemWell, SamplesFrozen, WindowWhole, itemVars, trialVars, liveVars

LEMMA TrialsGo ==
    ASSUME FeedbackInv, NEW k,
           CreateExperiment(k) \/ RecordSample(k) \/ \E s \in TrialSteps : MoveExperiment(s[2], experiment.version, k)
    PROVE  FeedbackInv'
<1>1. UNCHANGED <<itemVars, actionVars, liveVars>>
  BY DEF CreateExperiment, RecordSample, MoveExperiment
<1>2. DOMAIN experiment' = {"status", "version", "counted"} /\ SamplesFrozen'
  <2>1. CASE CreateExperiment(k)
    BY <2>1 DEF CreateExperiment, FeedbackInv, SamplesFrozen
  <2>2. CASE RecordSample(k)
    BY <2>2 DEF RecordSample, Taking, FeedbackInv, SamplesFrozen
  <2>3. CASE \E s \in TrialSteps : MoveExperiment(s[2], experiment.version, k)
    BY <2>3 DEF MoveExperiment, FeedbackInv, SamplesFrozen
  <2> QED
    BY <2>1, <2>2, <2>3
<1> QED
  BY <1>1, <1>2 DEF FeedbackInv, ItemWell, ActionWell, WindowWhole, itemVars, actionVars, liveVars

(* A window is stored metric by metric; what is there is never another.    *)
LEMMA WindowsGo ==
    ASSUME FeedbackInv, NEW r \in Requests4Window, NEW k \in FeedbackKeys, NEW n \in 1 .. 4, IngestWindow(r, k, n)
    PROVE  FeedbackInv'
<1>1. \A p \in 1 .. n : factRow[Facts4[p]] \in {NoFact, FactOf[r][p]}
  BY DEF IngestWindow, Fits4
<1>2. UNCHANGED <<itemVars, actionVars, trialVars>>
  BY DEF IngestWindow
<1>3. \A p \in 1 .. 4 : Facts4[p] \in Range(Facts4) /\ (CHOOSE q \in 1 .. 4 : Facts4[q] = Facts4[p]) = p
  <2>1. \A p, q \in 1 .. 4 : Facts4[q] = Facts4[p] => p = q
    BY DEF Facts4
  <2>2. DOMAIN Facts4 = 1 .. 4
    BY DEF Facts4
  <2> QED
    BY <2>1, <2>2 DEF Range
<1>4. /\ DOMAIN factRow' = Range(Facts4)
      /\ \A p \in 1 .. 4 : factRow'[Facts4[p]] = IF p <= n THEN FactOf[r][p] ELSE factRow[Facts4[p]]
  <2>1. factRow' = [m \in Range(Facts4) |-> LET p == CHOOSE q \in 1 .. 4 : Facts4[q] = m
                                           IN IF p <= n THEN FactOf[r][p] ELSE factRow[m]]
    BY DEF IngestWindow
  <2> QED
    BY <2>1, <1>3
<1>5. \A j \in FeedbackKeys : windowOf'[j] = IF j = k /\ n = 4 THEN r ELSE windowOf[j]
  BY DEF IngestWindow, FeedbackInv
<1>6. DOMAIN windowOf' = FeedbackKeys
  BY DEF IngestWindow, FeedbackInv
<1>7. ASSUME NEW j \in FeedbackKeys, windowOf'[j] # NoFact, NEW p \in 1 .. 4
      PROVE  factRow'[Facts4[p]] = FactOf[windowOf'[j]][p]
  <2>1. CASE j = k /\ n = 4
    BY <2>1, <1>4, <1>5
  <2>2. CASE ~(j = k /\ n = 4)
    <3>1. windowOf'[j] = windowOf[j] /\ windowOf[j] \in Requests4Window /\ factRow[Facts4[p]] = FactOf[windowOf[j]][p]
      BY <2>2, <1>5, <1>7 DEF FeedbackInv, WindowWhole
    <3>2. factRow[Facts4[p]] # NoFact
      BY <3>1, FeedbackBounds DEF NoFact
    <3>3. p <= n => factRow[Facts4[p]] = FactOf[r][p]
      BY <3>2, <1>1
    <3> QED
      BY <3>1, <3>3, <1>4
  <2> QED
    BY <2>1, <2>2
<1>8. \A j \in FeedbackKeys : windowOf'[j] # NoFact => windowOf'[j] \in Requests4Window
  BY <1>5 DEF FeedbackInv
<1>9. WindowWhole'
  BY <1>7 DEF WindowWhole
<1> QED
  BY <1>2, <1>4, <1>6, <1>8, <1>9 DEF FeedbackInv, ItemWell, ActionWell, SamplesFrozen, itemVars, actionVars, trialVars

LEMMA FeedbackStays == FeedbackInv /\ UNCHANGED feedbackVars => FeedbackInv'
BY DEF FeedbackInv, ItemWell, ActionWell, SamplesFrozen, WindowWhole, feedbackVars

LEMMA RecommendsStay ==
    ASSUME FeedbackInv, NEW i, NEW t, NEW v, Recommend(i, t, v)
    PROVE  FeedbackInv'
BY DEF Recommend, FeedbackInv, ItemWell, ActionWell, SamplesFrozen, WindowWhole, actionVars, trialVars, liveVars

LEMMA FeedbackGoes ==
    ASSUME FeedbackInv, ItemNext \/ ActionNext \/ TrialNext \/ LiveNext
    PROVE  FeedbackInv'
<1>1. CASE ItemNext
  <2>1. PICK i \in Items, k \in FeedbackKeys :
            \/ CreateItem(i, k)
            \/ \E s \in ItemSteps, v \in 1 .. 3, sound \in BOOLEAN : TransitionItem(i, s[2], v, k, sound)
            \/ \E t \in Targets4Feedback, v \in 1 .. 3 : Recommend(i, t, v)
    BY <1>1 DEF ItemNext
  <2> QED
    BY <2>1, ItemsMade, ItemsMove, RecommendsStay
<1>2. CASE ActionNext
  <2>1. PICK a \in Actions, k \in FeedbackKeys :
            \/ CreateAction(a, k)
            \/ \E s \in ActionSteps, safe \in BOOLEAN : TransitionAction(a, s[2], action[a].version, k, safe)
    BY <1>2 DEF ActionNext
  <2> QED
    BY <2>1, ActionsMade, ActionsMove
<1>3. CASE TrialNext
  BY <1>3, TrialsGo DEF TrialNext
<1>4. CASE LiveNext
  BY <1>4, WindowsGo DEF LiveNext
<1> QED
  BY <1>1, <1>2, <1>3, <1>4

-----------------------------------------------------------------------------
(* Analytics: the catalogue, the recorders and the snapshots on one side,  *)
(* items, actions, experiments and windows on the other.                   *)
analyticsVars == <<metricVars, feedbackVars>>

AnalyticsInit ==
    /\ MetricInit(<<>>) \/ \E body \in Bodies : MetricInit(<<FirstSeen(body)>>)
    /\ FeedbackInit

MeasureNext ==
    \/ \E n \in MetricNames : CatalogNext(n)
    \/ \E r \in Recorders, m \in Measures : RecordNext(r, m, ReportKeys)
    \/ ReportNext(SUBSET Measures)

FollowNext == ItemNext \/ ActionNext \/ TrialNext \/ LiveNext

AnalyticsNext ==
    \/ MeasureNext /\ UNCHANGED feedbackVars
    \/ FollowNext /\ UNCHANGED metricVars

AnalyticsSpec == AnalyticsInit /\ [][AnalyticsNext]_analyticsVars

AnalyticsInv == MetricInv /\ FeedbackInv

LEMMA MeasuresGo == ASSUME MetricInv, MeasureNext PROVE MetricInv'
<1>1. SUBSET Measures \in SUBSET SUBSET Measures
  OBVIOUS
<1> QED
  BY <1>1, CatalogKeeps, RecordsGo, ReportsGo DEF MeasureNext

(* The invariant of what is measured and of what follows from it.          *)
THEOREM AnalyticsInvariant == AnalyticsSpec => []AnalyticsInv
<1>1. AnalyticsInit => AnalyticsInv
  <2>1. ASSUME MetricInit(<<>>) \/ \E body \in Bodies : MetricInit(<<FirstSeen(body)>>)
        PROVE  MetricInv
    BY <2>1, MetricsStart
  <2> QED
    BY <2>1, FeedbackStarts DEF AnalyticsInit, AnalyticsInv
<1>2. AnalyticsInv /\ [AnalyticsNext]_analyticsVars => AnalyticsInv'
  <2>1. MetricInv /\ (MeasureNext \/ UNCHANGED metricVars) => MetricInv'
    BY MeasuresGo, MetricsStay
  <2>2. FeedbackInv /\ (FollowNext \/ UNCHANGED feedbackVars) => FeedbackInv'
    BY FeedbackGoes, FeedbackStays DEF FollowNext
  <2> QED
    BY <2>1, <2>2 DEF AnalyticsInv, AnalyticsNext, analyticsVars
<1> QED
  BY <1>1, <1>2, PTL DEF AnalyticsSpec

(* What is reported rests on definitions in force and counts each thing    *)
(* once, whatever the measures, their versions and the order they come in; *)
(* what follows from it was approved, is as it was told, and a window is   *)
(* whole.                                                                  *)
THEOREM ReportsKeptAlways == AnalyticsSpec => []ReportsKept
<1>1. AnalyticsInv => ReportsKept
  BY MetricsTold, FeedbackTold DEF AnalyticsInv, ReportsKept
<1> QED
  BY <1>1, AnalyticsInvariant, PTL

LEMMA Measured ==
    ASSUME NEW lists \in SUBSET SUBSET Measures, NEW keys \in SUBSET ReportKeys, NEW r \in Recorders, NEW m \in Measures
    PROVE  ReportNext(lists) \/ RecordNext(r, m, keys) => MeasureNext
<1>1. RecordNext(r, m, keys) => RecordNext(r, m, ReportKeys)
  BY DEF RecordNext
<1>2. ReportNext(lists) => ReportNext(SUBSET Measures)
  BY DEF ReportNext
<1> QED
  BY <1>1, <1>2 DEF MeasureNext

LEMMA Analysed == ASSUME Next PROVE [AnalyticsNext]_analyticsVars
<1>1. UNCHANGED servedVars => UNCHANGED analyticsVars
  BY DEF servedVars, governVars, analyticsVars
<1>2. CASE ServedNext
  <2>1. CASE chosen = "metrics"
    <3>1. CatalogNext("published") \/ RecordNext("w1", "m1", {"k1"}) \/ RecordNext("w2", "m1", {"k2"})
      BY <1>2, <2>1 DEF ServedNext, MetricsNext
    <3>2. MeasureNext
      BY <3>1, ServicesBounds, Measured DEF MeasureNext
    <3> QED
      BY <3>2, <1>2, <2>1 DEF ServedNext, AnalyticsNext
  <2>2. CASE chosen = "reports"
    <3>1. ReportNext({{"m1"}, Measures}) \/ RecordNext("w1", "m1", {"k1"})
      BY <1>2, <2>2 DEF ServedNext, ReportsNext
    <3>2. MeasureNext
      BY <3>1, ServicesBounds, Measured
    <3> QED
      BY <3>2, <1>2, <2>2 DEF ServedNext, AnalyticsNext
  <2>3. CASE chosen \in {"items", "actions", "trials", "windows"}
    <3>1. FollowNext /\ UNCHANGED metricVars
      BY <1>2, <2>3 DEF ServedNext, FollowNext
    <3> QED
      BY <3>1 DEF AnalyticsNext
  <2>4. CASE chosen \notin {"metrics", "reports", "items", "actions", "trials", "windows"}
    <3>1. UNCHANGED <<metricVars, feedbackVars>>
      BY <1>2, <2>4 DEF ServedNext, governVars
    <3> QED
      BY <3>1 DEF analyticsVars
  <2> QED
    BY <2>1, <2>2, <2>3, <2>4
<1>3. CASE DecideNext
  BY <1>1, <1>3 DEF DecideNext
<1>4. CASE RecoverNext
  BY <1>1, <1>4 DEF RecoverNext
<1> QED
  BY <1>2, <1>3, <1>4 DEF Next

(* It holds of the very specification the run of the services checks.      *)
THEOREM ReportsKeptInServices == Spec => []ReportsKept
<1>1. Init => AnalyticsInit
  <2>1. ASSUME Init PROVE AnalyticsInit
    <3>1. MetricInit(IF chosen = "reports" THEN <<FirstRow>> ELSE <<>>) /\ FeedbackInit
      BY <2>1 DEF Init
    <3>2. Said(0, "for", FALSE) \in Bodies /\ FirstRow = FirstSeen(Said(0, "for", FALSE))
      BY ServicesBounds DEF FirstRow, FirstSeen
    <3>3. CASE chosen = "reports"
      BY <3>1, <3>2, <3>3 DEF AnalyticsInit
    <3>4. CASE chosen # "reports"
      BY <3>1, <3>4 DEF AnalyticsInit
    <3> QED
      BY <3>3, <3>4
  <2> QED
    BY <2>1
<1>2. [Next]_allVars => [AnalyticsNext]_analyticsVars
  <2>1. UNCHANGED allVars => UNCHANGED analyticsVars
    BY DEF allVars, servedVars, governVars, analyticsVars
  <2> QED
    BY <2>1, Analysed
<1>3. AnalyticsSpec => []ReportsKept
  BY ReportsKeptAlways
<1> QED
  BY <1>1, <1>2, <1>3, PTL DEF Spec, AnalyticsSpec

=============================================================================

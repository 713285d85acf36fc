----------------------------- MODULE Operations -----------------------------
(***************************************************************************)
(* The operator's own rules and plans (modules/operations): the policy     *)
(* that lets a browser action through or not, and the pilot runs, each     *)
(* kept in memory and in a file.  A save of the runs may fail when the     *)
(* memory has changed already; the program may be started again at any     *)
(* time.                                                                   *)
(*                                                                         *)
(* The handlers that change the policy never wait in between, and a policy *)
(* is written to another file that takes the place of the old one, so      *)
(* what update_stop reads and what it writes are one step here.            *)
(*                                                                         *)
(* Left out: names, owners, notes, reviews and times; the accounts of      *)
(* other people, and the names by which the console knows an account.      *)
(***************************************************************************)
EXTENDS Integers, Sequences, SequencesExt, FiniteSetsExt, TLC

CONSTANTS
    Policies,         \* policies the operator may put
    DaysPosted,       \* days the console says something was published on
    RuleWeek,         \* days of a week
    MaxPosted,        \* bound: records of one day
    Pilots,           \* pilot runs
    PilotAccounts,    \* accounts they may be for
    ItemLists         \* lists of [id, account] a caller may plan

ASSUME OperationsBounds ==
    /\ RuleWeek \in Nat \ {0} /\ MaxPosted \in Nat /\ DaysPosted \subseteq Nat
    /\ ItemLists \subseteq Seq(UNION {Range(items) : items \in ItemLists})

VARIABLES
    policy, policyFile, \* in memory (or Unread) and on disk (or Unread)
    posted,             \* day or Undated -> records the console has of it
    ruleDay,            \* today
    pilot, pilotFile,   \* run -> [status, accounts, items], in memory and on disk
    pilotTold           \* run -> what its last command answered

policyVars == <<policy, policyFile, posted, ruleDay>>
pilotVars == <<pilot, pilotFile, pilotTold>>
operationVars == <<policyVars, pilotVars>>

Undated == -1
Rules4(stop, submit, reply, daily, weekly) ==
    [stop |-> stop, submit |-> submit, reply |-> reply, enabled |-> TRUE, daily |-> daily, weekly |-> weekly]
Unread == Rules4(TRUE, FALSE, FALSE, 0, 0)
DefaultPolicy == Rules4(FALSE, FALSE, FALSE, 3, 15)
NoPilot == [status |-> "none", accounts |-> {}, items |-> <<>>]

OperationInit ==
    /\ policy = Unread /\ policyFile = Unread
    /\ posted = [d \in DaysPosted \cup {Undated} |-> 0] /\ ruleDay = 0
    /\ pilot = [p \in Pilots |-> NoPilot] /\ pilotFile = pilot /\ pilotTold = pilot

(* get() reads the file once, and takes the defaults when there is none.   *)
Rules ==
    IF policy # Unread THEN policy ELSE IF policyFile # Unread THEN policyFile ELSE DefaultPolicy

ReadPolicy ==
    /\ policy = Unread /\ policy' = Rules
    /\ UNCHANGED <<policyFile, posted, ruleDay, pilotVars>>

(* replace(): _clean_policy() and the file first, then the memory.         *)
SoundPolicy(p) == p.daily <= p.weekly
ReplacePolicy(p) ==
    /\ SoundPolicy(p)
    /\ policy' = p /\ policyFile' = p
    /\ UNCHANGED <<posted, ruleDay, pilotVars>>

UpdateStop(paused) == ReplacePolicy([Rules EXCEPT !.stop = paused])

(* The console puts the whole of its state, whatever it has read before.   *)
PutConsole(state) ==
    /\ posted' = state
    /\ UNCHANGED <<policy, policyFile, ruleDay, pilotVars>>

(* What the console has published by today: a record of no date counts in  *)
(* every window, and one of the week whatever day of it is today.          *)
WeekStart == (ruleDay \div RuleWeek) * RuleWeek
DayCount == posted[ruleDay] + posted[Undated]
WeekCount == posted[Undated] + MapThenSumSet(LAMBDA d : posted[d], {d \in DaysPosted : d >= WeekStart})

(* guard()                                                                 *)
Lets(rules, action) ==
    /\ ~rules.stop /\ rules.enabled
    /\ action = "publish" => rules.submit
    /\ action = "reply" => rules.reply
    /\ action \in {"prepare_publish", "publish"} => DayCount < rules.daily /\ WeekCount < rules.weekly

NextRuleDay ==
    /\ ruleDay + 1 \in DaysPosted /\ ruleDay' = ruleDay + 1
    /\ UNCHANGED <<policy, policyFile, posted, pilotVars>>

-----------------------------------------------------------------------------
(* _save() writes every run there is.  When it fails the memory keeps the  *)
(* change and the caller is told it failed.                                *)
Save(p, run, saved) ==
    /\ pilot' = [pilot EXCEPT ![p] = run]
    /\ IF saved THEN pilotFile' = pilot' /\ pilotTold' = [pilotTold EXCEPT ![p] = run]
       ELSE UNCHANGED <<pilotFile, pilotTold>>
    /\ UNCHANGED policyVars

Assigned(accounts, items) == accounts # {} => \A i \in Range(items) : i.account \in accounts
Distinct4(items) == \A i, j \in DOMAIN items : items[i].id = items[j].id => i = j

CreatePilot(p, accounts, items, saved) ==
    /\ pilot[p] = NoPilot /\ Assigned(accounts, items) /\ Distinct4(items)
    /\ Save(p, [status |-> "planned", accounts |-> accounts, items |-> items], saved)

(* update() does not look for an id given twice.                           *)
UpdatePilot(p, accounts, items, saved) ==
    /\ pilot[p].status \in {"planned", "running"} /\ Assigned(accounts, items)
    /\ Save(p, [pilot[p] EXCEPT !.accounts = accounts, !.items = items], saved)

PilotSteps ==
    {<<"planned", "running">>, <<"planned", "stopped">>, <<"running", "completed">>, <<"running", "stopped">>}

TransitionPilot(p, to, saved) ==
    /\ <<pilot[p].status, to>> \in PilotSteps
    /\ Save(p, [pilot[p] EXCEPT !.status = to], saved)

AddItem(p, item, saved) ==
    /\ pilot[p].status \in {"planned", "running"}
    /\ Assigned(pilot[p].accounts, <<item>>)
    /\ item.id \notin {i.id : i \in Range(pilot[p].items)}
    /\ Save(p, [pilot[p] EXCEPT !.items = Append(@, item)], saved)

(* The program is started again: what is in memory is what is on disk.     *)
RestartOperations ==
    /\ policy' = Unread /\ pilot' = pilotFile
    /\ UNCHANGED <<policyFile, posted, ruleDay, pilotFile, pilotTold>>

PilotNext ==
    \/ RestartOperations
    \/ \E p \in Pilots, saved \in BOOLEAN :
        \/ \E accounts \in SUBSET PilotAccounts, items \in ItemLists :
            CreatePilot(p, accounts, items, saved) \/ UpdatePilot(p, accounts, items, saved)
        \/ \E s \in PilotSteps : TransitionPilot(p, s[2], saved)
        \/ \E items \in ItemLists : items # <<>> /\ AddItem(p, items[1], saved)

-----------------------------------------------------------------------------
PilotStates == {s[1] : s \in PilotSteps} \cup {s[2] : s \in PilotSteps}

PolicyTypeOK ==
    /\ \A p \in {policy, policyFile} : p.daily \in Nat /\ p.weekly \in Nat /\ p.stop \in BOOLEAN
    /\ \A d \in DOMAIN posted : posted[d] \in 0 .. MaxPosted
    /\ \A p \in Pilots : pilot[p].status \in {"none"} \cup PilotStates

(* What a command about a pilot run answered is on disk until another is   *)
(* answered: a run that was stopped is stopped after a restart, though     *)
(* saves of it or of another run failed on the way.                        *)
PilotAnswered ==
    \A p \in Pilots :
        /\ pilotTold[p].status \in {"completed", "stopped"} => pilotFile[p] = pilotTold[p]
        /\ pilotTold[p] # NoPilot => pilotFile[p] # NoPilot

(* Whatever was planned is for the accounts of the run, by memory and by   *)
(* disk.                                                                   *)
PilotAssigned ==
    \A p \in Pilots : Assigned(pilot[p].accounts, pilot[p].items) /\ Assigned(pilotFile[p].accounts, pilotFile[p].items)

-----------------------------------------------------------------------------
(***************************************************************************)
(* The browser window of an account on the platform without an interface   *)
(* (adapters/xiaohongshu, scripts/open-xhs-session.py): a request to the   *)
(* API is let through by the operator's rules, recorded as a launch, and   *)
(* given to a new runner, or by a file to the one that has the window.     *)
(* The runner prepares a draft for the operator, or clicks for itself when *)
(* it may, and tells the launch how far it has come.                       *)
(*                                                                         *)
(* A request, the runners and the operator at the window go on at the same *)
(* time; the window may be closed and a runner may end at any point.       *)
(*                                                                         *)
(* Left out: selectors and what is on the pages beyond whether they ask    *)
(* for a login and whether their controls are found; covers; messages that *)
(* were scanned; one account only, whose commands have a file of their own.*)
(***************************************************************************)

CONSTANTS
    Launches,  \* launches, each by one request
    OrderOf,   \* launch -> [target, auto, send, stay]
    Runners    \* runners that may be started

VARIABLES
    launch,    \* launch -> [status, submitted], its file
    request,   \* launch -> how far its request is: "new", "let", "spawn", "queue", "done"
    sawRules,  \* launch -> the rules its request was let through by
    queue4,    \* the file of commands
    runner,    \* runner -> [at, first, seen, taken, doing, phase]
    optIn,     \* clicks the environment of the runners allows
    atLogin,   \* the page asks for a login
    editor,    \* what the editor holds: a launch, NoLaunch, or Typed
    clicks,    \* launch -> times its button was clicked
    dropped,   \* launches whose command was lost from the file
    spoiled    \* pairs of a draft that was navigated away from, and the launch that did

launchVars == <<launch, request, sawRules, clicks, spoiled>>
windowVars == <<queue4, runner, optIn, atLogin, editor, dropped>>
sessionVars == <<launchVars, windowVars>>
consoleVars == <<operationVars, sessionVars>>

NoLaunch == "-"
Typed == "typed"
Idle4 == [at |-> "none", first |-> NoLaunch, seen |-> <<>>, taken |-> <<>>, doing |-> NoLaunch, phase |-> "-"]

ASSUME LaunchesNamed == {NoLaunch, Typed} \cap Launches = {}

SessionInit ==
    /\ launch = [j \in Launches |-> [status |-> "none", submitted |-> FALSE]]
    /\ request = [j \in Launches |-> "new"] /\ sawRules = [j \in Launches |-> Unread]
    /\ queue4 = <<>> /\ runner = [r \in Runners |-> Idle4]
    /\ optIn \in SUBSET {"publish", "reply"}
    /\ atLogin = FALSE /\ editor = NoLaunch
    /\ clicks = [j \in Launches |-> 0] /\ dropped = {} /\ spoiled = {}

OpenRunners == {r \in Runners : runner[r].at = "live"}

-----------------------------------------------------------------------------
(* open_xhs_browser()                                                      *)
ActionOf(order) ==
    IF order.target = "publish" THEN IF order.auto THEN "publish" ELSE "prepare_publish"
    ELSE IF order.target = "inbox" /\ order.send THEN "reply" ELSE "none"

LetThrough(j) ==
    /\ request[j] = "new"
    /\ ActionOf(OrderOf[j]) # "none" => Lets(Rules, ActionOf(OrderOf[j]))
    /\ request' = [request EXCEPT ![j] = "let"] /\ sawRules' = [sawRules EXCEPT ![j] = Rules]
    /\ UNCHANGED <<launch, clicks, spoiled, windowVars, operationVars>>

(* launch_operator_session() looks for the browser of the profile, which   *)
(* it may not be allowed to see, and writes the launch.                    *)
RecordLaunch(j, found) ==
    /\ request[j] = "let" /\ found \in {OpenRunners # {}, FALSE}
    /\ OrderOf[j].stay => found
    /\ request' = [request EXCEPT ![j] = IF found THEN "queue" ELSE "spawn"]
    /\ launch' = [launch EXCEPT ![j].status = IF found THEN "command_queued" ELSE "browser_starting"]
    /\ UNCHANGED <<sawRules, clicks, spoiled, windowVars, operationVars>>

(* Its command is appended, whether or not the window is still open.       *)
Enqueue(j) ==
    /\ request[j] = "queue"
    /\ request' = [request EXCEPT ![j] = "done"] /\ queue4' = Append(queue4, j)
    /\ UNCHANGED <<launch, sawRules, clicks, spoiled, runner, optIn, atLogin, editor, dropped, operationVars>>

Spawn(j, r) ==
    /\ request[j] = "spawn" /\ runner[r] = Idle4
    /\ request' = [request EXCEPT ![j] = "done"]
    /\ runner' = [runner EXCEPT ![r] = [Idle4 EXCEPT !.at = "starting", !.first = j]]
    /\ UNCHANGED <<launch, sawRules, clicks, spoiled, queue4, optIn, atLogin, editor, dropped, operationVars>>

-----------------------------------------------------------------------------
Tell(j, status) == launch' = [launch EXCEPT ![j].status = status]
At(r, phase) == runner' = [runner EXCEPT ![r].phase = phase]
DoneWith(r) == runner' = [runner EXCEPT ![r].doing = NoLaunch, ![r].phase = "-"]
Doing(r, phase) == runner[r].at = "live" /\ runner[r].phase = phase
outsideVars == <<request, sawRules, optIn, operationVars>>

(* run_with_status() and run() up to its loop.  A profile another browser  *)
(* has open cannot be opened.                                              *)
OpenWindow(r) ==
    LET j == runner[r].first  what == OrderOf[j].target IN
    /\ runner[r].at = "starting"
    /\ IF OpenRunners # {}
       THEN Tell(j, "failed") /\ runner' = [runner EXCEPT ![r] = Idle4] /\ editor' = editor
       ELSE /\ Tell(j, IF what = "publish" THEN "preparing" ELSE "browser_running")
            /\ runner' = [runner EXCEPT ![r].at = "live", ![r].doing = IF what = "home" THEN NoLaunch ELSE j,
                                        ![r].phase = IF what = "home" THEN "-" ELSE "opened"]
            /\ editor' = NoLaunch
    /\ UNCHANGED <<clicks, spoiled, queue4, atLogin, dropped, outsideVars>>

(* take_commands() reads the file and then empties it.                     *)
ReadQueue(r) ==
    /\ Doing(r, "-") /\ runner[r].taken = <<>> /\ queue4 # <<>>
    /\ runner' = [runner EXCEPT ![r].seen = queue4, ![r].phase = "emptying"]
    /\ UNCHANGED <<launchVars, queue4, atLogin, editor, dropped, optIn, operationVars>>

EmptyQueue(r) ==
    /\ Doing(r, "emptying")
    /\ runner' = [runner EXCEPT ![r].taken = runner[r].seen, ![r].seen = <<>>, ![r].phase = "-"]
    /\ queue4' = <<>> /\ dropped' = dropped \cup (Range(queue4) \ Range(runner[r].seen))
    /\ UNCHANGED <<launchVars, atLogin, editor, optIn, operationVars>>

(* Going to another page of the site leaves what the editor holds.         *)
Leave(j) ==
    /\ editor' = NoLaunch
    /\ spoiled' = IF editor = NoLaunch THEN spoiled ELSE spoiled \cup {<<editor, j>>}

(* has_unsaved_publish_content()                                           *)
Unsaved == editor # NoLaunch

(* handle_command(), up to where it waits for the page.                    *)
BeginCommand(r) ==
    LET j == Head(runner[r].taken)
        begun == [runner EXCEPT ![r].taken = Tail(@), ![r].doing = j, ![r].phase = "opened"]
        over == [runner EXCEPT ![r].taken = Tail(@)]
    IN
    /\ Doing(r, "-") /\ runner[r].taken # <<>>
    /\ CASE OrderOf[j].target = "publish" ->
              /\ runner' = IF atLogin \/ Unsaved THEN over ELSE begun
              /\ Tell(j, IF atLogin THEN "login_required" ELSE IF Unsaved THEN "operator_action_required" ELSE "preparing")
              /\ IF atLogin \/ Unsaved THEN UNCHANGED <<editor, spoiled>> ELSE Leave(j)
         [] OrderOf[j].target = "inbox" ->
              /\ runner' = begun /\ launch' = launch
              /\ IF OrderOf[j].stay THEN UNCHANGED <<editor, spoiled>> ELSE Leave(j)
         [] OTHER -> runner' = over /\ Tell(j, "browser_running") /\ Leave(j)
    /\ UNCHANGED <<clicks, queue4, atLogin, dropped, outsideVars>>

(* prepare_publish(): what it needs is on the page or is not.  A read back *)
(* that differs leaves what was typed.                                     *)
FillDraft(r, well) ==
    LET j == runner[r].doing  goesOn == OrderOf[j].auto /\ "publish" \in optIn IN
    /\ Doing(r, "opened") /\ OrderOf[j].target = "publish"
    /\ IF atLogin \/ ~well
       THEN /\ Tell(j, IF atLogin THEN "login_required" ELSE "operator_action_required")
            /\ DoneWith(r) /\ editor' \in IF atLogin THEN {editor} ELSE {editor, Typed}
       ELSE /\ launch' = [launch EXCEPT ![j] =
                 IF goesOn THEN [@ EXCEPT !.status = "submitting_publish"]
                 ELSE [status |-> "draft_prepared", submitted |-> OrderOf[j].auto]]
            /\ editor' = j
            /\ IF goesOn THEN At(r, "clicking") ELSE DoneWith(r)
    /\ UNCHANGED <<clicks, spoiled, queue4, atLogin, dropped, outsideVars>>

(* submit_publish()                                                        *)
ClickPublish(r, found) ==
    LET j == runner[r].doing IN
    /\ Doing(r, "clicking")
    /\ IF found
       THEN clicks' = [clicks EXCEPT ![j] = @ + 1] /\ editor' = NoLaunch /\ At(r, "clicked") /\ launch' = launch
       ELSE Tell(j, "operator_action_required") /\ DoneWith(r) /\ UNCHANGED <<clicks, editor>>
    /\ UNCHANGED <<spoiled, queue4, atLogin, dropped, outsideVars>>

ReportPublish(r) ==
    /\ Doing(r, "clicked")
    /\ launch' = [launch EXCEPT ![runner[r].doing] = [status |-> "publish_submitted", submitted |-> TRUE]]
    /\ DoneWith(r)
    /\ UNCHANGED <<clicks, spoiled, queue4, atLogin, editor, dropped, outsideVars>>

(* handle_inbox() up to the reply, which is typed for the operator unless  *)
(* it may be sent.                                                         *)
ScanInbox(r, ready) ==
    LET j == runner[r].doing  goesOn == OrderOf[j].send /\ "reply" \in optIn IN
    /\ Doing(r, "opened") /\ OrderOf[j].target = "inbox"
    /\ Tell(j, IF atLogin THEN "login_required" ELSE IF ~ready THEN "inbox_needs_operator"
               ELSE IF goesOn THEN "inbox_scanned" ELSE IF OrderOf[j].send THEN "reply_ready" ELSE "inbox_scanned")
    /\ IF ready /\ ~atLogin /\ goesOn THEN At(r, "replying") ELSE DoneWith(r)
    /\ UNCHANGED <<clicks, spoiled, queue4, atLogin, editor, dropped, outsideVars>>

SendReply(r, found) ==
    LET j == runner[r].doing IN
    /\ Doing(r, "replying")
    /\ IF found
       THEN clicks' = [clicks EXCEPT ![j] = @ + 1] /\ At(r, "replied") /\ launch' = launch
       ELSE Tell(j, "inbox_needs_operator") /\ DoneWith(r) /\ clicks' = clicks
    /\ UNCHANGED <<spoiled, queue4, atLogin, editor, dropped, outsideVars>>

ReportReply(r) ==
    /\ Doing(r, "replied")
    /\ Tell(runner[r].doing, "reply_submitted") /\ DoneWith(r)
    /\ UNCHANGED <<clicks, spoiled, queue4, atLogin, editor, dropped, outsideVars>>

(* The operator closes the window: what the runner does with it fails, the *)
(* commands it has taken too, and it ends.                                 *)
CloseWindow(r) ==
    LET own == runner[r].doing = runner[r].first /\ runner[r].doing # NoLaunch
        hurt == Range(runner[r].taken) \cup {runner[r].doing}
    IN
    /\ runner[r].at = "live" /\ runner[r].phase # "emptying"
    /\ launch' = [j \in Launches |->
         IF j = runner[r].first THEN [launch[j] EXCEPT !.status = IF own THEN "failed" ELSE "browser_closed"]
         ELSE IF j \in hurt THEN [launch[j] EXCEPT !.status = "failed"] ELSE launch[j]]
    /\ runner' = [runner EXCEPT ![r] = Idle4] /\ editor' = NoLaunch
    /\ UNCHANGED <<clicks, spoiled, queue4, atLogin, dropped, outsideVars>>

(* A runner is killed, with what it has taken.                             *)
KillRunner(r) ==
    /\ runner[r].at # "none"
    /\ runner' = [runner EXCEPT ![r] = Idle4]
    /\ editor' = IF runner[r].at = "live" THEN NoLaunch ELSE editor
    /\ dropped' = dropped \cup Range(runner[r].taken) \cup ({runner[r].doing} \ {NoLaunch})
    /\ UNCHANGED <<launchVars, queue4, atLogin, optIn, operationVars>>

(* The operator at the window.                                             *)
Operate ==
    /\ OpenRunners # {}
    /\ \/ atLogin' = ~atLogin /\ editor' = NoLaunch /\ editor = NoLaunch
       \/ atLogin' = atLogin /\ editor' \in {NoLaunch, Typed} /\ editor' # editor
    /\ UNCHANGED <<launchVars, queue4, runner, optIn, dropped, operationVars>>

RunnerStep(r) ==
    \/ OpenWindow(r) \/ ReadQueue(r) \/ EmptyQueue(r) \/ BeginCommand(r)
    \/ ReportPublish(r) \/ ReportReply(r)
    \/ \E well \in BOOLEAN : FillDraft(r, well) \/ ClickPublish(r, well) \/ ScanInbox(r, well) \/ SendReply(r, well)

SessionNext ==
    \/ \E j \in Launches : \/ LetThrough(j) \/ Enqueue(j)
                           \/ \E found \in BOOLEAN : RecordLaunch(j, found)
                           \/ \E r \in Runners : Spawn(j, r)
    \/ \E r \in Runners : RunnerStep(r) \/ CloseWindow(r) \/ KillRunner(r)
    \/ Operate

-----------------------------------------------------------------------------
SessionTypeOK ==
    /\ Range(queue4) \subseteq Launches /\ dropped \subseteq Launches
    /\ \A r \in Runners : runner[r].doing \in Launches \cup {NoLaunch} /\ Range(runner[r].taken) \subseteq Launches
    /\ editor \in Launches \cup {NoLaunch, Typed} /\ atLogin \in BOOLEAN

(* A button is clicked once for a launch at most, whatever files its       *)
(* command went through, and only for one whose request was let through    *)
(* for that very action, by rules under which nothing was stopped.         *)
ClickedOnce ==
    \A j \in Launches :
        /\ clicks[j] <= 1
        /\ clicks[j] = 1 => /\ ~sawRules[j].stop
                            /\ CASE OrderOf[j].target = "publish" -> sawRules[j].submit /\ "publish" \in optIn
                                 [] OTHER -> sawRules[j].reply /\ "reply" \in optIn

(* What was clicked is never told to be a draft that waits, or to wait to  *)
(* be begun.                                                               *)
ClickTold ==
    \A j \in Launches : clicks[j] = 1 =>
        launch[j].status \notin {"draft_prepared", "reply_ready", "preparing", "command_queued", "login_required"}

(* A draft that waits for the operator is not given up for another draft.  *)
DraftKept == \A s \in spoiled : OrderOf[s[2]].target # "publish"

(* A command that is said to be queued is in the file, or with a request   *)
(* or a runner, or was lost as the file was emptied or its runner killed.  *)
QueuedHeld ==
    \A j \in Launches : launch[j].status = "command_queued" =>
        \/ request[j] = "queue" \/ j \in Range(queue4) \/ j \in dropped
        \/ \E r \in Runners : j \in Range(runner[r].taken) \cup {runner[r].doing}
=============================================================================

---------------------------- MODULE ApprovalDesk ----------------------------
(***************************************************************************)
(* The approval desk (modules/approval/service.py), and after it the kill  *)
(* switches that stop what was approved. A request collects the decisions  *)
(* of reviewers until it has its quorum, is refused, withdrawn or expires; *)
(* a granted one is revoked when its override runs out.                    *)
(* Every command runs under the lock of the service, so each is one step.  *)
(*                                                                         *)
(* Left out: diffs, evidence, audit entries, the replay of a command under *)
(* its idempotency key (it changes nothing), and tenants other than one.   *)
(* A command with a stale expected_version is refused, so commands are     *)
(* modelled with the current one and the version itself is left out; with  *)
(* it go assign() and comment(), which otherwise change nothing.           *)
(***************************************************************************)
EXTENDS Integers, Sequences, FiniteSets

CONSTANTS
    Approvals,    \* identifiers of approvals
    People,       \* requesters and reviewers
    Never,        \* an absent expiry
    LastDay,      \* bound of the clock
    Forms,        \* the requests made: quorum, deadline and override
    Overrides     \* the overrides that decisions are given

ASSUME DeskBounds == LastDay \in Nat
ASSUME DeskDeadlines ==
    /\ Never \notin Int
    /\ Overrides \subseteq (0 .. LastDay) \cup {Never}
    /\ Forms \subseteq [quorum : {1, 2}, expires : (0 .. LastDay) \cup {Never},
                        override : (0 .. LastDay) \cup {Never}]

VARIABLES
    today,        \* the clock
    approval,     \* _approvals and _metadata, by identifier
    granted       \* approvals of which a caller was returned an approved copy

deskVars == <<today, approval, granted>>

Days == 0 .. LastDay
Deadlines == Days \cup {Never}

NoApproval == [status |-> "absent"]

Decisions == {"approved", "rejected", "withdrawn"}

Exists(a) == approval[a].status # "absent"
Due(deadline, at) == deadline # Never /\ at >= deadline

DeskTypeOK ==
    /\ today \in Days
    /\ granted \subseteq Approvals
    /\ \A a \in Approvals : Exists(a) =>
         /\ approval[a].status \in {"pending", "approved", "rejected", "revoked", "expired"}
         /\ approval[a].requester \in People
         /\ approval[a].quorum \in {1, 2}
         /\ approval[a].expires \in Deadlines
         /\ approval[a].override \in Deadlines
         /\ approval[a].decisions \subseteq [reviewer : People, decision : Decisions]

DeskInit ==
    /\ today = 0
    /\ approval = [a \in Approvals |-> NoApproval]
    /\ granted = {}

(* request(): a risk of R3 or R4 forces a quorum of two; a deadline that   *)
(* has passed makes the request expired from the start.                    *)
Request(a, p, form) ==
    /\ ~Exists(a)
    /\ ~Due(form.override, today)
    /\ approval' = [approval EXCEPT ![a] =
         [status |-> IF Due(form.expires, today) THEN "expired" ELSE "pending",
          requester |-> p, quorum |-> form.quorum, expires |-> form.expires,
          override |-> form.override, decisions |-> {}]]
    /\ UNCHANGED <<today, granted>>

Expired(r, at) == r.status = "pending" /\ Due(r.expires, at)
OverrideEnded(r, at) == r.status = "approved" /\ Due(r.override, at)

(* _expire_locked().                                                       *)
Aged(r, at) ==
    IF Expired(r, at) THEN [r EXCEPT !.status = "expired"]
    ELSE IF OverrideEnded(r, at) THEN [r EXCEPT !.status = "revoked"]
    ELSE r

(* expire() and view(), which expires before it shows.                     *)
View(a, at) ==
    /\ Exists(a)
    /\ approval' = [approval EXCEPT ![a] = Aged(@, at)]
    /\ UNCHANGED <<today, granted>>

Reviewers(r) == {d.reviewer : d \in r.decisions}
Approving(ds) == Cardinality({d \in ds : d.decision = "approved"})

MayDecide(r, p) == r.status = "pending" /\ p # r.requester /\ p \notin Reviewers(r)

(* What a decision makes of a request: a refusal and a withdrawal close it *)
(* at once, an approval when the quorum is reached; only the approval that *)
(* completes the quorum can replace the override.                          *)
Decided(r, p, d, override) ==
    LET all == r.decisions \cup {[reviewer |-> p, decision |-> d]}
        done == d = "approved" /\ Approving(all) >= r.quorum
    IN  [r EXCEPT !.decisions = all,
                  !.status = CASE d = "rejected" -> "rejected"
                               [] d = "withdrawn" -> "revoked"
                               [] done -> "approved"
                               [] OTHER -> @,
                  !.override = IF done /\ override # Never THEN override ELSE @]

(* decide(): the deadline is applied first, and a decision that finds the  *)
(* request aged by it is refused with the ageing kept. decided_at is given *)
(* by the caller and may lie in the past.                                  *)
Decide(a, p, d, at, override) ==
    /\ Exists(a)
    /\ at <= today
    /\ LET r == approval[a] IN
       \/ /\ Aged(r, at) # r
          /\ approval' = [approval EXCEPT ![a] = Aged(r, at)]
          /\ UNCHANGED granted
       \/ /\ Aged(r, at) = r
          /\ MayDecide(r, p)
          /\ ~Due(override, at)
          /\ approval' = [approval EXCEPT ![a] = Decided(r, p, d, override)]
          /\ granted' = IF Decided(r, p, d, override).status = "approved"
                        THEN granted \cup {a} ELSE granted
    /\ UNCHANGED today

NextDay == today < LastDay /\ today' = today + 1 /\ UNCHANGED <<approval, granted>>

DeskNext ==
    \/ NextDay
    \/ \E a \in Approvals :
         \/ \E p \in People, form \in Forms : Request(a, p, form)
         \/ \E at \in Days : at <= today /\ View(a, at)
         \/ \E p \in People, d \in Decisions, at \in Days, o \in Overrides : Decide(a, p, d, at, o)

-----------------------------------------------------------------------------
(***************************************************************************)
(* The kill switches of distribution (modules/distribution/killswitch.py). *)
(* set_kill_switch() reads the current version before it takes the lock    *)
(* and writes under it; guard() reads one switch after the other without   *)
(* the lock and decides under it, remembering its decision by key. Every   *)
(* read and every locked section is a step of its own.                     *)
(***************************************************************************)

CONSTANTS
    ScopeOrder,   \* the scopes a guard reads, in the order of the reads
    SideEffects,  \* delivery modes with a side effect, which switches block
    SafeModes,    \* delivery modes without one
    BlockLists,   \* the lists of modes that switches are given
    Callers,      \* threads that execute intents
    Operators,    \* threads that set switches
    Keys,         \* idempotency keys of executions
    MaxSwitch     \* bound on the version of a switch

Scopes == {ScopeOrder[n] : n \in 1 .. Len(ScopeOrder)}
Modes == SideEffects \cup SafeModes

ASSUME SwitchBounds ==
    /\ MaxSwitch \in Nat
    /\ ScopeOrder \in Seq(Scopes) /\ Len(ScopeOrder) > 0
    /\ BlockLists \subseteq SUBSET (SideEffects \cup SafeModes)

VARIABLES
    switch,       \* switches: version, whether it is paused, blocked modes
    setter,       \* what an operator's call read before its lock
    guard,        \* how far a caller's guard() has read
    verdict,      \* _commands of the guard: its decision by key
    watch         \* history: the scopes paused all through a guard that is under way

switchVars == <<switch, setter, guard, verdict, watch>>

Idle == [at |-> "idle"]
NoVerdict == [at |-> "none"]

Blocks(s, m) == switch[s].paused /\ m \in switch[s].modes

SwitchTypeOK ==
    /\ switch \in [Scopes -> [version : 0 .. MaxSwitch + 1, paused : BOOLEAN, modes : SUBSET Modes]]
    /\ \A o \in Operators : setter[o] # Idle => setter[o].scope \in Scopes
    /\ \A c \in Callers : guard[c].at \in {"idle", "reading", "allowed", "refused"}
    /\ watch \in [Callers -> SUBSET Scopes]

SwitchInit ==
    /\ switch = [s \in Scopes |-> [version |-> 0, paused |-> FALSE, modes |-> {}]]
    /\ setter = [o \in Operators |-> Idle]
    /\ guard = [c \in Callers |-> Idle]
    /\ verdict = [k \in Keys |-> NoVerdict]
    /\ watch = [c \in Callers |-> {}]

(* set_kill_switch() up to the lock: the expected version is compared with *)
(* the version read here.                                                  *)
SetRead(o, s, pause, modes) ==
    /\ setter[o] = Idle
    /\ switch[s].version < MaxSwitch
    /\ setter' = [setter EXCEPT ![o] =
         [at |-> "set", scope |-> s, paused |-> pause, modes |-> modes, base |-> switch[s].version]]
    /\ UNCHANGED <<switch, guard, verdict, watch>>

NewSwitch(w) ==
    [version |-> w.base + 1, paused |-> w.paused, modes |-> IF w.paused THEN w.modes ELSE {}]

(* set_kill_switch() under the lock.                                       *)
SetWrite(o) ==
    /\ setter[o] # Idle
    /\ switch' = [switch EXCEPT ![setter[o].scope] = NewSwitch(setter[o])]
    /\ setter' = [setter EXCEPT ![o] = Idle]
    /\ watch' = [c \in Callers |->
         IF guard[c].at # "reading" THEN watch[c]
         ELSE {s \in watch[c] : switch'[s].paused /\ guard[c].mode \in switch'[s].modes}]
    /\ UNCHANGED <<guard, verdict>>

(* guard() is entered with the key of the execution.                       *)
GuardEnter(c, k, m) ==
    /\ guard[c] = Idle
    /\ guard' = [guard EXCEPT ![c] = [at |-> "reading", key |-> k, mode |-> m, read |-> <<>>]]
    /\ watch' = [watch EXCEPT ![c] = {s \in Scopes : Blocks(s, m)}]
    /\ UNCHANGED <<switch, setter, verdict>>

(* get_kill_switch() of the next scope.                                    *)
GuardRead(c) ==
    /\ guard[c].at = "reading"
    /\ Len(guard[c].read) < Len(ScopeOrder)
    /\ guard' = [guard EXCEPT ![c].read = Append(@, switch[ScopeOrder[Len(@) + 1]])]
    /\ UNCHANGED <<switch, setter, verdict, watch>>

PausedRead(g) ==
    {<<ScopeOrder[n], g.read[n].version>> : n \in
        {n \in DOMAIN g.read : g.read[n].paused /\ g.mode \in g.read[n].modes}}

NewVerdict(g) ==
    [at |-> "decided", mode |-> g.mode, paused |-> PausedRead(g),
     allowed |-> PausedRead(g) = {} \/ g.mode \notin SideEffects]

(* Mutant: the decision of a key is returned whatever the switches say.    *)
VerdictByKey(g) == IF verdict[g.key] = NoVerdict THEN NewVerdict(g) ELSE verdict[g.key]

(* What the locked section answers: the digest of a key covers the mode    *)
(* and the paused switches with their versions, so a key whose switches    *)
(* changed is refused as reused.                                           *)
Verdict(g) ==
    IF verdict[g.key] = NoVerdict THEN NewVerdict(g)
    ELSE IF verdict[g.key].paused = PausedRead(g) /\ verdict[g.key].mode = g.mode
         THEN verdict[g.key]
         ELSE [NewVerdict(g) EXCEPT !.allowed = FALSE]

GuardDecide(c) ==
    /\ guard[c].at = "reading"
    /\ Len(guard[c].read) = Len(ScopeOrder)
    /\ LET g == guard[c] IN
       /\ verdict' = IF verdict[g.key] = NoVerdict
                     THEN [verdict EXCEPT ![g.key] = NewVerdict(g)] ELSE verdict
       /\ guard' = [guard EXCEPT ![c].at = IF Verdict(g).allowed THEN "allowed" ELSE "refused"]
    /\ UNCHANGED <<switch, setter, watch>>

SwitchNext ==
    \/ \E o \in Operators : SetWrite(o)
    \/ \E o \in Operators, s \in Scopes, p \in BOOLEAN, modes \in BlockLists : SetRead(o, s, p, modes)
    \/ \E c \in Callers : GuardRead(c) \/ GuardDecide(c)
=============================================================================

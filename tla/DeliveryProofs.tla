--------------------------- MODULE DeliveryProofs ---------------------------
(***************************************************************************)
(* Proofs about Distribution (the approval desk, the kill switches and the *)
(* execution of intents) for every set of approvals, people, scopes,       *)
(* callers, intents and keys and every bound; about FakeDelivery for every *)
(* set of publications, threads and operators; and what the services that  *)
(* let a delivery through keep by themselves: PolicyGate, TokenLeases,     *)
(* Accounts and Handover, each with an invariant, the lemma that it starts *)
(* so, that every command keeps it, and what follows from it. KeptProofs   *)
(* puts these together.                                                    *)
(***************************************************************************)
EXTENDS Distribution, FakeDelivery, PolicyGate, TokenLeases, Accounts, Handover,
        FiniteSetTheorems, SequenceTheorems, FunctionTheorems, WellFoundedInduction, TLAPS

-----------------------------------------------------------------------------
(* The desk *)

Requests ==
    [status : {"pending", "approved", "rejected", "revoked", "expired"}, requester : People,
     quorum : {1, 2}, expires : Deadlines, override : Deadlines,
     decisions : SUBSET [reviewer : People, decision : Decisions]]

\* What the decisions of a request always are: one of a reviewer, none of the
\* requester, and approvals as long as the request is open.
DecisionsSound(r) ==
    /\ IsFiniteSet(r.decisions)
    /\ \A d \in r.decisions : d.reviewer # r.requester
    /\ \A d, e \in r.decisions : d.reviewer = e.reviewer => d = e
    /\ r.status = "pending" => \A d \in r.decisions : d.decision = "approved"

\* A request that was granted, whatever became of it since.
Completed(r) ==
    /\ r.status \in {"approved", "revoked"}
    /\ Cardinality(Reviewers(r) \ {r.requester}) >= r.quorum
    /\ \A d \in r.decisions : d.decision = "approved"

DeskInv ==
    /\ today \in Days
    /\ approval \in [Approvals -> Requests \cup {NoApproval}]
    /\ \A a \in Approvals : Exists(a) => DecisionsSound(approval[a])
    /\ granted \subseteq {a \in Approvals : Exists(a) /\ Completed(approval[a])}

\* A request is none that is absent.
LEMMA RequestsExist ==
    /\ NoApproval \notin Requests
    /\ \A a \in Approvals : DeskInv => (Exists(a) <=> approval[a] \in Requests)
BY DEF NoApproval, Requests, DeskInv, Exists

\* There are as many reviewers as decisions, none being the requester.
LEMMA OneDecisionEach ==
    ASSUME NEW r \in Requests, DecisionsSound(r)
    PROVE  /\ Reviewers(r) \ {r.requester} = Reviewers(r)
           /\ Cardinality(Reviewers(r)) = Cardinality(r.decisions)
<1>1. Reviewers(r) \ {r.requester} = Reviewers(r)
  BY DEF Reviewers, DecisionsSound
<1> DEFINE f == [d \in r.decisions |-> d.reviewer]
<1>2. f \in Bijection(r.decisions, Reviewers(r))
  <2>1. f \in [r.decisions -> Reviewers(r)]
    BY DEF Reviewers
  <2>2. \A d, e \in r.decisions : f[d] = f[e] => d = e
    BY DEF DecisionsSound
  <2>3. \A p \in Reviewers(r) : \E d \in r.decisions : f[d] = p
    BY DEF Reviewers
  <2> QED BY <2>1, <2>2, <2>3 DEF Bijection, Injection, Surjection, IsInjective
<1>3. Cardinality(Reviewers(r)) = Cardinality(r.decisions)
  BY <1>2, FS_Bijection DEF ExistsBijection, DecisionsSound
<1> QED BY <1>1, <1>3

\* Ageing changes the status alone, and never reopens a request.
LEMMA AgedSound ==
    ASSUME NEW r \in Requests, NEW at \in Int, DecisionsSound(r)
    PROVE  /\ Aged(r, at) \in Requests
           /\ DecisionsSound(Aged(r, at))
           /\ Completed(r) => Completed(Aged(r, at))
<1>1. \/ Aged(r, at) = r
      \/ r.status = "pending" /\ Aged(r, at) = [r EXCEPT !.status = "expired"]
      \/ r.status = "approved" /\ Aged(r, at) = [r EXCEPT !.status = "revoked"]
  BY DEF Aged, Expired, OverrideEnded
<1> QED BY <1>1 DEF Requests, DecisionsSound, Completed, Reviewers

\* A decision on an open request keeps the decisions sound, and one that grants
\* it has found its quorum.
LEMMA DecidedSound ==
    ASSUME NEW r \in Requests, DecisionsSound(r), NEW p \in People, NEW d \in Decisions,
           NEW override \in Overrides, MayDecide(r, p)
    PROVE  /\ Decided(r, p, d, override) \in Requests
           /\ DecisionsSound(Decided(r, p, d, override))
           /\ Decided(r, p, d, override).status = "approved" => Completed(Decided(r, p, d, override))
<1> DEFINE new == [reviewer |-> p, decision |-> d]
           all == r.decisions \cup {new}
           s == Decided(r, p, d, override)
<1>1. r.status = "pending" /\ p # r.requester /\ p \notin Reviewers(r)
  BY DEF MayDecide
<1>2. override \in Deadlines
  BY DeskDeadlines DEF Deadlines, Days
<1> DEFINE done == d = "approved" /\ Approving(all) >= r.quorum
           status == CASE d = "rejected" -> "rejected"
                       [] d = "withdrawn" -> "revoked"
                       [] done -> "approved"
                       [] OTHER -> r.status
<1>a. s = [r EXCEPT !.decisions = all, !.status = status,
                    !.override = IF done /\ override # Never THEN override ELSE r.override]
  BY DEF Decided
<1>b. /\ status \in {"rejected", "revoked", "approved", "pending"}
      /\ status = "approved" => done
      /\ status = "pending" => d = "approved"
  <2> HIDE DEF done
  <2> QED BY <1>1 DEF Decisions
<1> HIDE DEF done, status
<1>3. /\ s \in Requests
      /\ s.decisions = all /\ s.requester = r.requester /\ s.quorum = r.quorum /\ s.status = status
  <2> DEFINE over == IF done /\ override # Never THEN override ELSE r.override
  <2>1. over \in Deadlines
    BY <1>2 DEF Requests
  <2>2. all \in SUBSET [reviewer : People, decision : Decisions]
    BY DEF Requests
  <2>3. s = [r EXCEPT !.decisions = all, !.status = status, !.override = over]
    BY <1>a
  <2> HIDE DEF over, all
  <2> QED BY <1>b, <2>1, <2>2, <2>3 DEF Requests
<1> HIDE DEF s
<1>4. IsFiniteSet(all)
  BY FS_AddElement DEF DecisionsSound
<1>5. \A e \in r.decisions : e.reviewer # p
  BY <1>1 DEF Reviewers
<1>6. DecisionsSound(s)
  <2>1. \A e \in all : e.reviewer # r.requester
    BY <1>1 DEF DecisionsSound
  <2>2. \A e, g \in all : e.reviewer = g.reviewer => e = g
    BY <1>5 DEF DecisionsSound
  <2>3. s.status = "pending" => \A e \in all : e.decision = "approved"
    BY <1>1, <1>3, <1>b DEF DecisionsSound
  <2> QED BY <1>3, <1>4, <2>1, <2>2, <2>3 DEF DecisionsSound
<1>7. ASSUME s.status = "approved" PROVE Completed(s)
  <2>1. d = "approved" /\ Approving(all) >= r.quorum
    BY <1>3, <1>b, <1>7 DEF done
  <2>2. \A e \in all : e.decision = "approved"
    BY <1>1, <2>1 DEF DecisionsSound
  <2>3. {e \in all : e.decision = "approved"} = all
    BY <2>2
  <2>4. Cardinality(all) >= r.quorum
    BY <2>1, <2>3 DEF Approving
  <2>5. Cardinality(Reviewers(s) \ {s.requester}) >= s.quorum
    BY <1>3, <1>6, <2>4, OneDecisionEach
  <2> QED BY <1>3, <1>7, <2>2, <2>5 DEF Completed
<1> QED BY <1>3, <1>6, <1>7 DEF s

LEMMA DeskStarts == DeskInit => DeskInv
BY DeskBounds DEF DeskInit, DeskInv, Days, Exists, NoApproval

\* What a command may make of one request.
LEMMA RequestReplaced ==
    ASSUME DeskInv, NEW a \in Approvals, NEW r \in Requests, DecisionsSound(r),
           approval' = [approval EXCEPT ![a] = r], today' = today,
           granted' \subseteq granted \cup {a}, a \in granted' => Completed(r)
    PROVE  DeskInv'
<1>1. approval' \in [Approvals -> Requests \cup {NoApproval}]
  BY DEF DeskInv
<1>2. \A b \in Approvals : approval'[b] = IF b = a THEN r ELSE approval[b]
  BY DEF DeskInv
<1>3. \A b \in Approvals : Exists(b)' => DecisionsSound(approval'[b])
  BY <1>2 DEF DeskInv, Exists
<1>4. \A b \in granted' : b \in Approvals /\ Exists(b)' /\ Completed(approval'[b])
  BY <1>2, RequestsExist DEF DeskInv, Exists, Requests
<1> QED BY <1>1, <1>3, <1>4 DEF DeskInv

LEMMA DeskKeeps == ASSUME DeskInv, [DeskNext]_deskVars PROVE DeskInv'
<1>1. CASE UNCHANGED deskVars
  BY <1>1 DEF deskVars, DeskInv, Exists
<1>2. CASE NextDay
  BY <1>2, DeskBounds DEF NextDay, DeskInv, Exists, Days
<1>3. ASSUME NEW a \in Approvals, NEW p \in People, NEW form \in Forms, Request(a, p, form)
      PROVE  DeskInv'
  <2> DEFINE r == [status |-> IF Due(form.expires, today) THEN "expired" ELSE "pending",
                   requester |-> p, quorum |-> form.quorum, expires |-> form.expires,
                   override |-> form.override, decisions |-> {}]
  <2>1. r \in Requests
    BY DeskDeadlines DEF Requests, Deadlines, Days
  <2>2. DecisionsSound(r)
    BY FS_EmptySet DEF DecisionsSound
  <2>3. approval' = [approval EXCEPT ![a] = r] /\ UNCHANGED <<today, granted>> /\ a \notin granted
    BY <1>3 DEF Request, DeskInv
  <2> HIDE DEF r
  <2> QED BY <2>1, <2>2, <2>3, RequestReplaced
<1>4. ASSUME NEW a \in Approvals, NEW at \in Days, Exists(a),
             approval' = [approval EXCEPT ![a] = Aged(approval[a], at)], UNCHANGED <<today, granted>>
      PROVE  DeskInv'
  <2>1. approval[a] \in Requests /\ DecisionsSound(approval[a]) /\ at \in Int
    BY <1>4, RequestsExist, DeskBounds DEF DeskInv, Days
  <2>2. /\ Aged(approval[a], at) \in Requests /\ DecisionsSound(Aged(approval[a], at))
        /\ Completed(approval[a]) => Completed(Aged(approval[a], at))
    BY <2>1, AgedSound
  <2>3. a \in granted' => Completed(approval[a])
    BY <1>4 DEF DeskInv
  <2> QED BY <1>4, <2>2, <2>3, RequestReplaced
<1>5. ASSUME NEW a \in Approvals, NEW p \in People, NEW d \in Decisions, NEW at \in Days,
             NEW o \in Overrides, Decide(a, p, d, at, o)
      PROVE  DeskInv'
  <2> DEFINE r == approval[a]
  <2>1. r \in Requests /\ DecisionsSound(r)
    BY <1>5, RequestsExist DEF Decide, DeskInv
  <2>2. CASE approval' = [approval EXCEPT ![a] = Aged(r, at)] /\ UNCHANGED granted
    BY <1>4, <1>5, <2>2 DEF Decide
  <2>3. CASE /\ MayDecide(r, p)
             /\ approval' = [approval EXCEPT ![a] = Decided(r, p, d, o)]
             /\ granted' = IF Decided(r, p, d, o).status = "approved" THEN granted \cup {a} ELSE granted
    <3>1. /\ Decided(r, p, d, o) \in Requests /\ DecisionsSound(Decided(r, p, d, o))
          /\ Decided(r, p, d, o).status = "approved" => Completed(Decided(r, p, d, o))
      BY <2>1, <2>3, DecidedSound
    <3>2. a \notin granted
      BY <2>3 DEF MayDecide, DeskInv, Completed
    <3>3. /\ granted' \subseteq granted \cup {a}
          /\ a \in granted' => Completed(Decided(r, p, d, o))
      BY <2>3, <3>1, <3>2
    <3> QED BY <1>5, <2>3, <3>1, <3>3, RequestReplaced DEF Decide
  <2> QED BY <1>5, <2>2, <2>3 DEF Decide
<1>6. ASSUME NEW a \in Approvals, NEW at \in Days, View(a, at) PROVE DeskInv'
  BY <1>4, <1>6 DEF View
<1> QED BY <1>1, <1>2, <1>3, <1>5, <1>6 DEF DeskNext

-----------------------------------------------------------------------------
(* The kill switches *)

Switches == [version : 0 .. MaxSwitch, paused : BOOLEAN, modes : SUBSET Modes]
Settings == [at : {"set"}, scope : Scopes, paused : BOOLEAN, modes : SUBSET Modes, base : 0 .. MaxSwitch - 1]
Guards == [at : {"reading", "allowed", "refused"}, key : Keys, mode : Modes, read : Seq(Switches)]
Verdicts == [at : {"decided"}, mode : Modes, paused : SUBSET (Scopes \X Nat), allowed : BOOLEAN]

\* A guard that is reading has found every scope paused that it has read and
\* that was paused all the time, and one that allows a side effect found none.
GuardSound(c) ==
    LET g == guard[c] IN
    /\ g.at = "reading" =>
         /\ Len(g.read) <= Len(ScopeOrder)
         /\ \A s \in watch[c] : Blocks(s, g.mode)
         /\ \A n \in 1 .. Len(g.read) : ScopeOrder[n] \in watch[c] => g.read[n].paused /\ g.mode \in g.read[n].modes
    /\ g.at = "allowed" => g.mode \notin SideEffects \/ watch[c] = {}

\* A decision that is remembered allows a side effect only if nothing was paused.
VerdictSound(k) == verdict[k] # NoVerdict => (verdict[k].allowed => verdict[k].paused = {} \/ verdict[k].mode \notin SideEffects)

SwitchInv ==
    /\ switch \in [Scopes -> Switches]
    /\ setter \in [Operators -> Settings \cup {Idle}]
    /\ guard \in [Callers -> Guards \cup {Idle}]
    /\ verdict \in [Keys -> Verdicts \cup {NoVerdict}]
    /\ watch \in [Callers -> SUBSET Scopes]
    /\ \A c \in Callers : guard[c] # Idle => GuardSound(c)
    /\ \A k \in Keys : VerdictSound(k)

LEMMA NullsDiffer == Idle \notin Settings /\ Idle \notin Guards /\ NoVerdict \notin Verdicts
BY DEF Idle, NoVerdict, Settings, Guards, Verdicts

LEMMA SwitchStarts == SwitchInit => SwitchInv
BY SwitchBounds DEF SwitchInit, SwitchInv, Switches, Modes, Idle, NoVerdict, VerdictSound

\* Every scope has its place in the order of the reads.
LEMMA ScopesOrdered ==
    /\ Len(ScopeOrder) \in Nat
    /\ \A n \in 1 .. Len(ScopeOrder) : ScopeOrder[n] \in Scopes
    /\ \A s \in Scopes : \E n \in 1 .. Len(ScopeOrder) : s = ScopeOrder[n]
BY SwitchBounds DEF Scopes

\* What the locked section answers is sound, and so is what it remembers.
LEMMA VerdictAnswers ==
    ASSUME SwitchInv, NEW g \in Guards, Len(g.read) = Len(ScopeOrder)
    PROVE  /\ NewVerdict(g) \in Verdicts
           /\ NewVerdict(g).allowed => NewVerdict(g).paused = {} \/ g.mode \notin SideEffects
           /\ Verdict(g).allowed => PausedRead(g) = {} \/ g.mode \notin SideEffects
<1>1. PausedRead(g) \in SUBSET (Scopes \X Nat)
  <2> SUFFICES ASSUME NEW n \in DOMAIN g.read PROVE <<ScopeOrder[n], g.read[n].version>> \in Scopes \X Nat
    BY DEF PausedRead
  <2>1. n \in 1 .. Len(ScopeOrder) /\ g.read[n] \in Switches
    BY DEF Guards
  <2>2. g.read[n].version \in Nat
    BY <2>1, SwitchBounds DEF Switches
  <2> QED BY <2>1, <2>2, ScopesOrdered
<1>2. /\ NewVerdict(g) \in Verdicts
      /\ NewVerdict(g).paused = PausedRead(g)
      /\ NewVerdict(g).allowed => PausedRead(g) = {} \/ g.mode \notin SideEffects
  BY <1>1 DEF NewVerdict, Verdicts, Guards
<1>3. Verdict(g).allowed => PausedRead(g) = {} \/ g.mode \notin SideEffects
  <2>1. VerdictSound(g.key) /\ verdict[g.key] \in Verdicts \cup {NoVerdict}
    BY DEF SwitchInv, Guards
  <2>2. [NewVerdict(g) EXCEPT !.allowed = FALSE].allowed = FALSE
    BY <1>2 DEF Verdicts
  <2> QED BY <1>2, <2>1, <2>2 DEF Verdict, VerdictSound
<1> QED BY <1>2, <1>3

LEMMA SwitchKeeps == ASSUME SwitchInv, [SwitchNext]_switchVars PROVE SwitchInv'
<1> USE NullsDiffer
<1>1. CASE UNCHANGED switchVars
  BY <1>1 DEF switchVars, SwitchInv, GuardSound, VerdictSound, Blocks
<1>2. ASSUME NEW o \in Operators, SetWrite(o) PROVE SwitchInv'
  <2> DEFINE w == setter[o]
  <2>1. w \in Settings
    BY <1>2 DEF SetWrite, SwitchInv
  <2>2. NewSwitch(w) \in Switches
    BY <2>1, SwitchBounds DEF NewSwitch, Settings, Switches
  <2>3. switch' \in [Scopes -> Switches] /\ setter' \in [Operators -> Settings \cup {Idle}]
    BY <1>2, <2>1, <2>2 DEF SetWrite, SwitchInv
  <2>4. watch' \in [Callers -> SUBSET Scopes]
    BY <1>2 DEF SetWrite, SwitchInv
  <2>5. ASSUME NEW c \in Callers, guard'[c] # Idle PROVE GuardSound(c)'
    <3>1. GuardSound(c) /\ guard'[c] = guard[c]
      BY <1>2, <2>5 DEF SetWrite, SwitchInv
    <3>2. watch'[c] = IF guard[c].at # "reading" THEN watch[c]
                      ELSE {s \in watch[c] : switch'[s].paused /\ guard[c].mode \in switch'[s].modes}
      BY <1>2 DEF SetWrite
    <3> QED BY <3>1, <3>2 DEF GuardSound, Blocks
  <2> QED BY <1>2, <2>3, <2>4, <2>5 DEF SetWrite, SwitchInv, VerdictSound
<1>3. ASSUME NEW o \in Operators, NEW s \in Scopes, NEW p \in BOOLEAN, NEW modes \in BlockLists,
             SetRead(o, s, p, modes)
      PROVE  SwitchInv'
  <2> DEFINE w == [at |-> "set", scope |-> s, paused |-> p, modes |-> modes, base |-> switch[s].version]
  <2>1. switch[s] \in Switches /\ modes \in SUBSET Modes
    BY SwitchBounds DEF SwitchInv, Modes
  <2>2. w \in Settings
    BY <1>3, <2>1, SwitchBounds DEF SetRead, Settings, Switches
  <2>3. setter' = [setter EXCEPT ![o] = w] /\ UNCHANGED <<switch, guard, verdict, watch>>
    BY <1>3 DEF SetRead
  <2> HIDE DEF w
  <2> QED BY <2>2, <2>3 DEF SwitchInv, GuardSound, VerdictSound, Blocks
<1>4. ASSUME NEW c \in Callers, GuardRead(c) PROVE SwitchInv'
  <2> DEFINE g == guard[c]
             n == Len(g.read) + 1
             h == [g EXCEPT !.read = Append(@, switch[ScopeOrder[n]])]
  <2>1. g \in Guards /\ g.at = "reading" /\ Len(g.read) < Len(ScopeOrder) /\ GuardSound(c)
    BY <1>4 DEF GuardRead, SwitchInv, Idle
  <2>2. n \in 1 .. Len(ScopeOrder) /\ ScopeOrder[n] \in Scopes /\ Len(g.read) \in Nat /\ g.read \in Seq(Switches)
    BY <2>1, ScopesOrdered DEF Guards
  <2>3. switch[ScopeOrder[n]] \in Switches
    BY <2>2 DEF SwitchInv
  <2>4. h \in Guards /\ h.at = "reading" /\ h.mode = g.mode
        /\ h.read = Append(g.read, switch[ScopeOrder[n]])
    <3> DEFINE x == switch[ScopeOrder[n]]
    <3>1. Append(g.read, x) \in Seq(Switches)
      <4> HIDE DEF x
      <4> QED BY <2>2, <2>3 DEF x
    <3> HIDE DEF x
    <3>2. h = [g EXCEPT !.read = Append(@, x)]
      BY DEF x
    <3>3. h.read = Append(g.read, x) /\ h.at = g.at /\ h.mode = g.mode /\ h \in Guards
      BY <2>1, <3>1, <3>2 DEF Guards
    <3> QED BY <2>1, <3>3 DEF x
  <2>5. guard' = [guard EXCEPT ![c] = h] /\ UNCHANGED <<switch, setter, verdict, watch>>
    BY <1>4 DEF GuardRead
  <2>6. /\ Len(h.read) = n
        /\ \A m \in 1 .. n : h.read[m] = IF m = n THEN switch[ScopeOrder[n]] ELSE g.read[m]
    BY <2>2, <2>3, <2>4
  <2> HIDE DEF h
  <2>7. GuardSound(c)'
    <3>1. guard'[c] = h /\ watch'[c] = watch[c] /\ switch' = switch
      BY <2>5 DEF SwitchInv
    <3>2. \A m \in 1 .. n : ScopeOrder[m] \in watch[c] => h.read[m].paused /\ h.mode \in h.read[m].modes
      <4> SUFFICES ASSUME NEW m \in 1 .. n, ScopeOrder[m] \in watch[c]
                   PROVE  h.read[m].paused /\ h.mode \in h.read[m].modes
        OBVIOUS
      <4>1. CASE m = n
        BY <2>1, <2>4, <2>6, <4>1 DEF GuardSound, Blocks
      <4>2. CASE m # n
        <5>1. m \in 1 .. Len(g.read)
          BY <2>2, <4>2
        <5>2. h.read[m] = g.read[m]
          BY <2>6, <4>2
        <5>3. g.read[m].paused /\ g.mode \in g.read[m].modes
          BY <2>1, <5>1 DEF GuardSound
        <5> QED BY <2>4, <5>2, <5>3
      <4> QED BY <4>1, <4>2
    <3>3. /\ Len(h.read) <= Len(ScopeOrder)
          /\ \A s \in watch[c] : Blocks(s, h.mode)
      BY <2>1, <2>2, <2>4, <2>6 DEF GuardSound
    <3> QED BY <2>4, <2>6, <3>1, <3>2, <3>3 DEF GuardSound, Blocks
  <2>8. \A d \in Callers \ {c} : guard'[d] # Idle => GuardSound(d)'
    BY <2>5 DEF SwitchInv, GuardSound, Blocks
  <2> QED BY <2>4, <2>5, <2>7, <2>8 DEF SwitchInv, VerdictSound
<1>5. ASSUME NEW c \in Callers, GuardDecide(c) PROVE SwitchInv'
  <2> DEFINE g == guard[c]
             h == [g EXCEPT !.at = IF Verdict(g).allowed THEN "allowed" ELSE "refused"]
  <2>1. g \in Guards /\ g.at = "reading" /\ Len(g.read) = Len(ScopeOrder) /\ GuardSound(c)
    BY <1>5 DEF GuardDecide, SwitchInv, Idle
  <2>2. /\ NewVerdict(g) \in Verdicts
        /\ NewVerdict(g).allowed => NewVerdict(g).paused = {} \/ g.mode \notin SideEffects
        /\ Verdict(g).allowed => PausedRead(g) = {} \/ g.mode \notin SideEffects
        /\ NewVerdict(g).mode = g.mode
    BY <2>1, VerdictAnswers DEF NewVerdict
  <2>3. PausedRead(g) = {} => watch[c] = {}
    <3> SUFFICES ASSUME NEW s \in watch[c] PROVE PausedRead(g) # {}
      OBVIOUS
    <3>1. PICK n \in 1 .. Len(ScopeOrder) : s = ScopeOrder[n]
      BY ScopesOrdered DEF SwitchInv
    <3>2. n \in DOMAIN g.read /\ g.read[n].paused /\ g.mode \in g.read[n].modes
      BY <2>1, <3>1 DEF GuardSound, Guards
    <3> QED BY <3>2 DEF PausedRead
  <2>4. /\ guard' = [guard EXCEPT ![c] = h]
        /\ verdict' = IF verdict[g.key] = NoVerdict THEN [verdict EXCEPT ![g.key] = NewVerdict(g)] ELSE verdict
        /\ UNCHANGED <<switch, setter, watch>>
    BY <1>5 DEF GuardDecide
  <2>5. /\ h \in Guards /\ h.at \in {"allowed", "refused"} /\ h.mode = g.mode
        /\ h.at = "allowed" => Verdict(g).allowed
    BY <2>1 DEF Guards
  <2> HIDE DEF h
  <2>6. GuardSound(c)'
    <3>1. guard'[c] = h /\ watch'[c] = watch[c]
      BY <2>4 DEF SwitchInv
    <3> QED BY <2>2, <2>3, <2>5, <3>1 DEF GuardSound
  <2>7. \A d \in Callers \ {c} : guard'[d] # Idle => GuardSound(d)'
    BY <2>4 DEF SwitchInv, GuardSound, Blocks
  <2>8. g.key \in Keys
    BY <2>1 DEF Guards
  <2>9. verdict' \in [Keys -> Verdicts \cup {NoVerdict}] /\ \A k \in Keys : VerdictSound(k)'
    BY <2>2, <2>4, <2>8 DEF SwitchInv, VerdictSound
  <2> QED BY <2>4, <2>5, <2>6, <2>7, <2>9 DEF SwitchInv
<1> QED BY <1>1, <1>2, <1>3, <1>4, <1>5 DEF SwitchNext

-----------------------------------------------------------------------------
(* The execution of intents *)

Calls == [at : {"slice", "gate"}, intent : Intents, key : Keys]
Attempt == [key : Keys, mode : Modes, steady : SUBSET Scopes]
Results == [intent : Intents, no : 1 .. MaxAttempts]

\* A caller that is past the gate has a guard for its key and its mode, and the
\* intent shows its approval; no one else has a guard.
CallSound(c) ==
    /\ call[c] # NoCall => intent[call[c].intent] # "absent"
    /\ (guard[c] # Idle) <=> (call[c] # NoCall /\ call[c].at = "gate")
    /\ guard[c] # Idle =>
         guard[c].key = call[c].key /\ guard[c].mode = IntentMode[call[c].intent] /\ Shown(call[c].intent)

\* What the attempts of an intent say of it.
AttemptsSound(i) ==
    /\ Len(attempts[i]) <= MaxAttempts
    /\ attempts[i] # <<>> => Shown(i)
    /\ \A n \in DOMAIN attempts[i] :
         /\ attempts[i][n].mode \in SideEffects => attempts[i][n].steady = {}
         /\ result[attempts[i][n].key] = [intent |-> i, no |-> n]
    /\ (i \in outcome) <=> (attempts[i] # <<>>)
    /\ intent[i] \in IF i \in outcome THEN {StatusAfter(IntentMode[i])} ELSE {"absent", "planned"}

ResultSound(k) ==
    result[k] # NoResult =>
        LET r == result[k] IN r.no \in DOMAIN attempts[r.intent] /\ attempts[r.intent][r.no].key = k

ExecutionInv ==
    /\ intent \in [Intents -> {"absent", "planned", "exported", "simulated", "queued"}]
    /\ attempts \in [Intents -> Seq(Attempt)]
    /\ outcome \subseteq Intents
    /\ result \in [Keys -> Results \cup {NoResult}]
    /\ call \in [Callers -> Calls \cup {NoCall}]
    /\ \A c \in Callers : CallSound(c)
    /\ \A i \in Intents : AttemptsSound(i)
    /\ \A k \in Keys : ResultSound(k)

DeliveryInv == DeskInv /\ SwitchInv /\ ExecutionInv

LEMMA NothingDiffers == NoCall \notin Calls /\ NoResult \notin Results /\ \A x \in Calls : x # NoCall
BY DEF NoCall, Calls, NoResult, Results

LEMMA Statuses ==
    \A m : StatusAfter(m) \in {"exported", "simulated", "queued"}
BY DEF StatusAfter

LEMMA ExecutionStarts == SwitchInit /\ ExecutionInit => ExecutionInv
<1> SUFFICES ASSUME SwitchInit, ExecutionInit PROVE ExecutionInv
  OBVIOUS
<1>1. \A c \in Callers : CallSound(c)
  BY DEF SwitchInit, ExecutionInit, CallSound
<1>2. \A i \in Intents : AttemptsSound(i)
  BY DistributionBounds DEF ExecutionInit, AttemptsSound
<1>3. \A k \in Keys : ResultSound(k)
  BY DEF ExecutionInit, ResultSound
<1> QED BY <1>1, <1>2, <1>3 DEF ExecutionInit, ExecutionInv

\* Approvals are only ever granted.
LEMMA GrantedGrows == DeskNext => granted \subseteq granted'
BY DEF DeskNext, NextDay, Request, Decide, View

\* The commands on switches, and the steps of a guard, leave the key and the mode
\* of every guard, and whether it is under way.
LEMMA GuardsStay ==
    ASSUME SwitchInv, SwitchNext, NEW c \in Callers
    PROVE  /\ guard'[c] # Idle <=> guard[c] # Idle
           /\ guard[c] # Idle => guard'[c].key = guard[c].key /\ guard'[c].mode = guard[c].mode
<1>1. CASE guard' = guard
  BY <1>1
<1>2. ASSUME NEW d \in Callers, GuardRead(d) \/ GuardDecide(d)
      PROVE  /\ guard'[c] # Idle <=> guard[c] # Idle
             /\ guard[c] # Idle => guard'[c].key = guard[c].key /\ guard'[c].mode = guard[c].mode
  <2>1. guard[d] \in Guards
    BY <1>2 DEF GuardRead, GuardDecide, SwitchInv, Idle
  <2>2. PICK h : guard' = [guard EXCEPT ![d] = h] /\ h.key = guard[d].key /\ h.mode = guard[d].mode
                 /\ h.at \in {"reading", "allowed", "refused"}
    <3>1. CASE GuardRead(d)
      <4> DEFINE h == [guard[d] EXCEPT !.read = Append(@, switch[ScopeOrder[Len(@) + 1]])]
      <4>1. guard' = [guard EXCEPT ![d] = h]
        BY <3>1 DEF GuardRead
      <4>2. h.key = guard[d].key /\ h.mode = guard[d].mode /\ h.at = "reading"
        BY <2>1, <3>1 DEF GuardRead, Guards
      <4> QED BY <4>1, <4>2
    <3>2. CASE GuardDecide(d)
      <4> DEFINE h == [guard[d] EXCEPT !.at = IF Verdict(guard[d]).allowed THEN "allowed" ELSE "refused"]
      <4>1. guard' = [guard EXCEPT ![d] = h]
        BY <3>2 DEF GuardDecide
      <4>2. h.key = guard[d].key /\ h.mode = guard[d].mode /\ h.at \in {"allowed", "refused"}
        BY <2>1 DEF Guards
      <4> QED BY <4>1, <4>2
    <3> QED BY <1>2, <3>1, <3>2
  <2>3. h # Idle
    BY <2>2 DEF Idle
  <2>4. CASE c = d
    BY <2>1, <2>2, <2>3, <2>4, NullsDiffer DEF SwitchInv
  <2>5. CASE c # d
    BY <2>2, <2>5 DEF SwitchInv
  <2> QED BY <2>4, <2>5
<1> QED BY <1>1, <1>2 DEF SwitchNext, SetWrite, SetRead

LEMMA ShownKeeps == ASSUME granted \subseteq granted', NEW i \in Intents, Shown(i) PROVE Shown(i)'
BY DEF Shown

\* A step of the desk or of the switches leaves the executions sound.
LEMMA ElsewhereKeeps ==
    ASSUME ExecutionInv, UNCHANGED executionVars, granted \subseteq granted',
           \A c \in Callers :
              /\ guard'[c] # Idle <=> guard[c] # Idle
              /\ guard[c] # Idle => guard'[c].key = guard[c].key /\ guard'[c].mode = guard[c].mode
    PROVE  ExecutionInv'
<1>1. \A i \in Intents : Shown(i) => Shown(i)'
  BY ShownKeeps
<1>2. \A c \in Callers : CallSound(c)'
  <2> SUFFICES ASSUME NEW c \in Callers PROVE CallSound(c)'
    OBVIOUS
  <2>1. CallSound(c) /\ call' = call /\ intent' = intent /\ (call[c] # NoCall => call[c].intent \in Intents)
    BY DEF ExecutionInv, executionVars, Calls
  <2> QED BY <1>1, <2>1 DEF CallSound
<1>3. \A i \in Intents : AttemptsSound(i)'
  BY <1>1 DEF ExecutionInv, executionVars, AttemptsSound
<1>4. \A k \in Keys : ResultSound(k)'
  BY DEF ExecutionInv, executionVars, ResultSound
<1> QED BY <1>2, <1>3, <1>4 DEF ExecutionInv, executionVars

\* Approvals, decisions of the gate and the switches are as they are: the entry
\* of a guard alone makes one where there was none.
LEMMA EnterKeeps ==
    ASSUME SwitchInv, NEW c \in Callers, NEW k \in Keys, NEW m \in Modes, GuardEnter(c, k, m)
    PROVE  /\ SwitchInv'
           /\ guard' = [guard EXCEPT ![c] = guard'[c]]
           /\ guard'[c] # Idle /\ guard'[c].key = k /\ guard'[c].mode = m
<1> DEFINE g == [at |-> "reading", key |-> k, mode |-> m, read |-> <<>>]
           w == {s \in Scopes : Blocks(s, m)}
<1>1. guard' = [guard EXCEPT ![c] = g] /\ watch' = [watch EXCEPT ![c] = w] /\ UNCHANGED <<switch, setter, verdict>>
  BY DEF GuardEnter
<1>2. g \in Guards /\ g # Idle
  BY DEF Guards, Idle
<1>3. GuardSound(c)'
  <2>1. guard'[c] = g /\ watch'[c] = w
    BY <1>1 DEF SwitchInv
  <2>2. \A s \in w : Blocks(s, m)'
    BY <1>1 DEF Blocks
  <2> QED BY <2>1, <2>2, ScopesOrdered DEF GuardSound
<1>4. \A d \in Callers \ {c} : guard'[d] # Idle => GuardSound(d)'
  BY <1>1 DEF SwitchInv, GuardSound, Blocks
<1>5. w \in SUBSET Scopes
  OBVIOUS
<1> HIDE DEF g, w
<1>6. SwitchInv'
  BY <1>1, <1>2, <1>3, <1>4, <1>5 DEF SwitchInv, VerdictSound
<1>7. guard'[c] = g /\ g.key = k /\ g.mode = m
  BY <1>1 DEF SwitchInv, g
<1> QED BY <1>1, <1>2, <1>6, <1>7

LEMMA ReturnKeeps ==
    ASSUME SwitchInv, NEW c \in Callers, Return(c)
    PROVE  SwitchInv' /\ guard'[c] = Idle /\ \A d \in Callers \ {c} : guard'[d] = guard[d]
<1>1. /\ guard' = [guard EXCEPT ![c] = Idle] /\ watch' = [watch EXCEPT ![c] = {}]
      /\ UNCHANGED <<switch, setter, verdict>>
  BY DEF Return
<1>2. \A d \in Callers : guard'[d] # Idle => d # c /\ GuardSound(d)'
  BY <1>1 DEF SwitchInv, GuardSound, Blocks
<1> QED BY <1>1, <1>2 DEF SwitchInv, VerdictSound

\* What an execution leaves in place for the callers: c alone may have moved, and
\* an intent that was there stays.
LEMMA CallersKept ==
    ASSUME ExecutionInv, NEW c \in Callers, UNCHANGED granted,
           \A d \in Callers \ {c} : call'[d] = call[d] /\ guard'[d] = guard[d],
           \A i \in Intents : intent[i] # "absent" => intent'[i] # "absent",
           CallSound(c)'
    PROVE  \A d \in Callers : CallSound(d)'
<1> SUFFICES ASSUME NEW d \in Callers \ {c} PROVE CallSound(d)'
  OBVIOUS
<1>1. CallSound(d) /\ (call[d] # NoCall => call[d].intent \in Intents)
  BY DEF ExecutionInv, Calls
<1>2. \A i \in Intents : Shown(i) => Shown(i)'
  BY ShownKeeps
<1> QED BY <1>1, <1>2 DEF CallSound

\* The caller of a commit returns.
LEMMA CommitReturns ==
    ASSUME DeliveryInv, UNCHANGED granted, NEW c \in Callers, Commit(c) \/ Fail(c),
           \A i \in Intents : intent[i] # "absent" => intent'[i] # "absent"
    PROVE  /\ SwitchInv'
           /\ call' \in [Callers -> Calls \cup {NoCall}]
           /\ \A d \in Callers : CallSound(d)'
<1>1. SwitchInv /\ ExecutionInv /\ Return(c)
  BY DEF DeliveryInv, Commit, Fail
<1>2. SwitchInv' /\ guard'[c] = Idle /\ \A d \in Callers \ {c} : guard'[d] = guard[d]
  BY <1>1, ReturnKeeps
<1>3. call' = [call EXCEPT ![c] = NoCall]
  BY <1>1 DEF Return
<1>4. call' \in [Callers -> Calls \cup {NoCall}] /\ call'[c] = NoCall /\ \A d \in Callers \ {c} : call'[d] = call[d]
  BY <1>1, <1>3 DEF ExecutionInv
<1>5. CallSound(c)'
  BY <1>2, <1>4 DEF CallSound
<1> QED BY <1>1, <1>2, <1>4, <1>5, CallersKept

\* One more attempt of an intent, under a key that has no result.
LEMMA RecordKeeps ==
    ASSUME DeliveryInv, UNCHANGED granted, NEW c \in Callers, Commit(c)
    PROVE  ExecutionInv'
<1>0. /\ guard[c] # Idle /\ guard[c].at = "allowed" /\ CallSound(c) /\ call[c] # NoCall
      /\ call[c].intent \in Intents /\ call[c].key \in Keys
  BY DEF Commit, DeliveryInv, ExecutionInv, CallSound, Idle, Calls
<1>1. PICK i \in Intents, k \in Keys : i = call[c].intent /\ k = call[c].key
  BY <1>0
<1> DEFINE a == NewAttempt(c)
           no == Len(attempts[i]) + 1
           r == [intent |-> i, no |-> no]
<1>2. /\ guard[c].mode = IntentMode[i] /\ Shown(i) /\ intent[i] # "absent"
      /\ IntentMode[i] \notin SideEffects \/ watch[c] = {}
  BY <1>0, <1>1 DEF CallSound, DeliveryInv, SwitchInv, GuardSound
<1>3. CASE result[k] # NoResult
  <2>1. UNCHANGED <<intent, attempts, outcome, result>>
    BY <1>1, <1>3 DEF Commit, Record
  <2>2. call' \in [Callers -> Calls \cup {NoCall}] /\ \A d \in Callers : CallSound(d)'
    BY <2>1, CommitReturns
  <2>3. \A j \in Intents : AttemptsSound(j)'
    BY <2>1 DEF DeliveryInv, ExecutionInv, AttemptsSound, Shown
  <2>4. \A l \in Keys : ResultSound(l)'
    BY <2>1 DEF DeliveryInv, ExecutionInv, ResultSound
  <2> QED BY <2>1, <2>2, <2>3, <2>4 DEF DeliveryInv, ExecutionInv
<1>4. CASE result[k] = NoResult
  <2>1. /\ Len(attempts[i]) < MaxAttempts
        /\ attempts' = [attempts EXCEPT ![i] = Append(@, a)]
        /\ result' = [result EXCEPT ![k] = r]
        /\ intent' = [intent EXCEPT ![i] = StatusAfter(IntentMode[i])]
        /\ outcome' = outcome \cup {i}
    BY <1>1, <1>4 DEF Commit, Record
  <2>2. a \in Attempt /\ a.key = k /\ a.mode = IntentMode[i] /\ a.steady = watch[c]
    BY <1>1, DistributionBounds DEF NewAttempt, Attempt, DeliveryInv, SwitchInv
  <2>3. attempts[i] \in Seq(Attempt) /\ Len(attempts[i]) \in Nat
    BY <1>1 DEF DeliveryInv, ExecutionInv
  <2>4. r \in Results /\ r # NoResult /\ r.intent = i /\ r.no = no
    BY <1>1, <2>1, <2>3, DistributionBounds DEF Results, NoResult
  <2> HIDE DEF a, r
  <2>5. /\ Append(attempts[i], a) \in Seq(Attempt)
        /\ Len(Append(attempts[i], a)) = no
        /\ \A n \in 1 .. no : Append(attempts[i], a)[n] = IF n = no THEN a ELSE attempts[i][n]
        /\ Append(attempts[i], a) # <<>>
    <3> DEFINE s == attempts[i]
    <3>1. s \in Seq(Attempt) /\ a \in Attempt /\ Len(s) \in Nat /\ no = Len(s) + 1
      BY <2>2, <2>3
    <3> HIDE DEF s, no
    <3>2. Append(s, a) \in Seq(Attempt) /\ Len(Append(s, a)) = no
      BY <3>1
    <3>3. \A n \in 1 .. no : Append(s, a)[n] = IF n = no THEN a ELSE s[n]
      BY <3>1
    <3>4. Append(s, a) # <<>>
      BY <3>1, <3>2
    <3> QED BY <3>2, <3>3, <3>4 DEF s
  <2>6. /\ attempts' \in [Intents -> Seq(Attempt)]
        /\ attempts'[i] = Append(attempts[i], a) /\ \A j \in Intents \ {i} : attempts'[j] = attempts[j]
        /\ result' \in [Keys -> Results \cup {NoResult}]
        /\ result'[k] = r /\ \A l \in Keys \ {k} : result'[l] = result[l]
    BY <1>1, <2>1, <2>4, <2>5 DEF DeliveryInv, ExecutionInv
  <2>7. /\ intent' \in [Intents -> {"absent", "planned", "exported", "simulated", "queued"}]
        /\ intent'[i] = StatusAfter(IntentMode[i]) /\ \A j \in Intents \ {i} : intent'[j] = intent[j]
        /\ outcome' \subseteq Intents
        /\ \A j \in Intents : intent[j] # "absent" => intent'[j] # "absent"
    BY <1>1, <2>1, Statuses DEF DeliveryInv, ExecutionInv
  <2>8. call' \in [Callers -> Calls \cup {NoCall}] /\ \A d \in Callers : CallSound(d)'
    BY <2>7, CommitReturns
  <2>9. \A j \in Intents : \A n \in DOMAIN attempts[j] :
            /\ attempts[j][n].key \in Keys \ {k}
            /\ result[attempts[j][n].key] = [intent |-> j, no |-> n]
            /\ attempts[j][n].mode \in SideEffects => attempts[j][n].steady = {}
    <3> SUFFICES ASSUME NEW j \in Intents, NEW n \in DOMAIN attempts[j]
                 PROVE  /\ attempts[j][n].key \in Keys \ {k}
                        /\ result[attempts[j][n].key] = [intent |-> j, no |-> n]
                        /\ attempts[j][n].mode \in SideEffects => attempts[j][n].steady = {}
      OBVIOUS
    <3>1. attempts[j] \in Seq(Attempt) /\ AttemptsSound(j)
      BY DEF DeliveryInv, ExecutionInv
    <3>2. attempts[j][n] \in Attempt /\ n \in Nat /\ n # 0
      BY <3>1
    <3>3. result[attempts[j][n].key] = [intent |-> j, no |-> n]
          /\ (attempts[j][n].mode \in SideEffects => attempts[j][n].steady = {})
      BY <3>1 DEF AttemptsSound
    <3> QED BY <1>4, <3>2, <3>3 DEF NoResult, Attempt
  <2>10. AttemptsSound(i)'
    <3>1. \A n \in DOMAIN attempts'[i] :
            /\ attempts'[i][n].mode \in SideEffects => attempts'[i][n].steady = {}
            /\ result'[attempts'[i][n].key] = [intent |-> i, no |-> n]
      <4> SUFFICES ASSUME NEW n \in 1 .. no
                   PROVE  /\ attempts'[i][n].mode \in SideEffects => attempts'[i][n].steady = {}
                          /\ result'[attempts'[i][n].key] = [intent |-> i, no |-> n]
        BY <2>5, <2>6
      <4>1. CASE n = no
        <5>1. attempts'[i][n] = a
          BY <2>5, <2>6, <4>1
        <5>2. result'[a.key] = r
          BY <2>2, <2>6
        <5> QED BY <1>2, <2>2, <4>1, <5>1, <5>2 DEF r
      <4>2. CASE n # no
        <5>1. n \in DOMAIN attempts[i] /\ attempts'[i][n] = attempts[i][n]
          BY <2>3, <2>5, <2>6, <4>2
        <5> QED BY <1>1, <2>6, <2>9, <5>1
      <4> QED BY <4>1, <4>2
    <3>2. Shown(i)'
      BY <1>2 DEF Shown
    <3>3. Len(attempts'[i]) <= MaxAttempts /\ attempts'[i] # <<>>
      BY <2>1, <2>3, <2>5, <2>6, DistributionBounds
    <3> QED BY <2>1, <2>7, <3>1, <3>2, <3>3 DEF AttemptsSound
  <2>11. ASSUME NEW j \in Intents \ {i} PROVE AttemptsSound(j)'
    <3>1. AttemptsSound(j) /\ attempts'[j] = attempts[j] /\ intent'[j] = intent[j]
          /\ (j \in outcome' <=> j \in outcome)
      BY <2>1, <2>6, <2>7 DEF DeliveryInv, ExecutionInv
    <3>2. Shown(j) => Shown(j)'
      BY DEF Shown
    <3>3. \A n \in DOMAIN attempts[j] : result'[attempts[j][n].key] = [intent |-> j, no |-> n]
      BY <2>6, <2>9
    <3> QED BY <3>1, <3>2, <3>3 DEF AttemptsSound
  <2>12. ASSUME NEW l \in Keys PROVE ResultSound(l)'
    <3>1. CASE l = k
      <4>1. no \in 1 .. no /\ attempts'[i][no] = a /\ DOMAIN attempts'[i] = 1 .. no
        BY <2>3, <2>5, <2>6
      <4> QED BY <2>2, <2>4, <2>6, <3>1, <4>1 DEF ResultSound
    <3>2. CASE l # k /\ result[l] # NoResult
      <4> DEFINE s == result[l]
      <4>1. s \in Results /\ s.no \in DOMAIN attempts[s.intent] /\ attempts[s.intent][s.no].key = l /\ result'[l] = s
        BY <2>6, <3>2 DEF DeliveryInv, ExecutionInv, ResultSound
      <4>2. s.intent \in Intents
        BY <4>1 DEF Results
      <4>3. s.no \in DOMAIN attempts'[s.intent] /\ attempts'[s.intent][s.no] = attempts[s.intent][s.no]
        <5>1. CASE s.intent = i
          <6>1. s.no \in 1 .. Len(attempts[i])
            BY <2>3, <4>1, <5>1
          <6> QED BY <2>3, <2>5, <2>6, <5>1, <6>1
        <5> QED BY <2>6, <4>1, <4>2, <5>1
      <4> QED BY <4>1, <4>3 DEF ResultSound
    <3>3. CASE l # k /\ result[l] = NoResult
      BY <2>6, <3>3 DEF ResultSound
    <3> QED BY <3>1, <3>2, <3>3
  <2> QED BY <2>6, <2>7, <2>8, <2>10, <2>11, <2>12 DEF ExecutionInv
<1> QED BY <1>3, <1>4

\* A new intent has neither attempts nor an outcome.
LEMMA IntentPlanned ==
    ASSUME ExecutionInv, UNCHANGED granted, NEW i \in Intents, intent[i] = "absent",
           intent' = [intent EXCEPT ![i] = "planned"], UNCHANGED <<attempts, outcome, result>>
    PROVE  /\ intent' \in [Intents -> {"absent", "planned", "exported", "simulated", "queued"}]
           /\ \A j \in Intents : intent[j] # "absent" => intent'[j] # "absent"
           /\ intent'[i] = "planned"
           /\ \A j \in Intents : AttemptsSound(j)'
           /\ \A k \in Keys : ResultSound(k)'
<1>1. /\ intent' \in [Intents -> {"absent", "planned", "exported", "simulated", "queued"}]
      /\ intent'[i] = "planned" /\ \A j \in Intents \ {i} : intent'[j] = intent[j]
  BY DEF ExecutionInv
<1>2. i \notin outcome
  BY Statuses DEF ExecutionInv, AttemptsSound
<1>3. ASSUME NEW j \in Intents PROVE AttemptsSound(j)'
  <2>1. AttemptsSound(j) /\ (Shown(j) => Shown(j)')
    BY DEF ExecutionInv, Shown
  <2>2. intent'[j] \in IF j \in outcome THEN {StatusAfter(IntentMode[j])} ELSE {"absent", "planned"}
    BY <1>1, <1>2, <2>1 DEF AttemptsSound
  <2> QED BY <2>1, <2>2 DEF AttemptsSound
<1>4. \A k \in Keys : ResultSound(k)'
  BY DEF ExecutionInv, ResultSound
<1> QED BY <1>1, <1>3, <1>4

LEMMA ExecutionKeeps ==
    ASSUME DeliveryInv, ExecutionNext, UNCHANGED deskVars
    PROVE  SwitchInv' /\ ExecutionInv'
<1>0. SwitchInv /\ ExecutionInv /\ granted' = granted
  BY DEF DeliveryInv, deskVars
<1>1. ASSUME NEW i \in Intents, CreateIntent(i), UNCHANGED switchVars PROVE SwitchInv' /\ ExecutionInv'
  <2>1. SwitchInv'
    BY <1>0, <1>1, SwitchKeeps
  <2>2. intent[i] = "absent" /\ intent' = [intent EXCEPT ![i] = "planned"] /\ UNCHANGED <<attempts, outcome, result, call>>
    BY <1>1 DEF CreateIntent
  <2>3. /\ intent' \in [Intents -> {"absent", "planned", "exported", "simulated", "queued"}]
        /\ \A j \in Intents : intent[j] # "absent" => intent'[j] # "absent"
        /\ \A j \in Intents : AttemptsSound(j)'
        /\ \A k \in Keys : ResultSound(k)'
    BY <1>0, <2>2, IntentPlanned
  <2>4. ASSUME NEW c \in Callers PROVE CallSound(c)'
    <3>1. CallSound(c) /\ call' = call /\ guard' = guard /\ (call[c] # NoCall => call[c].intent \in Intents)
      BY <1>0, <1>1, <2>2 DEF ExecutionInv, Calls, switchVars
    <3>2. \A j \in Intents : Shown(j) => Shown(j)'
      BY <1>0 DEF Shown
    <3> QED BY <2>3, <3>1, <3>2 DEF CallSound
  <2> QED BY <1>0, <2>1, <2>2, <2>3, <2>4 DEF ExecutionInv
<1>2. ASSUME NEW c \in Callers, NEW i \in Intents, NEW k \in Keys, RunSlice(c, i, k), UNCHANGED switchVars
      PROVE  SwitchInv' /\ ExecutionInv'
  <2> DEFINE n == [at |-> "slice", intent |-> i, key |-> k]
  <2>1. SwitchInv'
    BY <1>0, <1>2, SwitchKeeps
  <2>2. /\ call[c] = NoCall /\ intent[i] = "absent" /\ intent' = [intent EXCEPT ![i] = "planned"]
        /\ call' = [call EXCEPT ![c] = n] /\ UNCHANGED <<attempts, outcome, result>>
    BY <1>2 DEF RunSlice
  <2>3. /\ intent' \in [Intents -> {"absent", "planned", "exported", "simulated", "queued"}]
        /\ \A j \in Intents : intent[j] # "absent" => intent'[j] # "absent"
        /\ intent'[i] = "planned"
        /\ \A j \in Intents : AttemptsSound(j)'
        /\ \A l \in Keys : ResultSound(l)'
    BY <1>0, <2>2, IntentPlanned
  <2>4. n \in Calls /\ n.at = "slice" /\ n.intent = i
    BY DEF Calls
  <2> HIDE DEF n
  <2>5. call' \in [Callers -> Calls \cup {NoCall}] /\ call'[c] = n /\ \A d \in Callers \ {c} : call'[d] = call[d]
    BY <1>0, <2>2, <2>4 DEF ExecutionInv
  <2>6. guard[c] = Idle /\ guard' = guard
    BY <1>0, <1>2, <2>2 DEF ExecutionInv, CallSound, switchVars
  <2>7. CallSound(c)'
    BY <2>3, <2>4, <2>5, <2>6 DEF CallSound
  <2>8. \A d \in Callers : CallSound(d)'
    BY <1>0, <2>3, <2>5, <2>6, <2>7, CallersKept
  <2> QED BY <1>0, <2>1, <2>2, <2>3, <2>5, <2>8 DEF ExecutionInv
<1>3. ASSUME NEW c \in Callers, NEW i \in Intents, NEW k \in Keys, Execute(c, i, k)
      PROVE  SwitchInv' /\ ExecutionInv'
  <2> DEFINE n == [at |-> "gate", intent |-> i, key |-> k]
  <2>1. /\ intent[i] # "absent" /\ Shown(i) /\ call' = [call EXCEPT ![c] = n]
        /\ GuardEnter(c, k, IntentMode[i]) /\ UNCHANGED <<intent, attempts, outcome, result>>
    BY <1>3 DEF Execute
  <2>2. /\ SwitchInv' /\ guard' = [guard EXCEPT ![c] = guard'[c]]
        /\ guard'[c] # Idle /\ guard'[c].key = k /\ guard'[c].mode = IntentMode[i]
    BY <1>0, <2>1, EnterKeeps, DistributionBounds
  <2>3. n \in Calls /\ n.at = "gate" /\ n.intent = i /\ n.key = k /\ n # NoCall
    BY DEF Calls, NoCall
  <2> HIDE DEF n
  <2>4. call' \in [Callers -> Calls \cup {NoCall}] /\ call'[c] = n /\ \A d \in Callers \ {c} : call'[d] = call[d]
    BY <1>0, <2>1, <2>3 DEF ExecutionInv
  <2>5. \A d \in Callers \ {c} : guard'[d] = guard[d]
    BY <1>0, <2>2 DEF SwitchInv
  <2>6. Shown(i)'
    BY <1>0, <2>1 DEF Shown
  <2>7. CallSound(c)'
    BY <2>1, <2>2, <2>3, <2>4, <2>6 DEF CallSound
  <2>8. \A d \in Callers : CallSound(d)'
    BY <1>0, <2>1, <2>4, <2>5, <2>7, CallersKept
  <2>9. \A j \in Intents : AttemptsSound(j)'
    BY <1>0, <2>1 DEF ExecutionInv, AttemptsSound, Shown
  <2>10. \A l \in Keys : ResultSound(l)'
    BY <1>0, <2>1 DEF ExecutionInv, ResultSound
  <2> QED BY <1>0, <2>1, <2>2, <2>4, <2>8, <2>9, <2>10 DEF ExecutionInv
<1>4. ASSUME NEW c \in Callers, Commit(c) PROVE SwitchInv' /\ ExecutionInv'
  BY <1>0, <1>4, RecordKeeps, ReturnKeeps DEF Commit
<1>5. ASSUME NEW c \in Callers, Fail(c) PROVE SwitchInv' /\ ExecutionInv'
  <2>1. UNCHANGED <<intent, attempts, outcome, result>>
    BY <1>5 DEF Fail
  <2>2. SwitchInv' /\ call' \in [Callers -> Calls \cup {NoCall}] /\ \A d \in Callers : CallSound(d)'
    BY <1>0, <1>5, <2>1, CommitReturns
  <2>3. \A j \in Intents : AttemptsSound(j)'
    BY <1>0, <2>1 DEF ExecutionInv, AttemptsSound, Shown
  <2>4. \A l \in Keys : ResultSound(l)'
    BY <1>0, <2>1 DEF ExecutionInv, ResultSound
  <2> QED BY <1>0, <2>1, <2>2, <2>3, <2>4 DEF ExecutionInv
<1> QED BY <1>1, <1>2, <1>3, <1>4, <1>5 DEF ExecutionNext

-----------------------------------------------------------------------------
(* Theorems *)

\* What holds of the approvals, the switches, the guards under way and the
\* attempts, together: the invariant the properties follow from.
THEOREM DeliverySound == DistributionSpec => []DeliveryInv
<1>1. DeskInit /\ SwitchInit /\ ExecutionInit => DeliveryInv
  BY DeskStarts, SwitchStarts, ExecutionStarts DEF DeliveryInv
<1>2. DeliveryInv /\ [DistributionNext]_distributionVars => DeliveryInv'
  <2> SUFFICES ASSUME DeliveryInv, [DistributionNext]_distributionVars PROVE DeliveryInv'
    OBVIOUS
  <2>1. DeskInv /\ SwitchInv /\ ExecutionInv
    BY DEF DeliveryInv
  <2>2. CASE UNCHANGED distributionVars
    <3>1. DeskInv' /\ SwitchInv'
      BY <2>1, <2>2, DeskKeeps, SwitchKeeps DEF distributionVars
    <3>2. ExecutionInv'
      BY <2>1, <2>2, ElsewhereKeeps DEF distributionVars, deskVars, switchVars
    <3> QED BY <3>1, <3>2 DEF DeliveryInv
  <2>3. CASE DeskNext /\ UNCHANGED <<switchVars, executionVars>>
    <3>1. DeskInv' /\ SwitchInv'
      BY <2>1, <2>3, DeskKeeps, SwitchKeeps
    <3>2. ExecutionInv'
      BY <2>1, <2>3, GrantedGrows, ElsewhereKeeps DEF switchVars
    <3> QED BY <3>1, <3>2 DEF DeliveryInv
  <2>4. CASE SwitchNext /\ UNCHANGED <<deskVars, executionVars>>
    <3>1. DeskInv' /\ SwitchInv'
      BY <2>1, <2>4, DeskKeeps, SwitchKeeps
    <3>2. granted \subseteq granted'
      BY <2>4 DEF deskVars
    <3>3. ExecutionInv'
      BY <2>1, <2>4, <3>2, GuardsStay, ElsewhereKeeps
    <3> QED BY <3>1, <3>3 DEF DeliveryInv
  <2>5. CASE ExecutionNext /\ UNCHANGED deskVars
    BY <2>1, <2>5, DeskKeeps, ExecutionKeeps DEF DeliveryInv
  <2> QED BY <2>2, <2>3, <2>4, <2>5 DEF DistributionNext
<1> QED BY <1>1, <1>2, PTL DEF DistributionSpec

\* The types of the desk, the switches and the executions.
THEOREM DeliveryTyped == DistributionSpec => []DeliveryTypeOK
<1>1. DeliveryInv => DeliveryTypeOK
  <2> SUFFICES ASSUME DeliveryInv PROVE DeliveryTypeOK
    OBVIOUS
  <2>1. DeskTypeOK
    BY DEF DeliveryInv, DeskInv, DeskTypeOK, Requests, Exists, NoApproval
  <2>2. SwitchTypeOK
    BY SwitchBounds DEF DeliveryInv, SwitchInv, SwitchTypeOK, Switches, Settings, Guards, Idle
  <2>3. \A k \in Keys : result[k].no \in 0 .. MaxAttempts
    BY DistributionBounds DEF DeliveryInv, ExecutionInv, Results, NoResult
  <2>4. \A c \in Callers : call[c] # NoCall => call[c].intent \in Intents /\ call[c].key \in Keys
    BY DEF DeliveryInv, ExecutionInv, Calls
  <2> QED BY <2>1, <2>2, <2>3, <2>4 DEF DeliveryTypeOK, DeliveryInv, ExecutionInv, AttemptsSound
<1> QED BY <1>1, DeliverySound, PTL

\* Nothing is executed that is bound to an approval which its reviewers did not
\* grant, nor past a kill switch that stood in its way all through its guard,
\* for every order in which decisions, switches, guards and executions meet.
THEOREM ReleasesGuarded == DistributionSpec => []ReleaseGuarded
<1>1. DeliveryInv => ReleaseBacked
  <2> SUFFICES ASSUME DeliveryInv, NEW i \in Intents, attempts[i] # <<>>, IntentApproval[i] # Unbound
               PROVE  Completed(approval[IntentApproval[i]])
    BY DEF ReleaseBacked, Completed
  <2>1. IntentApproval[i] \in granted
    BY DEF DeliveryInv, ExecutionInv, AttemptsSound, Shown
  <2> QED BY <2>1 DEF DeliveryInv, DeskInv
<1>2. DeliveryInv => SwitchHolds
  BY DEF DeliveryInv, ExecutionInv, AttemptsSound, SwitchHolds
<1> QED BY <1>1, <1>2, DeliverySound, PTL DEF ReleaseGuarded

\* Keys and attempts stand one for one, and an intent has its outcome exactly if
\* it was attempted.
THEOREM AttemptsStand == DistributionSpec => []AttemptsKept
<1>1. DeliveryInv => AttemptsKept
  <2> SUFFICES ASSUME DeliveryInv PROVE AttemptsKept
    OBVIOUS
  <2>1. \A i \in Intents : AttemptsSound(i)
    BY DEF DeliveryInv, ExecutionInv
  <2>2. \A k \in Keys : ResultSound(k)
    BY DEF DeliveryInv, ExecutionInv
  <2>3. ASSUME NEW i \in Intents
        PROVE  (i \in outcome) = (intent[i] = StatusAfter(IntentMode[i]))
    <3>1. StatusAfter(IntentMode[i]) # "absent" /\ StatusAfter(IntentMode[i]) # "planned"
      BY Statuses
    <3>2. intent[i] \in IF i \in outcome THEN {StatusAfter(IntentMode[i])} ELSE {"absent", "planned"}
      BY <2>1 DEF AttemptsSound
    <3>3. CASE i \in outcome
      BY <3>2, <3>3
    <3>4. CASE i \notin outcome
      BY <3>1, <3>2, <3>4
    <3> QED BY <3>3, <3>4
  <2> QED BY <2>1, <2>2, <2>3 DEF AttemptsKept, AttemptsSound, ResultSound
<1> QED BY <1>1, DeliverySound, PTL

-----------------------------------------------------------------------------
(* The publication through the fake adapter *)

FakeVerdicts ==
    [result : {"succeeded"}, draft : DraftIds]
    \cup [result : {"failed"}, key : PublishKeys, retryable : BOOLEAN, exhausted : BOOLEAN]

DraftsOf(i) == [id : {i} \X PublishKeys, version : {1, 2}]

Publishings ==
    {NotPublishing}
    \cup [at : {"draft", "send"}, intent : Publications, key : PublishKeys, no : Numbers,
          draft : {NoDraft} \cup UNION {DraftsOf(i) : i \in Publications}]
    \cup [at : {"accept", "observe", "bury"}, attempt : Attempts, value : FakeVerdicts]

DeskStatuses == {"none", "unknown", "dead_letter", "succeeded", "failed"}
DeskCommands ==
    [at : {"unknown", "dead_letter", "succeeded", "failed", "replay"}, attempt : Attempts, was : DeskStatuses]
ReviewTypes == {"unknown_result", "support_escalation"}

FakeTyped ==
    /\ cached \in [Publications -> {NoDraft} \cup UNION {DraftsOf(i) : i \in Publications}]
    /\ draft \in [DraftIds -> {"none", "draft", "published"}]
    /\ accepted \in [Attempts -> FakeVerdicts \cup {[result |-> "none"]}]
    /\ observed \subseteq DraftIds
    /\ publishing \in [Publishers -> Publishings]
    /\ desk \in [Attempts -> DeskStatuses]
    /\ review \in [Attempts \X ReviewTypes -> {"none", "queued", "completed"}]
    /\ planned \subseteq Attempts
    /\ atDesk \in [DeskOperators -> {AwayFromDesk} \cup DeskCommands]

\* What a call of publish() holds: a draft of its own intent, a success under
\* number 1 of the draft's intent, and later a verdict that was accepted.
PublishingSound(p, stood) ==
    /\ p.at = "send" => p.draft \in DraftsOf(p.intent)
    /\ p.at \in {"accept", "observe", "bury"} /\ p.value.result = "succeeded" => p.attempt = <<p.value.draft[1], 1>>
    /\ p.at \in {"observe", "bury"} => stood[p.attempt] = p.value
    /\ p.at = "observe" => p.value.result = "succeeded"
    /\ p.at = "bury" => p.value.result = "failed"

\* Only what failed comes to the desk, and what it awaits has a task.
DeskSound ==
    /\ \A a \in Attempts :
          /\ desk[a] # "none" => accepted[a].result = "failed"
          /\ desk[a] = "unknown" => review[<<a, "unknown_result">>] # "none"
          /\ desk[a] = "dead_letter" => review[<<a, "support_escalation">>] # "none"
    /\ \A o \in DeskOperators : atDesk[o] # AwayFromDesk => accepted[atDesk[o].attempt].result = "failed"

FakeInv ==
    /\ FakeTyped
    /\ \A i \in Publications : cached[i] # NoDraft => cached[i] \in DraftsOf(i)
    /\ \A t \in Publishers : PublishingSound(publishing[t], accepted)
    /\ \A d \in observed : accepted[<<d[1], 1>>].result = "succeeded"
    /\ DeskSound

\* Verdicts that were accepted stay, so what is said of them goes on to hold.
VerdictsStay == \A a \in Attempts : accepted[a].result # "none" => accepted'[a] = accepted[a]

LEMMA SoundStays ==
    ASSUME FakeInv, VerdictsStay, NEW t \in Publishers
    PROVE  PublishingSound(publishing[t], accepted')
<1> DEFINE p == publishing[t]
<1>1. p \in Publishings /\ PublishingSound(p, accepted)
  BY DEF FakeInv, FakeTyped
<1>2. ASSUME p.at \in {"observe", "bury"} PROVE accepted'[p.attempt] = p.value
  <2>1. p.attempt \in Attempts /\ accepted[p.attempt] = p.value /\ p.value.result # "none"
    BY <1>1, <1>2 DEF Publishings, PublishingSound, NotPublishing
  <2> QED BY <2>1 DEF VerdictsStay
<1> QED BY <1>1, <1>2 DEF PublishingSound

LEMMA ObservedStays ==
    ASSUME FakeInv, VerdictsStay
    PROVE  \A d \in observed : accepted'[<<d[1], 1>>].result = "succeeded"
<1> SUFFICES ASSUME NEW d \in observed PROVE accepted'[<<d[1], 1>>].result = "succeeded"
  OBVIOUS
<1>1. <<d[1], 1>> \in Attempts
  BY FakeDeliveryBounds DEF FakeInv, FakeTyped, Attempts, DraftIds, Numbers
<1> QED BY <1>1 DEF FakeInv, VerdictsStay

\* The desk stays sound while publications go on, but for what they bury.
LEMMA DeskStays ==
    ASSUME FakeInv, VerdictsStay, UNCHANGED <<desk, review, atDesk>>
    PROVE  DeskSound'
<1>1. \A o \in DeskOperators : atDesk[o] # AwayFromDesk => atDesk[o].attempt \in Attempts
  BY DEF FakeInv, FakeTyped, DeskCommands
<1> QED BY <1>1 DEF FakeInv, DeskSound, VerdictsStay

LEMMA FakeStarts == FakeInit => FakeInv
<1> SUFFICES ASSUME FakeInit PROVE FakeInv
  OBVIOUS
<1>1. FakeTyped
  BY DEF FakeInit, FakeTyped, Publishings, DeskStatuses, ReviewTypes
<1>2. \A t \in Publishers : PublishingSound(publishing[t], accepted)
  BY DEF FakeInit, PublishingSound, NotPublishing
<1> QED BY <1>1, <1>2 DEF FakeInit, FakeInv, DeskSound

\* The reviews of the desk are keyed by attempt and type.
LEMMA ReviewKeys == \A a \in Attempts, type \in ReviewTypes : <<a, type>> \in Attempts \X ReviewTypes
OBVIOUS

LEMMA Buried ==
    ASSUME FakeInv, NEW a \in Attempts, accepted[a].result = "failed",
           \/ Bury(a)
           \/ UNCHANGED <<desk, review>>,
           VerdictsStay,
           \A o \in DeskOperators : atDesk'[o] \in {atDesk[o], AwayFromDesk}
    PROVE  /\ desk' \in [Attempts -> DeskStatuses]
           /\ review' \in [Attempts \X ReviewTypes -> {"none", "queued", "completed"}]
           /\ DeskSound'
<1>1. \A o \in DeskOperators : atDesk[o] # AwayFromDesk => atDesk[o].attempt \in Attempts
  BY DEF FakeInv, FakeTyped, DeskCommands
<1>2. \A o \in DeskOperators : atDesk'[o] # AwayFromDesk => accepted'[atDesk'[o].attempt].result = "failed"
  BY <1>1 DEF FakeInv, DeskSound, VerdictsStay
<1>3. desk \in [Attempts -> DeskStatuses] /\ review \in [Attempts \X ReviewTypes -> {"none", "queued", "completed"}]
  BY DEF FakeInv, FakeTyped
<1>4. CASE Bury(a)
  <2>1. desk' \in [Attempts -> DeskStatuses]
    BY <1>3, <1>4 DEF Bury, DeskStatuses
  <2>2. <<a, "support_escalation">> \in Attempts \X ReviewTypes /\ <<a, "unknown_result">> \in Attempts \X ReviewTypes
    BY DEF ReviewTypes
  <2>3. Task(a, "support_escalation") \in {"queued", "completed"}
    BY <1>3, <2>2 DEF Task
  <2>4. review' \in [Attempts \X ReviewTypes -> {"none", "queued", "completed"}]
    BY <1>3, <1>4, <2>2, <2>3 DEF Bury
  <2>5. \A b \in Attempts :
           /\ desk'[b] = IF b = a THEN "dead_letter" ELSE desk[b]
           /\ review'[<<b, "unknown_result">>] = review[<<b, "unknown_result">>]
           /\ review'[<<b, "support_escalation">>] # "none" <=> (b = a \/ review[<<b, "support_escalation">>] # "none")
    BY <1>3, <1>4, <2>2, <2>3 DEF Bury, ReviewTypes
  <2>6. \A b \in Attempts : desk'[b] # "none" => accepted'[b].result = "failed"
    BY <2>5 DEF FakeInv, DeskSound, VerdictsStay
  <2> QED BY <1>2, <2>1, <2>4, <2>5, <2>6 DEF FakeInv, DeskSound
<1>5. CASE UNCHANGED <<desk, review>>
  BY <1>2, <1>3, <1>5 DEF FakeInv, DeskSound, VerdictsStay
<1> QED BY <1>4, <1>5

\* A step of a call of publish(), which leaves the desk alone and puts the call
\* of one thread in another state.
LEMMA PublishingStep ==
    ASSUME FakeInv, VerdictsStay, NEW t \in Publishers, NEW p \in Publishings,
           publishing' = [publishing EXCEPT ![t] = p], PublishingSound(p, accepted'),
           UNCHANGED deskState,
           cached' \in [Publications -> {NoDraft} \cup UNION {DraftsOf(i) : i \in Publications}],
           \A i \in Publications : cached'[i] # NoDraft => cached'[i] \in DraftsOf(i),
           draft' \in [DraftIds -> {"none", "draft", "published"}],
           accepted' \in [Attempts -> FakeVerdicts \cup {[result |-> "none"]}],
           observed' \subseteq DraftIds,
           \A d \in observed' \ observed : accepted'[<<d[1], 1>>].result = "succeeded"
    PROVE  FakeInv'
<1>1. FakeTyped'
  BY DEF FakeInv, FakeTyped, deskState
<1>2. \A u \in Publishers : PublishingSound(publishing'[u], accepted')
  BY SoundStays DEF FakeInv, FakeTyped
<1>3. \A d \in observed' : accepted'[<<d[1], 1>>].result = "succeeded"
  BY ObservedStays
<1>4. DeskSound'
  BY DeskStays DEF deskState
<1> QED BY <1>1, <1>2, <1>3, <1>4 DEF FakeInv

\* What can be said of a call under way and of the drafts it may hold.
LEMMA CallTyped ==
    ASSUME FakeInv, NEW t \in Publishers
    PROVE  /\ publishing[t] \in Publishings
           /\ PublishingSound(publishing[t], accepted)
           /\ publishing[t].at \in {"draft", "send"} =>
                 /\ publishing[t].intent \in Publications /\ publishing[t].key \in PublishKeys
                 /\ publishing[t].no \in Numbers
           /\ publishing[t].at \in {"accept", "observe", "bury"} =>
                 /\ publishing[t].attempt \in Attempts /\ publishing[t].value \in FakeVerdicts
BY DEF FakeInv, FakeTyped, Publishings, NotPublishing

LEMMA IdleIsSound ==
    /\ NotPublishing \in Publishings
    /\ \A stood : PublishingSound(NotPublishing, stood)
BY DEF Publishings, PublishingSound, NotPublishing

\* Every step of the workflow and of the desk keeps the invariant.
LEMMA FakeKeeps == ASSUME FakeInv, [FakeNext]_fakeVars PROVE FakeInv'
<1> USE FakeDeliveryBounds
<1>0. /\ cached \in [Publications -> {NoDraft} \cup UNION {DraftsOf(i) : i \in Publications}]
      /\ \A i \in Publications : cached[i] # NoDraft => cached[i] \in DraftsOf(i)
      /\ draft \in [DraftIds -> {"none", "draft", "published"}]
      /\ accepted \in [Attempts -> FakeVerdicts \cup {[result |-> "none"]}]
      /\ observed \subseteq DraftIds
  BY DEF FakeInv, FakeTyped
<1>1. ASSUME NEW t \in Publishers, NEW i \in Publications, NEW k \in PublishKeys, NEW no \in Numbers, BeginPublish(t, i, k, no)
      PROVE  FakeInv'
  <2> DEFINE p == [at |-> IF cached[i] = NoDraft THEN "draft" ELSE "send",
                   intent |-> i, key |-> k, no |-> no, draft |-> cached[i]]
  <2>1. p \in Publishings
    BY <1>0 DEF Publishings
  <2>2. PublishingSound(p, accepted)
    BY <1>0 DEF PublishingSound
  <2> QED BY <1>0, <1>1, <2>1, <2>2, PublishingStep DEF BeginPublish, VerdictsStay
<1>2. ASSUME NEW t \in Publishers, MakeDraft(t) PROVE FakeInv'
  <2> DEFINE p == publishing[t]
             made == [id |-> <<p.intent, p.key>>, version |-> 1]
             q == [p EXCEPT !.at = "send", !.draft = made]
  <2>1. p \in Publishings /\ p.at = "draft" /\ p.intent \in Publications /\ p.key \in PublishKeys /\ p.no \in Numbers
    BY <1>2, CallTyped DEF MakeDraft
  <2>2. made \in DraftsOf(p.intent) /\ made.id \in DraftIds
    BY <2>1 DEF DraftsOf, DraftIds
  <2>3. made \in UNION {DraftsOf(i) : i \in Publications}
    BY <2>1, <2>2
  <2>4. q \in Publishings /\ PublishingSound(q, accepted)
    <3> DEFINE Going == [at : {"draft", "send"}, intent : Publications, key : PublishKeys, no : Numbers,
                         draft : {NoDraft} \cup UNION {DraftsOf(i) : i \in Publications}]
    <3>1. p \in Going
      BY <2>1 DEF Publishings, NotPublishing
    <3>2. \A c \in Going, d \in UNION {DraftsOf(i) : i \in Publications} :
             LET e == [c EXCEPT !.at = "send", !.draft = d]
             IN  e \in Going /\ e.at = "send" /\ e.intent = c.intent /\ e.draft = d
      OBVIOUS
    <3>3. Going \subseteq Publishings
      BY DEF Publishings
    <3> HIDE DEF p, made, Going
    <3> QED BY <2>2, <2>3, <3>1, <3>2, <3>3 DEF q, PublishingSound
  <2>5. publishing' = [publishing EXCEPT ![t] = q]
    BY <1>2 DEF MakeDraft, FakeInv, FakeTyped
  <2>6. /\ cached' \in [Publications -> {NoDraft} \cup UNION {DraftsOf(i) : i \in Publications}]
        /\ \A i \in Publications : cached'[i] # NoDraft => cached'[i] \in DraftsOf(i)
        /\ draft' \in [DraftIds -> {"none", "draft", "published"}]
    BY <1>0, <1>2, <2>1, <2>2 DEF MakeDraft
  <2> HIDE DEF p, made, q
  <2> QED BY <1>0, <1>2, <2>4, <2>5, <2>6, PublishingStep DEF MakeDraft, VerdictsStay
<1>3. ASSUME NEW t \in Publishers, Publish(t) PROVE FakeInv'
  <2> DEFINE p == publishing[t]
             now == [id |-> p.draft.id, version |-> 2]
             q == [at |-> "accept", attempt |-> <<p.intent, 1>>,
                   value |-> [result |-> "succeeded", draft |-> p.draft.id]]
  <2>1. p.at = "send" /\ p.intent \in Publications /\ p.draft \in DraftsOf(p.intent)
    BY <1>3, CallTyped DEF Publish, PublishingSound
  <2>2. now \in DraftsOf(p.intent) /\ p.draft.id \in DraftIds /\ p.draft.id[1] = p.intent
    BY <2>1 DEF DraftsOf, DraftIds
  <2>3. <<p.intent, 1>> \in Attempts
    BY <2>1 DEF Attempts, Numbers
  <2>4. q \in Publishings /\ PublishingSound(q, accepted)
    BY <2>2, <2>3 DEF Publishings, PublishingSound, FakeVerdicts
  <2>5. /\ cached' \in [Publications -> {NoDraft} \cup UNION {DraftsOf(i) : i \in Publications}]
        /\ \A i \in Publications : cached'[i] # NoDraft => cached'[i] \in DraftsOf(i)
        /\ draft' \in [DraftIds -> {"none", "draft", "published"}]
    BY <1>0, <1>3, <2>1, <2>2 DEF Publish
  <2>6. publishing' = [publishing EXCEPT ![t] = q] /\ UNCHANGED <<accepted, observed, deskState>>
    BY <1>3 DEF Publish
  <2> HIDE DEF p, now, q
  <2> QED BY <1>0, <2>4, <2>5, <2>6, PublishingStep DEF VerdictsStay
<1>4. ASSUME NEW t \in Publishers, NEW class \in {"transient", "unknown", "deterministic"}, PublishRaises(t, class)
      PROVE  FakeInv'
  <2> DEFINE p == publishing[t]
             q == [at |-> "accept", attempt |-> <<p.intent, p.no>>,
                   value |-> [result |-> "failed", key |-> p.key,
                              retryable |-> class = "transient" /\ p.no < MaxNo,
                              exhausted |-> class = "transient" /\ p.no = MaxNo]]
  <2>1. p.intent \in Publications /\ p.no \in Numbers /\ p.key \in PublishKeys
    BY <1>4, CallTyped DEF PublishRaises
  <2>2. q \in Publishings /\ PublishingSound(q, accepted)
    BY <2>1 DEF Publishings, PublishingSound, FakeVerdicts, Attempts
  <2>3. publishing' = [publishing EXCEPT ![t] = q]
    BY <1>4 DEF PublishRaises
  <2> HIDE DEF p, q
  <2> QED BY <1>0, <1>4, <2>2, <2>3, PublishingStep DEF PublishRaises, VerdictsStay
<1>5. ASSUME NEW t \in Publishers, AcceptAttempt(t) PROVE FakeInv'
  <2> DEFINE p == publishing[t]
             q == IF AfterAccept(p.value) = "idle" THEN NotPublishing ELSE [p EXCEPT !.at = AfterAccept(p.value)]
  <2>1. /\ p \in Publishings /\ PublishingSound(p, accepted) /\ p.at = "accept"
        /\ p.attempt \in Attempts /\ p.value \in FakeVerdicts
    BY <1>5, CallTyped DEF AcceptAttempt
  <2>2. accepted' = [accepted EXCEPT ![p.attempt] = p.value] /\ VerdictsStay
    BY <1>0, <1>5, <2>1 DEF AcceptAttempt, Acceptable, VerdictsStay
  <2>3. accepted' \in [Attempts -> FakeVerdicts \cup {[result |-> "none"]}] /\ accepted'[p.attempt] = p.value
    BY <1>0, <2>1, <2>2
  <2>4. ASSUME AfterAccept(p.value) # "idle"
        PROVE  /\ q = [at |-> AfterAccept(p.value), attempt |-> p.attempt, value |-> p.value]
               /\ \/ AfterAccept(p.value) = "observe" /\ p.value.result = "succeeded"
                  \/ AfterAccept(p.value) = "bury" /\ p.value.result = "failed"
    <3>1. p = [at |-> "accept", attempt |-> p.attempt, value |-> p.value]
      BY <2>1 DEF Publishings, NotPublishing
    <3> QED BY <2>4, <3>1 DEF AfterAccept
  <2>5. q \in Publishings /\ PublishingSound(q, accepted')
    <3>1. CASE AfterAccept(p.value) = "idle"
      BY <3>1, IdleIsSound
    <3>2. CASE AfterAccept(p.value) # "idle"
      BY <2>1, <2>3, <2>4, <3>2 DEF Publishings, PublishingSound
    <3> QED BY <3>1, <3>2
  <2>6. publishing' = [publishing EXCEPT ![t] = q] /\ UNCHANGED <<cached, draft, observed, deskState>>
    BY <1>5 DEF AcceptAttempt
  <2> HIDE DEF p, q
  <2> QED BY <1>0, <2>2, <2>3, <2>5, <2>6, PublishingStep
<1>6. ASSUME NEW t \in Publishers, AcceptRefuses(t) PROVE FakeInv'
  BY <1>0, <1>6, IdleIsSound, PublishingStep DEF AcceptRefuses, VerdictsStay
<1>7. ASSUME NEW t \in Publishers, Observe(t) PROVE FakeInv'
  <2> DEFINE p == publishing[t]
  <2>1. /\ PublishingSound(p, accepted) /\ p.at = "observe"
        /\ p.attempt \in Attempts /\ p.value \in FakeVerdicts
    BY <1>7, CallTyped DEF Observe
  <2>2. p.value.draft \in DraftIds /\ accepted[<<p.value.draft[1], 1>>].result = "succeeded"
    BY <2>1 DEF PublishingSound, FakeVerdicts
  <2> QED BY <1>0, <1>7, <2>2, IdleIsSound, PublishingStep DEF Observe, VerdictsStay
<1>8. ASSUME NEW t \in Publishers, BuryLast(t) PROVE FakeInv'
  <2> DEFINE a == publishing[t].attempt
  <2>1. a \in Attempts /\ accepted[a].result = "failed"
    BY <1>8, CallTyped DEF BuryLast, PublishingSound
  <2>2. VerdictsStay /\ UNCHANGED <<cached, draft, accepted, observed, planned, atDesk>>
    BY <1>8 DEF BuryLast, VerdictsStay
  <2>3. Bury(a) \/ UNCHANGED <<desk, review>>
    BY <1>8 DEF BuryLast
  <2>4. \A o \in DeskOperators : atDesk'[o] \in {atDesk[o], AwayFromDesk}
    BY <2>2
  <2> HIDE DEF a
  <2>5. /\ desk' \in [Attempts -> DeskStatuses]
        /\ review' \in [Attempts \X ReviewTypes -> {"none", "queued", "completed"}]
        /\ DeskSound'
    BY <2>1, <2>2, <2>3, <2>4, Buried
  <2>6. publishing' = [publishing EXCEPT ![t] = NotPublishing]
    BY <1>8 DEF BuryLast
  <2>7. FakeTyped'
    BY <2>2, <2>5, <2>6, IdleIsSound DEF FakeInv, FakeTyped
  <2>8. \A u \in Publishers : PublishingSound(publishing'[u], accepted')
    BY <2>2, <2>6, IdleIsSound, SoundStays DEF FakeInv, FakeTyped
  <2> QED BY <1>0, <2>2, <2>5, <2>7, <2>8, ObservedStays DEF FakeInv
<1>9. ASSUME NEW o \in DeskOperators, DeskWrites(o) PROVE FakeInv'
  <2> DEFINE c == atDesk[o]
  <2>1. c \in DeskCommands /\ accepted[c.attempt].result = "failed"
    BY <1>9 DEF DeskWrites, MarkUnknown, DeadLetter, ResolveUnknown, ReplayOne, FakeInv, FakeTyped, DeskSound, AwayFromDesk
  <2>2. /\ VerdictsStay /\ UNCHANGED <<cached, draft, accepted, observed, publishing>>
        /\ atDesk' = [atDesk EXCEPT ![o] = AwayFromDesk]
    BY <1>9 DEF DeskWrites, VerdictsStay
  <2>3. \A u \in DeskOperators : atDesk'[u] \in {atDesk[u], AwayFromDesk}
    BY <2>2 DEF FakeInv, FakeTyped
  <2>4. c.attempt \in Attempts
    BY <2>1 DEF DeskCommands
  <2>5. desk \in [Attempts -> DeskStatuses] /\ review \in [Attempts \X ReviewTypes -> {"none", "queued", "completed"}]
    BY DEF FakeInv, FakeTyped
  <2>6. /\ desk' \in [Attempts -> DeskStatuses]
        /\ review' \in [Attempts \X ReviewTypes -> {"none", "queued", "completed"}]
        /\ DeskSound'
    <3>1. ASSUME NEW to \in {"unknown", "succeeded", "failed"}, NEW r \in {"queued", "completed"},
                 desk' = [desk EXCEPT ![c.attempt] = to],
                 review' = [review EXCEPT ![<<c.attempt, "unknown_result">>] = r]
          PROVE  /\ desk' \in [Attempts -> DeskStatuses]
                 /\ review' \in [Attempts \X ReviewTypes -> {"none", "queued", "completed"}]
                 /\ DeskSound'
      <4> HIDE DEF c
      <4>1. desk' \in [Attempts -> DeskStatuses]
        BY <2>4, <2>5, <3>1 DEF DeskStatuses
      <4>2. <<c.attempt, "unknown_result">> \in Attempts \X ReviewTypes
        BY <2>4 DEF ReviewTypes
      <4>3. review' \in [Attempts \X ReviewTypes -> {"none", "queued", "completed"}]
        BY <2>5, <3>1, <4>2
      <4>4. \A b \in Attempts :
               /\ desk'[b] = IF b = c.attempt THEN to ELSE desk[b]
               /\ review'[<<b, "support_escalation">>] = review[<<b, "support_escalation">>]
               /\ review'[<<b, "unknown_result">>] # "none" <=> (b = c.attempt \/ review[<<b, "unknown_result">>] # "none")
        BY <2>4, <2>5, <3>1, <4>2 DEF ReviewTypes
      <4>5. \A u \in DeskOperators : atDesk'[u] # AwayFromDesk => accepted'[atDesk'[u].attempt].result = "failed"
        BY <2>2, <2>3 DEF FakeInv, DeskSound
      <4> QED BY <2>1, <2>2, <4>1, <4>3, <4>4, <4>5 DEF FakeInv, DeskSound
    <3>2. CASE Bury(c.attempt) \/ UNCHANGED <<desk, review>>
      <4> HIDE DEF c
      <4> QED BY <2>1, <2>2, <2>3, <2>4, <3>2, Buried
    <3>3. CASE MarkUnknown(c)
      <4>1. Task(c.attempt, "unknown_result") \in {"queued", "completed"}
        <5> HIDE DEF c
        <5>1. <<c.attempt, "unknown_result">> \in Attempts \X ReviewTypes
          BY <2>4 DEF ReviewTypes
        <5> QED BY <2>5, <5>1 DEF Task
      <4> HIDE DEF c
      <4> QED BY <3>1, <3>2, <3>3, <4>1 DEF MarkUnknown
    <3>4. CASE DeadLetter(c)
      <4> HIDE DEF c
      <4> QED BY <3>2, <3>4 DEF DeadLetter
    <3>5. CASE ResolveUnknown(c)
      <4> HIDE DEF c
      <4> QED BY <3>1, <3>5 DEF ResolveUnknown
    <3>6. CASE ReplayOne(c)
      <4> HIDE DEF c
      <4> QED BY <3>2, <3>6 DEF ReplayOne
    <3> QED BY <1>9, <3>3, <3>4, <3>5, <3>6 DEF DeskWrites
  <2>7. planned' \subseteq Attempts
    <3>1. planned \subseteq Attempts
      BY DEF FakeInv, FakeTyped
    <3> QED BY <1>9, <2>4, <3>1 DEF DeskWrites, MarkUnknown, DeadLetter, ResolveUnknown, ReplayOne
  <2>8. FakeTyped'
    BY <2>2, <2>6, <2>7 DEF FakeInv, FakeTyped
  <2> QED BY <1>0, <2>2, <2>6, <2>8 DEF FakeInv
<1>10. ASSUME NEW o \in DeskOperators, NEW a \in Attempts,
              NEW c \in {"unknown", "dead_letter", "succeeded", "failed", "replay"}, AskDesk(o, a, c)
       PROVE  FakeInv'
  <2>1. [at |-> c, attempt |-> a, was |-> desk[a]] \in DeskCommands
    BY DEF DeskCommands, FakeInv, FakeTyped
  <2>2. FakeTyped'
    BY <1>10, <2>1 DEF AskDesk, FakeInv, FakeTyped
  <2>3. DeskSound'
    BY <1>10 DEF AskDesk, FakeInv, FakeTyped, DeskSound
  <2> QED BY <1>10, <2>2, <2>3 DEF AskDesk, FakeInv
<1>11. CASE UNCHANGED fakeVars
  BY <1>11 DEF fakeVars, FakeInv, FakeTyped, DeskSound
<1> QED
  BY <1>1, <1>2, <1>3, <1>4, <1>5, <1>6, <1>7, <1>8, <1>9, <1>10, <1>11 DEF FakeNext

\* Verdicts, the calls that carry them and the desk fit together, for any
\* numbers of publications, threads, operators and attempts.
THEOREM FakeSound == FakeSpec => []FakeInv
<1>1. FakeInit => FakeInv
  BY FakeStarts
<1>2. FakeInv /\ [FakeNext]_fakeVars => FakeInv'
  BY FakeKeeps
<1> QED BY <1>1, <1>2, PTL DEF FakeSpec

\* An attempt that operators review is none whose publication was observed, and
\* what awaits an operator has a task, whichever calls race.
THEOREM OneVerdictAlways == FakeSpec => []OneVerdict
<1>1. FakeInv => OneVerdict
  <2> SUFFICES ASSUME FakeInv PROVE OneVerdict
    OBVIOUS
  <2>1. ASSUME NEW a \in Attempts, desk[a] # "none", a[2] = 1, NEW d \in observed, d[1] = a[1]
        PROVE  FALSE
    <3>1. a = <<d[1], 1>>
      BY <2>1 DEF Attempts
    <3> QED BY <2>1, <3>1 DEF FakeInv, DeskSound
  <2> QED BY <2>1 DEF FakeInv, DeskSound, OneVerdict
<1> QED BY <1>1, FakeSound, PTL

-----------------------------------------------------------------------------
(* A set of positions that is not empty has a least one.                   *)
LEMMA LeastIn ==
    ASSUME NEW S, S \subseteq Nat, S # {}
    PROVE  \E x \in S : \A y \in S : x <= y
<1>1. PICK x \in S : \A y \in S : <<y, x>> \notin OpToRel(<, Nat)
  BY WFMin, NatLessThanWellFounded
<1>2. \A y \in S : ~(y < x)
  BY <1>1 DEF OpToRel
<1> QED
  BY <1>2

(* The gate. What was answered is the judgement of what was asked.         *)
JudgedWell(q) == q.facts \in FactSets /\ q.answer = Judgement(q.snapshot, q.facts, q.now)

GateInv ==
    /\ DOMAIN judged = GateKeys /\ \A k \in GateKeys : judged[k] = NotAsked \/ JudgedWell(judged[k])
    /\ DOMAIN looked = GateKeys
    /\ \A k \in GateKeys : looked[k] = NotAsked \/ looked[k].answer = Lifecycle(looked[k].snapshot, looked[k].now)
    /\ \A k \in GateKeys : k \in reviewTasks <=> looked[k] # NotAsked /\ looked[k].answer = "manual_review"

LEMMA GateStarts == GateInit => GateInv
BY DEF GateInit, GateInv

LEMMA GateGoes == ASSUME GateInv, GateNext PROVE GateInv'
<1>1. PICK k \in GateKeys, s \in Snapshots, now \in 0 .. LastGateHour :
          CheckSnapshot(k, s, now) \/ \E f \in FactSets : Evaluate(k, s, f, now)
  BY DEF GateNext
<1>2. CASE CheckSnapshot(k, s, now)
  <2>1. PICK answer : answer = Lifecycle(s, now)
    OBVIOUS
  <2> DEFINE q == [now |-> now, snapshot |-> s, answer |-> answer]
  <2>2. /\ looked[k] = NotAsked /\ looked' = [looked EXCEPT ![k] = q] /\ judged' = judged
        /\ reviewTasks' = IF answer = "manual_review" THEN reviewTasks \cup {k} ELSE reviewTasks
    BY <1>2, <2>1 DEF CheckSnapshot
  <2>3. q # NotAsked /\ q.answer = answer /\ q.snapshot = s /\ q.now = now
    BY GateBounds DEF NotAsked
  <2> HIDE DEF q
  <2>4. looked'[k] = q /\ DOMAIN looked' = GateKeys /\ \A l \in GateKeys : l # k => looked'[l] = looked[l]
    BY <2>2 DEF GateInv
  <2>5. \A l \in GateKeys : looked'[l] = NotAsked \/ looked'[l].answer = Lifecycle(looked'[l].snapshot, looked'[l].now)
    BY <2>1, <2>3, <2>4 DEF GateInv
  <2>6. \A l \in GateKeys : l \in reviewTasks' <=> looked'[l] # NotAsked /\ looked'[l].answer = "manual_review"
    BY <2>2, <2>3, <2>4 DEF GateInv
  <2> QED
    BY <2>2, <2>4, <2>5, <2>6 DEF GateInv
<1>3. CASE \E f \in FactSets : Evaluate(k, s, f, now)
  <2>1. PICK f \in FactSets : Evaluate(k, s, f, now)
    BY <1>3
  <2>2. PICK answer : answer = Judgement(s, f, now)
    OBVIOUS
  <2> DEFINE q == [now |-> now, snapshot |-> s, facts |-> f, answer |-> answer]
  <2>3. judged' = [judged EXCEPT ![k] = q] /\ UNCHANGED <<looked, reviewTasks>>
    BY <2>1, <2>2 DEF Evaluate
  <2>4. JudgedWell(q)
    BY <2>2 DEF JudgedWell
  <2> HIDE DEF q
  <2>5. DOMAIN judged' = GateKeys /\ \A l \in GateKeys : judged'[l] = NotAsked \/ JudgedWell(judged'[l])
    BY <2>3, <2>4 DEF GateInv
  <2> QED
    BY <2>3, <2>5 DEF GateInv
<1> QED
  BY <1>1, <1>2, <1>3

LEMMA GateStays == GateInv /\ UNCHANGED gateVars => GateInv'
BY DEF GateInv, gateVars

(* The list of rules, and what the last of them that holds decides.        *)
RuleRow == [when : BOOLEAN, which : SUBSET Subjects6, value : {"deny", "manual_review", "unknown"}]

LEMMA TwoLists ==
    ASSUME NEW S, NEW a, NEW b, a \in Seq(S), b \in Seq(S), Len(a) = 20, Len(b) = 4
    PROVE  /\ DOMAIN (a \o b) = 1 .. 24
           /\ \A n \in 1 .. 20 : (a \o b)[n] = a[n]
           /\ \A n \in 21 .. 24 : (a \o b)[n] = b[n - 20]
<1>1. a \o b \in Seq(S) /\ Len(a \o b) = Len(a) + Len(b)
  BY ConcatProperties
<1>2. \A n \in 1 .. Len(a) + Len(b) : (a \o b)[n] = IF n <= Len(a) THEN a[n] ELSE b[n - Len(a)]
  BY ConcatProperties
<1>3. PICK c, la, lb : c = a \o b /\ la = Len(a) /\ lb = Len(b)
  OBVIOUS
<1>4. \A n \in 1 .. la + lb : c[n] = IF n <= la THEN a[n] ELSE b[n - la]
  BY <1>2, <1>3, Zenon
<1>5. la = 20 /\ lb = 4 /\ c \in Seq(S) /\ Len(c) = 24
  BY <1>1, <1>3
<1>6. DOMAIN c = 1 .. 24
  BY <1>5, LenProperties
<1>7. \A n \in 1 .. 20 : c[n] = a[n]
  <2> SUFFICES ASSUME NEW n \in 1 .. 20 PROVE c[n] = a[n]
    OBVIOUS
  <2>1. n \in 1 .. la + lb /\ n <= la
    BY <1>5
  <2> QED
    BY <1>4, <2>1
<1>8. \A n \in 21 .. 24 : c[n] = b[n - 20]
  <2> SUFFICES ASSUME NEW n \in 21 .. 24 PROVE c[n] = b[n - 20]
    OBVIOUS
  <2>1. n \in 1 .. la + lb /\ ~(n <= la)
    BY <1>5
  <2>2. c[n] = b[n - la]
    BY <1>4, <2>1
  <2> QED
    BY <1>5, <2>2
<1> QED
  BY <1>3, <1>6, <1>7, <1>8, Zenon

LEMMA RuledLast ==
    ASSUME NEW rules, DOMAIN rules = 1 .. 24, NEW p
    PROVE  LET Hit(n) == rules[n].when /\ p \in rules[n].which IN
           \/ Ruled(rules, p) = "allow" /\ \A n \in 1 .. 24 : ~Hit(n)
           \/ \E n \in 1 .. 24 : Hit(n) /\ Ruled(rules, p) = rules[n].value /\ \A m \in n + 1 .. 24 : ~Hit(m)
<1> DEFINE Hit(n) == rules[n].when /\ p \in rules[n].which
<1>1. PICK hits : hits = {n \in DOMAIN rules : Hit(n)}
  OBVIOUS
<1>2. Ruled(rules, p) = IF hits = {} THEN "allow" ELSE rules[Max(hits)].value
  BY <1>1 DEF Ruled
<1>3. CASE hits = {}
  BY <1>1, <1>2, <1>3
<1>4. CASE hits # {}
  <2>1. PICK left : left = {24 - n : n \in hits}
    OBVIOUS
  <2>2. left \subseteq Nat /\ left # {}
    BY <1>1, <1>4, <2>1
  <2>3. PICK least \in left : \A x \in left : least <= x
    BY <2>2, LeastIn
  <2>4. PICK top \in hits : least = 24 - top
    BY <2>1, <2>3
  <2>5. \A n \in hits : n \in 1 .. 24
    BY <1>1
  <2>6. \A n \in hits : top >= n
    <3> SUFFICES ASSUME NEW n \in hits PROVE top >= n
      OBVIOUS
    <3>1. 24 - n \in left
      BY <2>1
    <3> QED
      BY <2>3, <2>4, <2>5, <3>1
  <2>7. Max(hits) \in hits /\ \A n \in hits : Max(hits) >= n
    BY <2>4, <2>6 DEF Max
  <2>8. PICK m : m = Max(hits)
    OBVIOUS
  <2>9. m \in 1 .. 24 /\ Hit(m) /\ Ruled(rules, p) = rules[m].value
    BY <1>1, <1>2, <1>4, <2>7, <2>8
  <2>10. \A n \in m + 1 .. 24 : ~Hit(n)
    <3> SUFFICES ASSUME NEW n \in m + 1 .. 24, Hit(n) PROVE FALSE
      OBVIOUS
    <3>1. n \in hits
      BY <1>1, <2>9
    <3> QED
      BY <2>5, <2>7, <2>8, <2>9, <3>1
  <2> QED
    BY <2>9, <2>10
<1> QED
  BY <1>3, <1>4

HighRisk(f) == RiskOf(f.risks) \in {"R3", "R4"}

ContentSays(s, f, now) ==
    IF SnapshotDenied(s, now) \/ HighRisk(f) \/ f.qa = "failed" THEN "deny"
    ELSE IF RiskOf(f.risks) = "R2" \/ f.qa \in {"needs_review", "unknown"} THEN "manual_review" ELSE "allow"

RegionSays(s, f, now) ==
    IF SnapshotDenied(s, now) \/ f.region = "deny" THEN "deny"
    ELSE IF f.region = "unknown" THEN "manual_review" ELSE "allow"

DistributionSays(s, f, now) ==
    IF \/ SnapshotDenied(s, now) \/ HighRisk(f) \/ f.rights = "no" \/ f.region = "deny"
       \/ f.release.level \in Levels /\ f.release.mode \notin ModesOf(f.release.level)
       \/ f.approval \in {"denied", "denied_short"}
    THEN "deny"
    ELSE IF \/ f.outside = "unknown" \/ f.approval = "short"
            \/ f.account \notin {"revoked", "healthy"} /\ ~NoAccountNeeded(f) THEN "manual_review"
    ELSE IF f.release.mode \notin ModesOf(f.release.level) THEN "deny"
    ELSE IF RiskOf(f.risks) = "R2" \/ f.rights = "unknown" \/ f.region = "unknown" THEN "manual_review"
    ELSE "allow"

AccountSays(s, f, now) ==
    IF f.account \notin {"revoked", "healthy"} /\ ~NoAccountNeeded(f) THEN "unknown"
    ELSE IF f.account = "revoked" THEN "deny" ELSE "allow"

DataSays(s, f, now) ==
    IF f.data = "unknown" THEN "manual_review" ELSE IF f.data = "no" THEN "deny" ELSE "allow"

ModelSays(s, f, now) ==
    IF f.model = "unknown" THEN "manual_review" ELSE IF f.model = "no" THEN "deny" ELSE "allow"

LEMMA PoliciesRuled ==
    ASSUME NEW s, NEW f, NEW now
    PROVE  /\ Ruled(Checks(s, f, now) \o HardBlocks(s, f, now), "content") = ContentSays(s, f, now)
           /\ Ruled(Checks(s, f, now) \o HardBlocks(s, f, now), "region") = RegionSays(s, f, now)
           /\ Ruled(Checks(s, f, now) \o HardBlocks(s, f, now), "distribution") = DistributionSays(s, f, now)
           /\ Ruled(Checks(s, f, now) \o HardBlocks(s, f, now), "account") = AccountSays(s, f, now)
           /\ Ruled(Checks(s, f, now) \o HardBlocks(s, f, now), "data") = DataSays(s, f, now)
           /\ Ruled(Checks(s, f, now) \o HardBlocks(s, f, now), "model") = ModelSays(s, f, now)
<1>1. PICK r1, r2, r3, r4, r5, r6, r7, r8, r9, r10, r11, r12, r13, r14, r15, r16, r17, r18, r19, r20 :
          /\ r1 = Rule(SnapshotDenied(s, now), {"content", "region", "distribution"}, "deny")
          /\ r2 = Rule(RiskOf(f.risks) \in {"R3", "R4"}, {"content", "distribution"}, "deny")
          /\ r3 = Rule(RiskOf(f.risks) = "R2", {"content", "distribution"}, "manual_review")
          /\ r4 = Rule(f.qa = "failed", {"content"}, "deny")
          /\ r5 = Rule(f.qa \in {"needs_review", "unknown"}, {"content"}, "manual_review")
          /\ r6 = Rule(f.rights = "no", {"distribution"}, "deny")
          /\ r7 = Rule(f.rights = "unknown", {"distribution"}, "manual_review")
          /\ r8 = Rule(f.region = "deny", {"region", "distribution"}, "deny")
          /\ r9 = Rule(f.region = "unknown", {"region", "distribution"}, "manual_review")
          /\ r10 = Rule(f.release.mode \notin ModesOf(f.release.level), {"distribution"}, "deny")
          /\ r11 = Rule(f.account = "revoked", {"account"}, "deny")
          /\ r12 = Rule(f.account \notin {"revoked", "healthy"} /\ ~NoAccountNeeded(f), {"account"}, "unknown")
          /\ r13 = Rule(f.account \notin {"revoked", "healthy"} /\ ~NoAccountNeeded(f), {"distribution"}, "manual_review")
          /\ r14 = Rule(f.data = "no", {"data"}, "deny")
          /\ r15 = Rule(f.data = "unknown", {"data"}, "manual_review")
          /\ r16 = Rule(f.model = "no", {"model"}, "deny")
          /\ r17 = Rule(f.model = "unknown", {"model"}, "manual_review")
          /\ r18 = Rule(f.approval \in {"denied", "denied_short"}, {"distribution"}, "deny")
          /\ r19 = Rule(f.approval \in {"short", "denied_short"}, {"distribution"}, "manual_review")
          /\ r20 = Rule(f.outside = "unknown", {"distribution"}, "manual_review")
  OBVIOUS
<1>2. PICK r21, r22, r23, r24 :
          /\ r21 = Rule(SnapshotDenied(s, now), {"content", "region", "distribution"}, "deny")
          /\ r22 = Rule(f.qa = "failed" \/ RiskOf(f.risks) \in {"R3", "R4"}, {"content"}, "deny")
          /\ r23 = Rule(\/ RiskOf(f.risks) \in {"R3", "R4"} \/ f.rights = "no" \/ f.region = "deny"
                        \/ f.release.level \in Levels /\ f.release.mode \notin ModesOf(f.release.level)
                        \/ f.approval \in {"denied", "denied_short"}, {"distribution"}, "deny")
          /\ r24 = Rule(f.region = "deny", {"region"}, "deny")
  OBVIOUS
<1>3. /\ r1 \in RuleRow /\ r2 \in RuleRow /\ r3 \in RuleRow /\ r4 \in RuleRow
      /\ r5 \in RuleRow /\ r6 \in RuleRow /\ r7 \in RuleRow /\ r8 \in RuleRow
      /\ r9 \in RuleRow /\ r10 \in RuleRow /\ r11 \in RuleRow /\ r12 \in RuleRow
      /\ r13 \in RuleRow /\ r14 \in RuleRow /\ r15 \in RuleRow /\ r16 \in RuleRow
      /\ r17 \in RuleRow /\ r18 \in RuleRow /\ r19 \in RuleRow /\ r20 \in RuleRow
  BY <1>1 DEF SnapshotDenied, Rule, RuleRow, Subjects6
<1>4. /\ r21 \in RuleRow /\ r22 \in RuleRow /\ r23 \in RuleRow /\ r24 \in RuleRow
  BY <1>2 DEF SnapshotDenied, Rule, RuleRow, Subjects6
<1>5. PICK a, b : /\ a = <<r1, r2, r3, r4, r5, r6, r7, r8, r9, r10, r11, r12, r13, r14, r15, r16, r17, r18, r19, r20>>
                  /\ b = <<r21, r22, r23, r24>>
  OBVIOUS
<1>6. Checks(s, f, now) \o HardBlocks(s, f, now) = a \o b
  <2>1. Checks(s, f, now) = a
    BY <1>1, <1>5 DEF Checks
  <2>2. HardBlocks(s, f, now) = b
    BY <1>2, <1>5 DEF HardBlocks
  <2> QED
    BY <2>1, <2>2
<1>7. a \in Seq(RuleRow) /\ Len(a) = 20 /\ b \in Seq(RuleRow) /\ Len(b) = 4
  BY <1>3, <1>4, <1>5
<1>8. /\ DOMAIN (a \o b) = 1 .. 24
      /\ \A n \in 1 .. 20 : (a \o b)[n] = a[n]
      /\ \A n \in 21 .. 24 : (a \o b)[n] = b[n - 20]
  <2>1. a \o b \in Seq(RuleRow) /\ Len(a \o b) = Len(a) + Len(b)
    BY <1>7, ConcatProperties
  <2>2. \A n \in 1 .. Len(a) + Len(b) : (a \o b)[n] = IF n <= Len(a) THEN a[n] ELSE b[n - Len(a)]
    BY <1>7, ConcatProperties
  <2>3. PICK c, la, lb : c = a \o b /\ la = Len(a) /\ lb = Len(b)
    OBVIOUS
  <2>4. \A n \in 1 .. la + lb : c[n] = IF n <= la THEN a[n] ELSE b[n - la]
    BY <2>2, <2>3, Zenon
  <2>5. la = 20 /\ lb = 4 /\ c \in Seq(RuleRow) /\ Len(c) = 24
    BY <1>7, <2>1, <2>3
  <2>6. DOMAIN c = 1 .. 24
    BY <2>5, LenProperties
  <2>7. \A n \in 1 .. 20 : c[n] = a[n]
    <3> SUFFICES ASSUME NEW n \in 1 .. 20 PROVE c[n] = a[n]
      OBVIOUS
    <3>1. n \in 1 .. la + lb /\ n <= la
      BY <2>5
    <3> QED
      BY <2>4, <3>1
  <2>8. \A n \in 21 .. 24 : c[n] = b[n - 20]
    <3> SUFFICES ASSUME NEW n \in 21 .. 24 PROVE c[n] = b[n - 20]
      OBVIOUS
    <3>1. n \in 1 .. la + lb /\ ~(n <= la)
      BY <2>5
    <3>2. c[n] = b[n - la]
      BY <2>4, <3>1
    <3> QED
      BY <2>5, <3>2
  <2> QED
    BY <2>3, <2>6, <2>7, <2>8, Zenon
<1>9. PICK list : list = Checks(s, f, now) \o HardBlocks(s, f, now)
  OBVIOUS
<1>10. /\ DOMAIN list = 1 .. 24
       /\ \A n \in 1 .. 20 : list[n] = a[n]
       /\ \A n \in 21 .. 24 : list[n] = b[n - 20]
  BY <1>6, <1>8, <1>9, Zenon
<1>11. /\ /\ a[1] = r1 /\ a[2] = r2 /\ a[3] = r3 /\ a[4] = r4
          /\ a[5] = r5 /\ a[6] = r6 /\ a[7] = r7 /\ a[8] = r8
          /\ a[9] = r9 /\ a[10] = r10 /\ a[11] = r11 /\ a[12] = r12
          /\ a[13] = r13 /\ a[14] = r14 /\ a[15] = r15 /\ a[16] = r16
          /\ a[17] = r17 /\ a[18] = r18 /\ a[19] = r19 /\ a[20] = r20
       /\ /\ b[1] = r21 /\ b[2] = r22 /\ b[3] = r23 /\ b[4] = r24
  BY <1>5
<1>12. /\ list[1] = r1 /\ list[2] = r2 /\ list[3] = r3 /\ list[4] = r4
       /\ list[5] = r5 /\ list[6] = r6 /\ list[7] = r7 /\ list[8] = r8
       /\ list[9] = r9 /\ list[10] = r10 /\ list[11] = r11 /\ list[12] = r12
       /\ list[13] = r13 /\ list[14] = r14 /\ list[15] = r15 /\ list[16] = r16
       /\ list[17] = r17 /\ list[18] = r18 /\ list[19] = r19 /\ list[20] = r20
  <2>1. /\ list[1] = a[1] /\ list[2] = a[2] /\ list[3] = a[3] /\ list[4] = a[4]
        /\ list[5] = a[5] /\ list[6] = a[6] /\ list[7] = a[7] /\ list[8] = a[8]
        /\ list[9] = a[9] /\ list[10] = a[10] /\ list[11] = a[11] /\ list[12] = a[12]
        /\ list[13] = a[13] /\ list[14] = a[14] /\ list[15] = a[15] /\ list[16] = a[16]
        /\ list[17] = a[17] /\ list[18] = a[18] /\ list[19] = a[19] /\ list[20] = a[20]
    BY <1>10
  <2> QED
    BY <1>11, <2>1
<1>13. /\ list[21] = r21 /\ list[22] = r22 /\ list[23] = r23 /\ list[24] = r24
  <2>1. /\ list[21] = b[1] /\ list[22] = b[2] /\ list[23] = b[3] /\ list[24] = b[4]
    BY <1>10
  <2> QED
    BY <1>11, <2>1
<1>14. \A n \in 1 .. 24 : n \in {1, 2, 3, 4, 5, 6, 7, 8, 9, 10, 11, 12, 13, 14, 15, 16, 17, 18, 19, 20, 21, 22, 23, 24}
  OBVIOUS
<1>15. Ruled(list, "content") = ContentSays(s, f, now)
  <2>1. /\ "content" \notin list[6].which /\ "content" \notin list[7].which /\ "content" \notin list[8].which /\ "content" \notin list[9].which
        /\ "content" \notin list[10].which /\ "content" \notin list[11].which /\ "content" \notin list[12].which /\ "content" \notin list[13].which
        /\ "content" \notin list[14].which /\ "content" \notin list[15].which /\ "content" \notin list[16].which /\ "content" \notin list[17].which
        /\ "content" \notin list[18].which /\ "content" \notin list[19].which /\ "content" \notin list[20].which /\ "content" \notin list[23].which
        /\ "content" \notin list[24].which
    BY <1>1, <1>2, <1>12, <1>13 DEF Rule
  <2>2. /\ "content" \in list[1].which /\ "content" \in list[2].which /\ "content" \in list[3].which /\ "content" \in list[4].which
        /\ "content" \in list[5].which /\ "content" \in list[21].which /\ "content" \in list[22].which
    BY <1>1, <1>2, <1>12, <1>13 DEF Rule
  <2>3. \A n \in 1 .. 24 : list[n].when /\ "content" \in list[n].which => n \in {1, 2, 3, 4, 5, 21, 22}
    BY <1>14, <2>1
  <2>4. \/ Ruled(list, "content") = "allow" /\ \A n \in 1 .. 24 : ~(list[n].when /\ "content" \in list[n].which)
        \/ \E n \in 1 .. 24 : /\ list[n].when /\ "content" \in list[n].which /\ Ruled(list, "content") = list[n].value
                           /\ \A m \in n + 1 .. 24 : ~(list[m].when /\ "content" \in list[m].which)
    BY <1>10, RuledLast, Zenon
  <2>5. \/ Ruled(list, "content") = "allow" /\ \A n \in {1, 2, 3, 4, 5, 21, 22} : ~list[n].when
        \/ \E n \in {1, 2, 3, 4, 5, 21, 22} : /\ list[n].when /\ Ruled(list, "content") = list[n].value
                         /\ \A m \in {1, 2, 3, 4, 5, 21, 22} : m > n => ~list[m].when
    BY <2>2, <2>3, <2>4, SMTT(60)
  <2>6. /\ list[1].when = (SnapshotDenied(s, now))
        /\ list[2].when = (RiskOf(f.risks) \in {"R3", "R4"})
        /\ list[3].when = (RiskOf(f.risks) = "R2")
        /\ list[4].when = (f.qa = "failed")
        /\ list[5].when = (f.qa \in {"needs_review", "unknown"})
        /\ list[21].when = (SnapshotDenied(s, now))
        /\ list[22].when = (f.qa = "failed" \/ RiskOf(f.risks) \in {"R3", "R4"})
    BY <1>1, <1>2, <1>12, <1>13 DEF Rule
  <2>7. /\ list[1].value = "deny" /\ list[2].value = "deny" /\ list[3].value = "manual_review" /\ list[4].value = "deny"
        /\ list[5].value = "manual_review" /\ list[21].value = "deny" /\ list[22].value = "deny"
    BY <1>1, <1>2, <1>12, <1>13 DEF Rule
  <2>8. /\ list[1].when <=> (SnapshotDenied(s, now))
        /\ list[2].when <=> (RiskOf(f.risks) \in {"R3", "R4"})
        /\ list[3].when <=> (RiskOf(f.risks) = "R2")
        /\ list[4].when <=> (f.qa = "failed")
        /\ list[5].when <=> (f.qa \in {"needs_review", "unknown"})
        /\ list[21].when <=> (SnapshotDenied(s, now))
        /\ list[22].when <=> (f.qa = "failed" \/ RiskOf(f.risks) \in {"R3", "R4"})
    BY <2>6
  <2> QED
    BY <2>5, <2>7, <2>8 DEF ContentSays, HighRisk
<1>16. Ruled(list, "region") = RegionSays(s, f, now)
  <2>1. /\ "region" \notin list[2].which /\ "region" \notin list[3].which /\ "region" \notin list[4].which /\ "region" \notin list[5].which
        /\ "region" \notin list[6].which /\ "region" \notin list[7].which /\ "region" \notin list[10].which /\ "region" \notin list[11].which
        /\ "region" \notin list[12].which /\ "region" \notin list[13].which /\ "region" \notin list[14].which /\ "region" \notin list[15].which
        /\ "region" \notin list[16].which /\ "region" \notin list[17].which /\ "region" \notin list[18].which /\ "region" \notin list[19].which
        /\ "region" \notin list[20].which /\ "region" \notin list[22].which /\ "region" \notin list[23].which
    BY <1>1, <1>2, <1>12, <1>13 DEF Rule
  <2>2. /\ "region" \in list[1].which /\ "region" \in list[8].which /\ "region" \in list[9].which /\ "region" \in list[21].which
        /\ "region" \in list[24].which
    BY <1>1, <1>2, <1>12, <1>13 DEF Rule
  <2>3. \A n \in 1 .. 24 : list[n].when /\ "region" \in list[n].which => n \in {1, 8, 9, 21, 24}
    BY <1>14, <2>1
  <2>4. \/ Ruled(list, "region") = "allow" /\ \A n \in 1 .. 24 : ~(list[n].when /\ "region" \in list[n].which)
        \/ \E n \in 1 .. 24 : /\ list[n].when /\ "region" \in list[n].which /\ Ruled(list, "region") = list[n].value
                           /\ \A m \in n + 1 .. 24 : ~(list[m].when /\ "region" \in list[m].which)
    BY <1>10, RuledLast, Zenon
  <2>5. \/ Ruled(list, "region") = "allow" /\ \A n \in {1, 8, 9, 21, 24} : ~list[n].when
        \/ \E n \in {1, 8, 9, 21, 24} : /\ list[n].when /\ Ruled(list, "region") = list[n].value
                         /\ \A m \in {1, 8, 9, 21, 24} : m > n => ~list[m].when
    BY <2>2, <2>3, <2>4, SMTT(60)
  <2>6. /\ list[1].when = (SnapshotDenied(s, now))
        /\ list[8].when = (f.region = "deny")
        /\ list[9].when = (f.region = "unknown")
        /\ list[21].when = (SnapshotDenied(s, now))
        /\ list[24].when = (f.region = "deny")
    BY <1>1, <1>2, <1>12, <1>13 DEF Rule
  <2>7. /\ list[1].value = "deny" /\ list[8].value = "deny" /\ list[9].value = "manual_review" /\ list[21].value = "deny"
        /\ list[24].value = "deny"
    BY <1>1, <1>2, <1>12, <1>13 DEF Rule
  <2>8. /\ list[1].when <=> (SnapshotDenied(s, now))
        /\ list[8].when <=> (f.region = "deny")
        /\ list[9].when <=> (f.region = "unknown")
        /\ list[21].when <=> (SnapshotDenied(s, now))
        /\ list[24].when <=> (f.region = "deny")
    BY <2>6
  <2> QED
    BY <2>5, <2>7, <2>8 DEF RegionSays, HighRisk
<1>17. Ruled(list, "distribution") = DistributionSays(s, f, now)
  <2>1. /\ "distribution" \notin list[4].which /\ "distribution" \notin list[5].which /\ "distribution" \notin list[11].which /\ "distribution" \notin list[12].which
        /\ "distribution" \notin list[14].which /\ "distribution" \notin list[15].which /\ "distribution" \notin list[16].which /\ "distribution" \notin list[17].which
        /\ "distribution" \notin list[22].which /\ "distribution" \notin list[24].which
    BY <1>1, <1>2, <1>12, <1>13 DEF Rule
  <2>2. /\ "distribution" \in list[1].which /\ "distribution" \in list[2].which /\ "distribution" \in list[3].which /\ "distribution" \in list[6].which
        /\ "distribution" \in list[7].which /\ "distribution" \in list[8].which /\ "distribution" \in list[9].which /\ "distribution" \in list[10].which
        /\ "distribution" \in list[13].which /\ "distribution" \in list[18].which /\ "distribution" \in list[19].which /\ "distribution" \in list[20].which
        /\ "distribution" \in list[21].which /\ "distribution" \in list[23].which
    BY <1>1, <1>2, <1>12, <1>13 DEF Rule
  <2>3. \A n \in 1 .. 24 : list[n].when /\ "distribution" \in list[n].which => n \in {1, 2, 3, 6, 7, 8, 9, 10, 13, 18, 19, 20, 21, 23}
    BY <1>14, <2>1
  <2>4. \/ Ruled(list, "distribution") = "allow" /\ \A n \in 1 .. 24 : ~(list[n].when /\ "distribution" \in list[n].which)
        \/ \E n \in 1 .. 24 : /\ list[n].when /\ "distribution" \in list[n].which /\ Ruled(list, "distribution") = list[n].value
                           /\ \A m \in n + 1 .. 24 : ~(list[m].when /\ "distribution" \in list[m].which)
    BY <1>10, RuledLast, Zenon
  <2>5. \/ Ruled(list, "distribution") = "allow" /\ \A n \in {1, 2, 3, 6, 7, 8, 9, 10, 13, 18, 19, 20, 21, 23} : ~list[n].when
        \/ \E n \in {1, 2, 3, 6, 7, 8, 9, 10, 13, 18, 19, 20, 21, 23} : /\ list[n].when /\ Ruled(list, "distribution") = list[n].value
                         /\ \A m \in {1, 2, 3, 6, 7, 8, 9, 10, 13, 18, 19, 20, 21, 23} : m > n => ~list[m].when
    <3>1. PICK places : places = {1, 2, 3, 6, 7, 8, 9, 10, 13, 18, 19, 20, 21, 23}
      OBVIOUS
    <3>2. \A n \in places : n \in 1 .. 24 /\ "distribution" \in list[n].which
      BY <2>2, <3>1
    <3>3. \A n \in 1 .. 24 : list[n].when /\ "distribution" \in list[n].which => n \in places
      BY <2>3, <3>1, Zenon
    <3>4. CASE Ruled(list, "distribution") = "allow" /\ \A n \in 1 .. 24 : ~(list[n].when /\ "distribution" \in list[n].which)
      <4>1. Ruled(list, "distribution") = "allow" /\ \A n \in places : ~list[n].when
        BY <3>2, <3>4
      <4> QED
        BY <3>1, <4>1, Zenon
    <3>5. CASE \E n \in 1 .. 24 : /\ list[n].when /\ "distribution" \in list[n].which /\ Ruled(list, "distribution") = list[n].value
                               /\ \A m \in n + 1 .. 24 : ~(list[m].when /\ "distribution" \in list[m].which)
      <4>1. PICK n \in places : /\ list[n].when /\ Ruled(list, "distribution") = list[n].value
                                /\ \A m \in n + 1 .. 24 : ~(list[m].when /\ "distribution" \in list[m].which)
        BY <3>3, <3>5, Zenon
      <4>2. ASSUME NEW m \in places, m > n
            PROVE  ~list[m].when
        <5>1. m \in n + 1 .. 24
          BY <3>2, <4>2
        <5> QED
          BY <3>2, <4>1, <4>2, <5>1, Zenon
      <4>3. \E x \in places : /\ list[x].when /\ Ruled(list, "distribution") = list[x].value
                             /\ \A m \in places : m > x => ~list[m].when
        BY <4>1, <4>2, Zenon
      <4> QED
        BY <3>1, <4>3, Zenon
    <3> QED
      BY <2>4, <3>4, <3>5
  <2>6. /\ list[1].when = (SnapshotDenied(s, now))
        /\ list[2].when = (RiskOf(f.risks) \in {"R3", "R4"})
        /\ list[3].when = (RiskOf(f.risks) = "R2")
        /\ list[6].when = (f.rights = "no")
        /\ list[7].when = (f.rights = "unknown")
        /\ list[8].when = (f.region = "deny")
        /\ list[9].when = (f.region = "unknown")
        /\ list[10].when = (f.release.mode \notin ModesOf(f.release.level))
        /\ list[13].when = (f.account \notin {"revoked", "healthy"} /\ ~NoAccountNeeded(f))
        /\ list[18].when = (f.approval \in {"denied", "denied_short"})
        /\ list[19].when = (f.approval \in {"short", "denied_short"})
        /\ list[20].when = (f.outside = "unknown")
        /\ list[21].when = (SnapshotDenied(s, now))
        /\ list[23].when = (\/ RiskOf(f.risks) \in {"R3", "R4"} \/ f.rights = "no" \/ f.region = "deny"
                            \/ f.release.level \in Levels /\ f.release.mode \notin ModesOf(f.release.level)
                            \/ f.approval \in {"denied", "denied_short"})
    BY <1>1, <1>2, <1>12, <1>13 DEF Rule
  <2>7. /\ list[1].value = "deny" /\ list[2].value = "deny" /\ list[3].value = "manual_review" /\ list[6].value = "deny"
        /\ list[7].value = "manual_review" /\ list[8].value = "deny" /\ list[9].value = "manual_review" /\ list[10].value = "deny"
        /\ list[13].value = "manual_review" /\ list[18].value = "deny" /\ list[19].value = "manual_review" /\ list[20].value = "manual_review"
        /\ list[21].value = "deny" /\ list[23].value = "deny"
    BY <1>1, <1>2, <1>12, <1>13 DEF Rule
  <2>8. /\ list[1].when <=> (SnapshotDenied(s, now))
        /\ list[2].when <=> (RiskOf(f.risks) \in {"R3", "R4"})
        /\ list[3].when <=> (RiskOf(f.risks) = "R2")
        /\ list[6].when <=> (f.rights = "no")
        /\ list[7].when <=> (f.rights = "unknown")
        /\ list[8].when <=> (f.region = "deny")
        /\ list[9].when <=> (f.region = "unknown")
    BY <2>6
  <2>9. /\ list[10].when <=> (f.release.mode \notin ModesOf(f.release.level))
        /\ list[13].when <=> (f.account \notin {"revoked", "healthy"} /\ ~NoAccountNeeded(f))
        /\ list[18].when <=> (f.approval \in {"denied", "denied_short"})
        /\ list[19].when <=> (f.approval \in {"short", "denied_short"})
        /\ list[20].when <=> (f.outside = "unknown")
        /\ list[21].when <=> (SnapshotDenied(s, now))
    BY <2>6
  <2>10. PICK hard \in BOOLEAN : hard <=> (HighRisk(f) \/ f.rights = "no" \/ f.region = "deny"
           \/ (f.release.level \in Levels /\ f.release.mode \notin ModesOf(f.release.level))
           \/ f.approval \in {"denied", "denied_short"})
    OBVIOUS
  <2>11. r23 = Rule(hard, {"distribution"}, "deny")
    BY <1>2, <2>10 DEF HighRisk
  <2>12. list[23].when = hard
    BY <1>13, <2>11 DEF Rule
  <2>13. CASE Ruled(list, "distribution") = "allow" /\ \A n \in {1, 2, 3, 6, 7, 8, 9, 10, 13, 18, 19, 20, 21, 23} : ~list[n].when
    BY <2>8, <2>9, <2>10, <2>12, <2>13 DEF DistributionSays, HighRisk
  <2>14. CASE \E n \in {1, 2, 3, 6, 7, 8, 9, 10, 13, 18, 19, 20, 21, 23} : /\ list[n].when /\ Ruled(list, "distribution") = list[n].value
                                 /\ \A m \in {1, 2, 3, 6, 7, 8, 9, 10, 13, 18, 19, 20, 21, 23} : m > n => ~list[m].when
    <3>1. PICK n \in {1, 2, 3, 6, 7, 8, 9, 10, 13, 18, 19, 20, 21, 23} : /\ list[n].when /\ Ruled(list, "distribution") = list[n].value
                                                                         /\ \A m \in {1, 2, 3, 6, 7, 8, 9, 10, 13, 18, 19, 20, 21, 23} : m > n => ~list[m].when
      BY <2>14
    <3>2. CASE n \in {1, 2, 6, 8, 18, 21, 23}
      BY <2>7, <2>8, <2>9, <2>10, <2>12, <3>1, <3>2 DEF DistributionSays, HighRisk
    <3>3. CASE n \in {13, 19, 20}
      BY <2>7, <2>8, <2>9, <2>10, <2>12, <3>1, <3>3 DEF DistributionSays, HighRisk
    <3>4. CASE n = 10
      BY <2>7, <2>8, <2>9, <2>10, <2>12, <3>1, <3>4 DEF DistributionSays, HighRisk
    <3>5. CASE n \in {3, 7, 9}
      BY <2>7, <2>8, <2>9, <2>10, <2>12, <3>1, <3>5 DEF DistributionSays, HighRisk
    <3> QED
      BY <3>1, <3>2, <3>3, <3>4, <3>5
  <2> QED
    BY <2>5, <2>13, <2>14
<1>18. Ruled(list, "account") = AccountSays(s, f, now)
  <2>1. /\ "account" \notin list[1].which /\ "account" \notin list[2].which /\ "account" \notin list[3].which /\ "account" \notin list[4].which
        /\ "account" \notin list[5].which /\ "account" \notin list[6].which /\ "account" \notin list[7].which /\ "account" \notin list[8].which
        /\ "account" \notin list[9].which /\ "account" \notin list[10].which /\ "account" \notin list[13].which /\ "account" \notin list[14].which
        /\ "account" \notin list[15].which /\ "account" \notin list[16].which /\ "account" \notin list[17].which /\ "account" \notin list[18].which
        /\ "account" \notin list[19].which /\ "account" \notin list[20].which /\ "account" \notin list[21].which /\ "account" \notin list[22].which
        /\ "account" \notin list[23].which /\ "account" \notin list[24].which
    BY <1>1, <1>2, <1>12, <1>13 DEF Rule
  <2>2. /\ "account" \in list[11].which /\ "account" \in list[12].which
    BY <1>1, <1>2, <1>12, <1>13 DEF Rule
  <2>3. \A n \in 1 .. 24 : list[n].when /\ "account" \in list[n].which => n \in {11, 12}
    BY <1>14, <2>1
  <2>4. \/ Ruled(list, "account") = "allow" /\ \A n \in 1 .. 24 : ~(list[n].when /\ "account" \in list[n].which)
        \/ \E n \in 1 .. 24 : /\ list[n].when /\ "account" \in list[n].which /\ Ruled(list, "account") = list[n].value
                           /\ \A m \in n + 1 .. 24 : ~(list[m].when /\ "account" \in list[m].which)
    BY <1>10, RuledLast, Zenon
  <2>5. \/ Ruled(list, "account") = "allow" /\ \A n \in {11, 12} : ~list[n].when
        \/ \E n \in {11, 12} : /\ list[n].when /\ Ruled(list, "account") = list[n].value
                         /\ \A m \in {11, 12} : m > n => ~list[m].when
    BY <2>2, <2>3, <2>4, SMTT(60)
  <2>6. /\ list[11].when = (f.account = "revoked")
        /\ list[12].when = (f.account \notin {"revoked", "healthy"} /\ ~NoAccountNeeded(f))
    BY <1>1, <1>2, <1>12, <1>13 DEF Rule
  <2>7. /\ list[11].value = "deny" /\ list[12].value = "unknown"
    BY <1>1, <1>2, <1>12, <1>13 DEF Rule
  <2>8. /\ list[11].when <=> (f.account = "revoked")
        /\ list[12].when <=> (f.account \notin {"revoked", "healthy"} /\ ~NoAccountNeeded(f))
    BY <2>6
  <2> QED
    BY <2>5, <2>7, <2>8 DEF AccountSays, HighRisk
<1>19. Ruled(list, "data") = DataSays(s, f, now)
  <2>1. /\ "data" \notin list[1].which /\ "data" \notin list[2].which /\ "data" \notin list[3].which /\ "data" \notin list[4].which
        /\ "data" \notin list[5].which /\ "data" \notin list[6].which /\ "data" \notin list[7].which /\ "data" \notin list[8].which
        /\ "data" \notin list[9].which /\ "data" \notin list[10].which /\ "data" \notin list[11].which /\ "data" \notin list[12].which
        /\ "data" \notin list[13].which /\ "data" \notin list[16].which /\ "data" \notin list[17].which /\ "data" \notin list[18].which
        /\ "data" \notin list[19].which /\ "data" \notin list[20].which /\ "data" \notin list[21].which /\ "data" \notin list[22].which
        /\ "data" \notin list[23].which /\ "data" \notin list[24].which
    BY <1>1, <1>2, <1>12, <1>13 DEF Rule
  <2>2. /\ "data" \in list[14].which /\ "data" \in list[15].which
    BY <1>1, <1>2, <1>12, <1>13 DEF Rule
  <2>3. \A n \in 1 .. 24 : list[n].when /\ "data" \in list[n].which => n \in {14, 15}
    BY <1>14, <2>1
  <2>4. \/ Ruled(list, "data") = "allow" /\ \A n \in 1 .. 24 : ~(list[n].when /\ "data" \in list[n].which)
        \/ \E n \in 1 .. 24 : /\ list[n].when /\ "data" \in list[n].which /\ Ruled(list, "data") = list[n].value
                           /\ \A m \in n + 1 .. 24 : ~(list[m].when /\ "data" \in list[m].which)
    BY <1>10, RuledLast, Zenon
  <2>5. \/ Ruled(list, "data") = "allow" /\ \A n \in {14, 15} : ~list[n].when
        \/ \E n \in {14, 15} : /\ list[n].when /\ Ruled(list, "data") = list[n].value
                         /\ \A m \in {14, 15} : m > n => ~list[m].when
    BY <2>2, <2>3, <2>4, SMTT(60)
  <2>6. /\ list[14].when = (f.data = "no")
        /\ list[15].when = (f.data = "unknown")
    BY <1>1, <1>2, <1>12, <1>13 DEF Rule
  <2>7. /\ list[14].value = "deny" /\ list[15].value = "manual_review"
    BY <1>1, <1>2, <1>12, <1>13 DEF Rule
  <2>8. /\ list[14].when <=> (f.data = "no")
        /\ list[15].when <=> (f.data = "unknown")
    BY <2>6
  <2> QED
    BY <2>5, <2>7, <2>8 DEF DataSays, HighRisk
<1>20. Ruled(list, "model") = ModelSays(s, f, now)
  <2>1. /\ "model" \notin list[1].which /\ "model" \notin list[2].which /\ "model" \notin list[3].which /\ "model" \notin list[4].which
        /\ "model" \notin list[5].which /\ "model" \notin list[6].which /\ "model" \notin list[7].which /\ "model" \notin list[8].which
        /\ "model" \notin list[9].which /\ "model" \notin list[10].which /\ "model" \notin list[11].which /\ "model" \notin list[12].which
        /\ "model" \notin list[13].which /\ "model" \notin list[14].which /\ "model" \notin list[15].which /\ "model" \notin list[18].which
        /\ "model" \notin list[19].which /\ "model" \notin list[20].which /\ "model" \notin list[21].which /\ "model" \notin list[22].which
        /\ "model" \notin list[23].which /\ "model" \notin list[24].which
    BY <1>1, <1>2, <1>12, <1>13 DEF Rule
  <2>2. /\ "model" \in list[16].which /\ "model" \in list[17].which
    BY <1>1, <1>2, <1>12, <1>13 DEF Rule
  <2>3. \A n \in 1 .. 24 : list[n].when /\ "model" \in list[n].which => n \in {16, 17}
    BY <1>14, <2>1
  <2>4. \/ Ruled(list, "model") = "allow" /\ \A n \in 1 .. 24 : ~(list[n].when /\ "model" \in list[n].which)
        \/ \E n \in 1 .. 24 : /\ list[n].when /\ "model" \in list[n].which /\ Ruled(list, "model") = list[n].value
                           /\ \A m \in n + 1 .. 24 : ~(list[m].when /\ "model" \in list[m].which)
    BY <1>10, RuledLast, Zenon
  <2>5. \/ Ruled(list, "model") = "allow" /\ \A n \in {16, 17} : ~list[n].when
        \/ \E n \in {16, 17} : /\ list[n].when /\ Ruled(list, "model") = list[n].value
                         /\ \A m \in {16, 17} : m > n => ~list[m].when
    BY <2>2, <2>3, <2>4, SMTT(60)
  <2>6. /\ list[16].when = (f.model = "no")
        /\ list[17].when = (f.model = "unknown")
    BY <1>1, <1>2, <1>12, <1>13 DEF Rule
  <2>7. /\ list[16].value = "deny" /\ list[17].value = "manual_review"
    BY <1>1, <1>2, <1>12, <1>13 DEF Rule
  <2>8. /\ list[16].when <=> (f.model = "no")
        /\ list[17].when <=> (f.model = "unknown")
    BY <2>6
  <2> QED
    BY <2>5, <2>7, <2>8 DEF ModelSays, HighRisk
<1> QED
  BY <1>9, <1>15, <1>16, <1>17, <1>18, <1>19, <1>20

LEMMA RiskIs ==
    ASSUME NEW risks, risks \subseteq Risks \cup {"unknown"}
    PROVE  RiskOf(risks) = IF "R4" \in risks THEN "R4" ELSE IF "R3" \in risks THEN "R3"
                           ELSE IF "R2" \in risks \/ "R1" \notin risks THEN "R2" ELSE "R1"
<1>1. PICK known : known = {r \in risks : r # "unknown"}
  OBVIOUS
<1>2. RiskOf(risks) = IF known = {} THEN "R2" ELSE CHOOSE r \in known : \A q \in known : Rank(q) <= Rank(r)
  BY <1>1 DEF RiskOf
<1>3. known \subseteq Risks /\ \A r \in Risks : r \in known <=> r \in risks
  BY <1>1 DEF Risks
<1>4. Rank("R1") = 1 /\ Rank("R2") = 2 /\ Rank("R3") = 3 /\ Rank("R4") = 4
  BY DEF Rank
<1>5. known # {} => \E r \in known : \A q \in known : Rank(q) <= Rank(r)
  <2>1. CASE "R4" \in known
    BY <1>3, <1>4, <2>1 DEF Risks
  <2>2. CASE "R4" \notin known /\ "R3" \in known
    BY <1>3, <1>4, <2>2 DEF Risks
  <2>3. CASE "R4" \notin known /\ "R3" \notin known /\ "R2" \in known
    BY <1>3, <1>4, <2>3 DEF Risks
  <2>4. CASE "R4" \notin known /\ "R3" \notin known /\ "R2" \notin known
    <3>1. \A q \in known : q = "R1"
      BY <1>3, <2>4 DEF Risks
    <3>2. known # {} => "R1" \in known
      BY <3>1
    <3> QED
      BY <1>4, <3>1, <3>2
  <2> QED
    BY <2>1, <2>2, <2>3, <2>4
<1>6. CASE known = {}
  BY <1>2, <1>3, <1>6 DEF Risks
<1>7. CASE known # {}
  <2>1. PICK worst : worst = CHOOSE r \in known : \A q \in known : Rank(q) <= Rank(r)
    OBVIOUS
  <2>2. worst \in known /\ \A q \in known : Rank(q) <= Rank(worst)
    BY <1>5, <1>7, <2>1
  <2>3. RiskOf(risks) = worst
    BY <1>2, <1>7, <2>1
  <2>4. worst \in Risks
    BY <1>3, <2>2
  <2> QED
    BY <1>3, <1>4, <2>2, <2>3, <2>4 DEF Risks
<1> QED
  BY <1>6, <1>7

(* What is said of a subject in the end.                                   *)
Forbidden(s, f, now) ==
    \/ SnapshotDenied(s, now) \/ f.risks \cap {"R3", "R4"} # {} \/ f.qa = "failed"
    \/ f.rights = "no" \/ f.data = "no" \/ f.model = "no" \/ f.region = "deny" \/ f.account = "revoked"
    \/ f.approval \in {"denied", "denied_short"}
    \/ f.release.level \in Levels /\ f.release.mode \notin ModesOf(f.release.level)

Clear(s, f, now) ==
    /\ ~Forbidden(s, f, now) /\ ~Doubts(s, f, now) /\ f.release.mode \in ModesOf(f.release.level)
    /\ "R2" \notin f.risks /\ "R1" \in f.risks
    /\ f.qa \notin {"needs_review", "unknown"} /\ f.approval # "short"
    /\ "unknown" \notin {f.outside, f.rights, f.region, f.data, f.model}
    /\ f.account \in {"revoked", "healthy"} \/ NoAccountNeeded(f)

LEMMA Finally ==
    ASSUME NEW s, NEW f, NEW now, f.risks \subseteq Risks \cup {"unknown"}
    PROVE  LET final == Judgement(s, f, now).final IN
           /\ final \in {"deny", "manual_review", "allow"}
           /\ Forbidden(s, f, now) => final = "deny"
           /\ final = "deny" => Forbidden(s, f, now) \/ f.release.level \notin Levels
           /\ final = "allow" <=> Clear(s, f, now)
<1>1. PICK rules : rules = Checks(s, f, now) \o HardBlocks(s, f, now)
  OBVIOUS
<1>2. PICK content, region, distribution, account, data, model :
          /\ content = ContentSays(s, f, now) /\ region = RegionSays(s, f, now)
          /\ distribution = DistributionSays(s, f, now) /\ account = AccountSays(s, f, now)
          /\ data = DataSays(s, f, now) /\ model = ModelSays(s, f, now)
  OBVIOUS
<1>3. /\ Ruled(rules, "content") = content /\ Ruled(rules, "region") = region
      /\ Ruled(rules, "distribution") = distribution /\ Ruled(rules, "account") = account
      /\ Ruled(rules, "data") = data /\ Ruled(rules, "model") = model
  BY <1>1, <1>2, PoliciesRuled
<1>4. PICK verdicts : verdicts = [p \in Subjects6 |-> Ruled(rules, p)]
  OBVIOUS
<1>5. PICK said : said = {verdicts[p] : p \in Subjects6}
  OBVIOUS
<1>6. PICK final : final = Judgement(s, f, now).final
  OBVIOUS
<1>7. final = IF "deny" \in said THEN "deny"
              ELSE IF said # {"allow"} \/ Doubts(s, f, now) THEN "manual_review" ELSE "allow"
  BY <1>1, <1>4, <1>5, <1>6 DEF Judgement
<1>8. said = {content, region, distribution, account, data, model}
  BY <1>3, <1>4, <1>5 DEF Subjects6
<1>9. PICK risk : risk = RiskOf(f.risks)
  OBVIOUS
<1>10. /\ risk \in {"R3", "R4"} <=> f.risks \cap {"R3", "R4"} # {}
       /\ risk \notin {"R2", "R3", "R4"} => "R2" \notin f.risks /\ "R1" \in f.risks
       /\ "R1" \in f.risks /\ "R2" \notin f.risks /\ f.risks \cap {"R3", "R4"} = {} => risk = "R1"
  BY <1>9, RiskIs
<1>11. Forbidden(s, f, now) => "deny" \in said
  BY <1>2, <1>8, <1>9, <1>10
     DEF Forbidden, ContentSays, RegionSays, DistributionSays, AccountSays, DataSays, ModelSays, HighRisk
<1>12. "deny" \in said => Forbidden(s, f, now) \/ f.release.level \notin Levels
  BY <1>2, <1>8, <1>9, <1>10
     DEF Forbidden, ContentSays, RegionSays, DistributionSays, AccountSays, DataSays, ModelSays, HighRisk
<1>13. said = {"allow"} /\ ~Doubts(s, f, now) => Clear(s, f, now)
  BY <1>2, <1>8, <1>9, <1>10
     DEF Forbidden, Clear, ContentSays, RegionSays, DistributionSays, AccountSays, DataSays, ModelSays, HighRisk
<1>14. Clear(s, f, now) => said = {"allow"} /\ ~Doubts(s, f, now)
  BY <1>2, <1>8, <1>9, <1>10
     DEF Forbidden, Clear, ContentSays, RegionSays, DistributionSays, AccountSays, DataSays, ModelSays, HighRisk
<1> QED
  BY <1>6, <1>7, <1>11, <1>12, <1>13, <1>14

LEMMA FactsTyped ==
    ASSUME NEW f \in FactSets
    PROVE  DOMAIN f = Facts6 /\ \A x \in Facts6 : f[x] \in FactValues[x]
<1>1. PICK x \in (DOMAIN FactValues) \X (DOMAIN FactValues) :
          f \in {[GoodFacts EXCEPT ![x[1]] = v, ![x[2]] = w] : v \in FactValues[x[1]], w \in FactValues[x[2]]}
  BY DEF FactSets
<1>2. PICK y, z : y = x[1] /\ z = x[2]
  OBVIOUS
<1>3. y \in Facts6 /\ z \in Facts6
  BY <1>1, <1>2, GateBounds
<1>4. PICK v \in FactValues[y], w \in FactValues[z] : f = [GoodFacts EXCEPT ![y] = v, ![z] = w]
  BY <1>1, <1>2
<1>5. DOMAIN f = Facts6 /\ \A u \in Facts6 : f[u] = IF u = z THEN w ELSE IF u = y THEN v ELSE GoodFacts[u]
  BY <1>3, <1>4, GateBounds
<1> QED
  BY <1>3, <1>4, <1>5, GateBounds

LEMMA GateTold == GateInv => DenialStands /\ BetterHelps /\ OneLifecycle
<1> SUFFICES ASSUME GateInv PROVE DenialStands /\ BetterHelps /\ OneLifecycle
  OBVIOUS
<1>1. \A q \in Judged : q.facts \in FactSets /\ q.answer = Judgement(q.snapshot, q.facts, q.now)
  BY DEF Judged, GateInv, JudgedWell
<1>2. \A f \in FactSets : f.risks \subseteq Risks \cup {"unknown"}
  BY FactsTyped, GateBounds DEF Facts6
<1>3. DenialStands
  <2> SUFFICES ASSUME NEW q \in Judged
               PROVE  LET f == q.facts
                          refused == \/ q.snapshot.status # "active" \/ q.now < q.snapshot.from
                                     \/ q.snapshot.expires # 0 /\ q.now >= q.snapshot.expires
                                     \/ f.risks \cap {"R3", "R4"} # {} \/ f.qa = "failed" \/ "no" \in {f.rights, f.data, f.model}
                                     \/ f.region = "deny" \/ f.account = "revoked" \/ f.approval \in {"denied", "denied_short"}
                                     \/ f.release.level \in Levels /\ f.release.mode \notin ModesOf(f.release.level)
                      IN  /\ refused => q.answer.final = "deny"
                          /\ q.answer.final = "deny" => refused \/ f.release.level \notin Levels
                          /\ q.answer.final = "allow" =>
                               /\ Lifecycle(q.snapshot, q.now) = "allow"
                               /\ \A r \in f.risks : Rank(r) < 2
                               /\ "unknown" \notin {f.qa, f.rights, f.data, f.model, f.region, f.account, f.outside}
    BY DEF DenialStands
  <2>1. PICK s, f, now : s = q.snapshot /\ f = q.facts /\ now = q.now
    OBVIOUS
  <2>2. PICK final : final = q.answer.final
    OBVIOUS
  <2>3. f.risks \subseteq Risks \cup {"unknown"} /\ final = Judgement(s, f, now).final
    BY <1>1, <1>2, <2>1, <2>2
  <2>4. /\ Forbidden(s, f, now) => final = "deny"
        /\ final = "deny" => Forbidden(s, f, now) \/ f.release.level \notin Levels
        /\ final = "allow" <=> Clear(s, f, now)
    BY <2>3, Finally
  <2>5. Clear(s, f, now) => Lifecycle(s, now) = "allow"
    BY DEF Clear, Forbidden, Doubts, Lifecycle, SnapshotDenied
  <2>6. Clear(s, f, now) => \A r \in f.risks : Rank(r) < 2
    <3>1. Clear(s, f, now) => \A r \in f.risks : r = "R1"
      BY <2>3 DEF Clear, Forbidden, Doubts, Risks
    <3> QED
      BY <3>1 DEF Rank
  <2>7. Clear(s, f, now) => "unknown" \notin {f.qa, f.rights, f.data, f.model, f.region, f.account, f.outside}
    BY DEF Clear, NoAccountNeeded
  <2> QED
    BY <2>1, <2>2, <2>4, <2>5, <2>6, <2>7 DEF Forbidden, SnapshotDenied, NotYet, SnapshotOver
<1>4. BetterHelps
  <2> DEFINE Badness(final) == CASE final = "allow" -> 0 [] final = "manual_review" -> 1 [] final = "deny" -> 2
  <2> SUFFICES ASSUME NEW q \in Judged, q.facts.release.level \in Levels, NEW x \in Facts6
               PROVE  Badness(Judgement(q.snapshot, [q.facts EXCEPT ![x] = GoodFacts[x]], q.now).final)
                          <= Badness(q.answer.final)
    BY GateBounds DEF BetterHelps
  <2>1. PICK s, f, now : s = q.snapshot /\ f = q.facts /\ now = q.now
    OBVIOUS
  <2>2. PICK g : g = [f EXCEPT ![x] = GoodFacts[x]]
    OBVIOUS
  <2>3. DOMAIN f = Facts6 /\ f.release.level \in Levels /\ f.risks \subseteq Risks \cup {"unknown"}
    BY <1>1, <1>2, <2>1, FactsTyped
  <2>4. \A y \in Facts6 : g[y] = IF y = x THEN GoodFacts[y] ELSE f[y]
    BY <2>2, <2>3
  <2>5. PICK before, after : before = Judgement(s, f, now).final /\ after = Judgement(s, g, now).final
    OBVIOUS
  <2>6. /\ g.risks = f.risks \/ g.risks = {"R1"}
        /\ g.qa = f.qa \/ g.qa = "passed"
        /\ g.rights = f.rights \/ g.rights = "yes"
        /\ g.region = f.region \/ g.region = "allow"
        /\ g.data = f.data \/ g.data = "yes"
        /\ g.model = f.model \/ g.model = "yes"
        /\ g.account = f.account \/ g.account = "healthy"
        /\ g.approval = f.approval \/ g.approval = "ok"
        /\ g.outside = f.outside \/ g.outside = "known"
        /\ \/ g.release = f.release
           \/ g.release.level = "architecture_mvp" /\ g.release.mode \in {"manual_export", "simulation"}
    BY <2>4, GoodBounds DEF Facts6
  <2>7. ModesOf("architecture_mvp") = {"manual_export", "simulation"} /\ "architecture_mvp" \in Levels
    BY DEF ModesOf, Levels
  <2>8. g.risks \subseteq Risks \cup {"unknown"} /\ g.release.level \in Levels
    BY <2>3, <2>6, <2>7 DEF Risks
  <2>9. Forbidden(s, g, now) => Forbidden(s, f, now)
    BY <2>6, <2>7 DEF Forbidden
  <2>10. Clear(s, f, now) => Clear(s, g, now)
    BY <2>6, <2>7, <2>9 DEF Clear, Doubts, NoAccountNeeded
  <2>11. /\ before \in {"deny", "manual_review", "allow"}
         /\ Forbidden(s, f, now) => before = "deny"
         /\ before = "allow" <=> Clear(s, f, now)
    BY <2>3, <2>5, Finally
  <2>12. /\ after \in {"deny", "manual_review", "allow"}
         /\ after = "deny" => Forbidden(s, g, now)
         /\ after = "allow" <=> Clear(s, g, now)
    BY <2>5, <2>8, Finally
  <2>13. (after = "deny" => before = "deny") /\ (before = "allow" => after = "allow")
    BY <2>9, <2>10, <2>11, <2>12
  <2>14. Badness("allow") = 0 /\ Badness("manual_review") = 1 /\ Badness("deny") = 2
    OBVIOUS
  <2>15. Badness(after) <= Badness(before)
    <3> HIDE DEF Badness
    <3> QED
      BY <2>11, <2>12, <2>13, <2>14
  <2>16. q.answer.final = before
    BY <1>1, <2>1, <2>5
  <2> QED
    BY <2>1, <2>2, <2>5, <2>15, <2>16
<1>5. OneLifecycle
  <2>1. ASSUME NEW q \in Judged, NEW k \in GateKeys, looked[k] # NotAsked, looked[k].snapshot = q.snapshot, looked[k].now = q.now
        PROVE  /\ looked[k].answer = "deny" => q.answer.final = "deny"
               /\ looked[k].answer = "manual_review" => q.answer.final # "allow"
    <3>1. PICK s, f, now : s = q.snapshot /\ f = q.facts /\ now = q.now
      OBVIOUS
    <3>2. looked[k].answer = Lifecycle(s, now)
      BY <2>1, <3>1 DEF GateInv
    <3>3. f.risks \subseteq Risks \cup {"unknown"} /\ q.answer.final = Judgement(s, f, now).final
      BY <1>1, <1>2, <3>1
    <3>4. (Forbidden(s, f, now) => q.answer.final = "deny") /\ (q.answer.final = "allow" => Clear(s, f, now))
      BY <3>3, Finally
    <3>5. Lifecycle(s, now) = "deny" => Forbidden(s, f, now)
      BY DEF Lifecycle, Forbidden, SnapshotDenied
    <3>6. Lifecycle(s, now) = "manual_review" => ~Clear(s, f, now)
      BY DEF Lifecycle, Clear, Doubts
    <3> QED
      BY <3>2, <3>4, <3>5, <3>6
  <2> QED
    BY <2>1 DEF OneLifecycle, GateInv
<1> QED
  BY <1>3, <1>4, <1>5

-----------------------------------------------------------------------------
(* Tokens. The lease a connection has is its newest and open, whatever     *)
(* a call is about to close; and what is revoked has a secret only where a *)
(* code was refused after it was exchanged.                                *)
CodeHolds(row) ==
    \/ row = [status |-> "unissued"]
    \/ row \in [status : {"issued", "exchanged"}, session : AuthSessions, grant : Grants]

LeaseRow == [status : {"active", "expired", "revoked"}, until : Int]

AuthCallHolds(c) ==
    /\ "at" \in DOMAIN c
    /\ c.at \in {"callback", "revoke", "close"} => c.session \in AuthSessions
    /\ c.at = "close" => c.lease \in DOMAIN lease[c.session] /\ c.status \in ClosingStatuses

TokenInv ==
    /\ authTick \in Nat
    /\ lease \in [AuthSessions -> Seq(LeaseRow)]
    /\ DOMAIN activeLease = AuthSessions /\ DOMAIN authCall = AuthThreads
    /\ DOMAIN connection = AuthSessions /\ \A s \in AuthSessions : "status" \in DOMAIN connection[s]
    /\ \A s \in AuthSessions :
          /\ activeLease[s] # 0 =>
                activeLease[s] = Len(lease[s]) /\ lease[s] # <<>> /\ lease[s][Len(lease[s])].status = "active"
          /\ connection[s].status = "revoked" /\ s \in secrets => LeftBehind(s)
    /\ \A t \in AuthThreads : AuthCallHolds(authCall[t])
    /\ DOMAIN issuedCode = AuthCodes /\ \A c \in AuthCodes : CodeHolds(issuedCode[c])

LEMMA TokensStart == AuthInit => TokenInv
  BY DEF AuthInit, LeaseInit, TokenInv, AuthCallHolds, NoAuthCall, NoConnection, CodeHolds

LEMMA TokensTold == TokenInv => TokensServed
  BY DEF TokenInv, TokensServed, GetActive

(* The leases stay, and a thread goes on to another call.                  *)
LEMMA AuthCallMoves ==
    ASSUME TokenInv, authTick' \in Nat, UNCHANGED <<lease, activeLease>>, DOMAIN connection' = AuthSessions,
           \A s \in AuthSessions : "status" \in DOMAIN connection'[s]
                                   /\ (connection'[s].status = "revoked" /\ s \in secrets' => LeftBehind(s)'),
           DOMAIN issuedCode' = AuthCodes, \A code \in AuthCodes : CodeHolds(issuedCode'[code]),
           NEW t, NEW c, authCall' = authCall \/ (authCall' = [authCall EXCEPT ![t] = c] /\ AuthCallHolds(c))
    PROVE  TokenInv'
<1>1. \A u \in AuthThreads : AuthCallHolds(authCall'[u])
  BY DEF TokenInv
<1>2. \A u \in AuthThreads : AuthCallHolds(authCall[u])'
  BY <1>1 DEF AuthCallHolds
<1>3. (\A code \in AuthCodes : CodeHolds(issuedCode[code]))'
  BY DEF CodeHolds
<1> QED
  BY <1>2, <1>3 DEF TokenInv

(* The codes stay, and so does what was left behind.                       *)
LEMMA CodesStay ==
    ASSUME TokenInv, UNCHANGED issuedCode
    PROVE  /\ DOMAIN issuedCode' = AuthCodes /\ \A c \in AuthCodes : CodeHolds(issuedCode'[c])
           /\ (\A c \in AuthCodes : CodeHolds(issuedCode[c]))'
           /\ \A s \in AuthSessions : LeftBehind(s)' <=> LeftBehind(s)
<1>1. DOMAIN issuedCode' = AuthCodes /\ \A c \in AuthCodes : CodeHolds(issuedCode'[c])
  BY DEF TokenInv
<1>2. (\A c \in AuthCodes : CodeHolds(issuedCode[c]))'
  BY <1>1 DEF CodeHolds
<1>3. \A s \in AuthSessions : LeftBehind(s)' <=> LeftBehind(s)
  BY DEF LeftBehind
<1> QED
  BY <1>1, <1>2, <1>3

LEMMA CodeIssued ==
    ASSUME TokenInv, NEW s \in AuthSessions, NEW c \in AuthCodes, NEW grant \in Grants, IssueCode(c, s, grant)
    PROVE  TokenInv'
<1> DEFINE new == [status |-> "issued", session |-> s, grant |-> grant]
<1>1. /\ issuedCode[c].status = "unissued" /\ issuedCode' = [issuedCode EXCEPT ![c] = new]
      /\ UNCHANGED <<authTick, connection, secrets, lease, activeLease, authCall>>
  BY DEF IssueCode, leaseState
<1>2. CodeHolds(new)
  BY DEF CodeHolds
<1>3. DOMAIN issuedCode = AuthCodes /\ \A d \in AuthCodes : CodeHolds(issuedCode[d])
  BY DEF TokenInv
<1> HIDE DEF new
<1>4. DOMAIN issuedCode' = AuthCodes /\ (\A d \in AuthCodes : d # c => issuedCode'[d] = issuedCode[d]) /\ issuedCode'[c] = new
  BY <1>1, <1>3
<1>5. \A d \in AuthCodes : CodeHolds(issuedCode'[d])
  BY <1>2, <1>3, <1>4
<1>6. \A u \in AuthSessions : LeftBehind(u) => LeftBehind(u)'
  BY <1>1, <1>4 DEF LeftBehind
<1>7. \A u \in AuthSessions : "status" \in DOMAIN connection'[u]
                              /\ (connection'[u].status = "revoked" /\ u \in secrets' => LeftBehind(u)')
  BY <1>1, <1>6 DEF TokenInv
<1>8. authTick' \in Nat /\ DOMAIN connection' = AuthSessions
  BY <1>1 DEF TokenInv
<1> QED
  BY <1>1, <1>4, <1>5, <1>7, <1>8, AuthCallMoves

(* A callback: a code that is taken is known from then on, and a secret is *)
(* stored with a new connection or left behind.                            *)
LEMMA CallbackTold ==
    ASSUME TokenInv, NEW t \in AuthThreads, NEW c \in AuthCodes, NEW stateFits \in BOOLEAN, CallbackWrites(t, c, stateFits)
    PROVE  TokenInv'
<1>0. PICK s : s = authCall[t].session
  OBVIOUS
<1> DEFINE asks == authCall[t].copy.status = "created" /\ ~(authCall[t].now >= authCall[t].copy.until) /\ stateFits
           grants == asks /\ Fits(c, s)
           connects == grants /\ issuedCode[c].grant = "good"
<1>1. /\ authCall[t].at = "callback"
      /\ issuedCode' = IF asks THEN TakeCode(c) ELSE issuedCode
      /\ secrets' = IF grants THEN secrets \cup {s} ELSE secrets
      /\ connection' = IF connects
            THEN [connection EXCEPT ![s] = [generation |-> @.generation + 1, status |-> "authorized"]]
            ELSE connection
      /\ authCall' = [authCall EXCEPT ![t] = NoAuthCall] /\ UNCHANGED <<authTick, lease, activeLease>>
  BY <1>0 DEF CallbackWrites, leaseState
<1>2. /\ s \in AuthSessions /\ authTick \in Nat /\ AuthCallHolds(NoAuthCall)
      /\ DOMAIN connection = AuthSessions /\ \A u \in AuthSessions : "status" \in DOMAIN connection[u]
      /\ \A u \in AuthSessions : connection[u].status = "revoked" /\ u \in secrets => LeftBehind(u)
      /\ DOMAIN issuedCode = AuthCodes /\ \A d \in AuthCodes : CodeHolds(issuedCode[d])
  BY <1>0, <1>1 DEF TokenInv, AuthCallHolds, NoAuthCall
<1>3. PICK row : row = [issuedCode[c] EXCEPT !.status = IF @ = "issued" THEN "exchanged" ELSE @]
  OBVIOUS
<1>4. /\ CodeHolds(row)
      /\ issuedCode[c].status = "issued" =>
            row.status = "exchanged" /\ row.session = issuedCode[c].session /\ row.grant = issuedCode[c].grant
      /\ issuedCode[c].status = "exchanged" => row = issuedCode[c]
  <2>1. CASE issuedCode[c] = [status |-> "unissued"]
    BY <1>3, <2>1 DEF CodeHolds
  <2>2. CASE issuedCode[c] \in [status : {"issued", "exchanged"}, session : AuthSessions, grant : Grants]
    BY <1>3, <2>2 DEF CodeHolds
  <2> QED
    BY <1>2, <2>1, <2>2 DEF CodeHolds
<1>5. TakeCode(c) = [issuedCode EXCEPT ![c] = row]
  BY <1>3 DEF TakeCode
<1>6. Fits(c, s) => issuedCode[c].status = "issued" /\ issuedCode[c].session = s /\ issuedCode[c].grant \in {"refused", "good"}
  BY <1>2 DEF Fits, CodeHolds, Grants
<1> HIDE DEF asks
<1>7. /\ DOMAIN issuedCode' = AuthCodes /\ \A d \in AuthCodes : d # c => issuedCode'[d] = issuedCode[d]
      /\ issuedCode'[c] = IF asks THEN row ELSE issuedCode[c]
  BY <1>1, <1>2, <1>5
<1>8. \A d \in AuthCodes : CodeHolds(issuedCode'[d])
  BY <1>2, <1>4, <1>7
<1>9. \A u \in AuthSessions : LeftBehind(u) => LeftBehind(u)'
  <2> SUFFICES ASSUME NEW u \in AuthSessions, LeftBehind(u) PROVE LeftBehind(u)'
    OBVIOUS
  <2>1. PICK d \in AuthCodes : issuedCode[d].status = "exchanged" /\ issuedCode[d].session = u /\ issuedCode[d].grant = "refused"
    BY DEF LeftBehind
  <2>2. issuedCode'[d] = issuedCode[d]
    BY <1>4, <1>7, <2>1
  <2> QED
    BY <2>1, <2>2 DEF LeftBehind
<1>10. grants /\ ~connects => LeftBehind(s)'
  <2> SUFFICES ASSUME grants, ~connects PROVE LeftBehind(s)'
    OBVIOUS
  <2>1. issuedCode'[c].status = "exchanged" /\ issuedCode'[c].session = s /\ issuedCode'[c].grant = "refused"
    BY <1>4, <1>6, <1>7
  <2> QED
    BY <2>1 DEF LeftBehind
<1>11. connects => grants
  OBVIOUS
<1> HIDE DEF grants, connects
<1>12. PICK generation : connection' = IF connects
            THEN [connection EXCEPT ![s] = [generation |-> generation, status |-> "authorized"]] ELSE connection
  BY <1>1
<1>13. DOMAIN connection' = AuthSessions /\ \A u \in AuthSessions : "status" \in DOMAIN connection'[u]
  BY <1>2, <1>12
<1>14. \A u \in AuthSessions : connection'[u].status = "revoked" /\ u \in secrets' => LeftBehind(u)'
  <2> SUFFICES ASSUME NEW u \in AuthSessions, connection'[u].status = "revoked", u \in secrets' PROVE LeftBehind(u)'
    OBVIOUS
  <2>1. ~(connects /\ u = s)
    BY <1>2, <1>12
  <2>2. connection'[u] = connection[u]
    BY <1>2, <1>12, <2>1
  <2>3. u \in secrets \/ (grants /\ u = s)
    BY <1>1
  <2> QED
    BY <1>2, <1>9, <1>10, <2>1, <2>2, <2>3
<1> QED
  BY <1>1, <1>2, <1>7, <1>8, <1>13, <1>14, AuthCallMoves

LEMMA LeaseAdded ==
    ASSUME TokenInv, NEW s \in AuthSessions, NEW term \in LeaseTerms, LeaseTransition(s, term)
    PROVE  TokenInv'
<1> DEFINE was == activeLease[s]
           ended(l) == [l EXCEPT !.status = IF l.until <= authTick THEN "expired" ELSE "revoked"]
           before == [n \in DOMAIN lease[s] |-> IF n = was THEN ended(lease[s][n]) ELSE lease[s][n]]
           last == [status |-> "active", until |-> authTick + term]
<1>1. /\ lease' = [lease EXCEPT ![s] = Append(before, last)]
      /\ activeLease' = [activeLease EXCEPT ![s] = Len(before) + 1]
      /\ UNCHANGED <<authTick, authSession, issuedCode, connection, secrets, authCall>>
  BY DEF LeaseTransition
<1>2. lease[s] \in Seq(LeaseRow) /\ last \in LeaseRow
  BY TokenLeaseBounds DEF TokenInv, LeaseRow
<1>3. before \in Seq(LeaseRow) /\ Len(before) = Len(lease[s])
  <2>1. \A n \in DOMAIN lease[s] : lease[s][n] \in LeaseRow
    BY <1>2
  <2>2. \A n \in DOMAIN lease[s] : before[n] \in LeaseRow
    BY <2>1 DEF LeaseRow
  <2>3. before \in [DOMAIN lease[s] -> LeaseRow]
    <3> HIDE DEF ended
    <3>1. \A n \in DOMAIN lease[s] : (IF n = was THEN ended(lease[s][n]) ELSE lease[s][n]) \in LeaseRow
      BY <2>2
    <3> QED
      BY <3>1
  <2>4. DOMAIN lease[s] = 1 .. Len(lease[s]) /\ Len(lease[s]) \in Nat
    BY <1>2, LenProperties
  <2> HIDE DEF before
  <2>5. before \in Seq(LeaseRow)
    BY <2>3, <2>4, SeqDef
  <2> QED
    BY <2>3, <2>4, <2>5
<1> HIDE DEF before, last
<1>4. /\ Append(before, last) \in Seq(LeaseRow) /\ Len(Append(before, last)) = Len(lease[s]) + 1
      /\ Append(before, last)[Len(lease[s]) + 1] = last /\ Len(lease[s]) \in Nat
      /\ DOMAIN lease[s] \subseteq DOMAIN Append(before, last)
  BY <1>2, <1>3
<1>5. last.status = "active"
  BY DEF last
<1>6. lease' \in [AuthSessions -> Seq(LeaseRow)] /\ lease'[s] = Append(before, last)
      /\ (\A u \in AuthSessions \ {s} : lease'[u] = lease[u] /\ activeLease'[u] = activeLease[u])
      /\ activeLease'[s] = Len(lease[s]) + 1 /\ DOMAIN activeLease' = AuthSessions
  BY <1>1, <1>3, <1>4 DEF TokenInv
<1>7. \A u \in AuthSessions : DOMAIN lease[u] \subseteq DOMAIN lease'[u]
  BY <1>4, <1>6
<1>8. \A t \in AuthThreads : AuthCallHolds(authCall[t])'
  BY <1>1, <1>7 DEF TokenInv, AuthCallHolds
<1>9. \A u \in AuthSessions : activeLease'[u] # 0 =>
          activeLease'[u] = Len(lease'[u]) /\ lease'[u] # <<>> /\ lease'[u][Len(lease'[u])].status = "active"
  BY <1>4, <1>5, <1>6 DEF TokenInv
<1> QED
  BY <1>1, <1>6, <1>8, <1>9, CodesStay DEF TokenInv

LEMMA LeaseClosed == ASSUME TokenInv, NEW t \in AuthThreads, CloseWrites(t) PROVE TokenInv'
<1>1. PICK s, n, status : s = authCall[t].session /\ n = authCall[t].lease /\ status = authCall[t].status
  OBVIOUS
<1>2. /\ s \in AuthSessions /\ n \in DOMAIN lease[s] /\ status \in {"expired", "revoked"}
      /\ lease' = [lease EXCEPT ![s][n].status = status] /\ activeLease' = [activeLease EXCEPT ![s] = 0]
      /\ authCall' = [authCall EXCEPT ![t] = NoAuthCall]
      /\ UNCHANGED <<authTick, authSession, issuedCode, connection, secrets>>
  BY <1>1 DEF CloseWrites, WithoutLease, TokenInv, AuthCallHolds, ClosingStatuses
<1>3. lease[s] \in Seq(LeaseRow)
  BY <1>2 DEF TokenInv
<1>4. PICK row : row = [lease[s][n] EXCEPT !.status = status]
  OBVIOUS
<1>5. lease[s][n] \in LeaseRow
  BY <1>2, <1>3
<1>6. row \in LeaseRow
  BY <1>2, <1>4, <1>5 DEF LeaseRow
<1>7. PICK rows : rows = [lease[s] EXCEPT ![n] = row]
  OBVIOUS
<1>8. rows \in Seq(LeaseRow) /\ DOMAIN rows = DOMAIN lease[s]
  BY <1>2, <1>3, <1>6, <1>7
<1>9. lease' = [lease EXCEPT ![s] = rows]
  BY <1>2, <1>4, <1>7
<1>10. lease' \in [AuthSessions -> Seq(LeaseRow)] /\ \A u \in AuthSessions : DOMAIN lease'[u] = DOMAIN lease[u]
  BY <1>2, <1>8, <1>9 DEF TokenInv
<1>11. \A u \in AuthSessions : u # s => lease'[u] = lease[u] /\ activeLease'[u] = activeLease[u]
  BY <1>2, <1>9 DEF TokenInv
<1>12. DOMAIN activeLease' = AuthSessions /\ activeLease'[s] = 0 /\ DOMAIN authCall' = AuthThreads
  BY <1>2 DEF TokenInv
<1>13. \A u \in AuthThreads : AuthCallHolds(authCall[u])'
  BY <1>2, <1>10 DEF TokenInv, AuthCallHolds, NoAuthCall
<1>14. \A u \in AuthSessions : activeLease'[u] # 0 =>
          activeLease'[u] = Len(lease'[u]) /\ lease'[u] # <<>> /\ lease'[u][Len(lease'[u])].status = "active"
  BY <1>11, <1>12 DEF TokenInv
<1> QED
  BY <1>2, <1>10, <1>12, <1>13, <1>14, CodesStay DEF TokenInv

LEMMA TokensGo == ASSUME TokenInv, AuthNext PROVE TokenInv'
<1>1. /\ authTick \in Nat /\ DOMAIN connection = AuthSessions /\ AuthCallHolds(NoAuthCall)
      /\ \A s \in AuthSessions : "status" \in DOMAIN connection[s]
                                    /\ (connection[s].status = "revoked" /\ s \in secrets => LeftBehind(s))
      /\ UNCHANGED issuedCode =>
            /\ DOMAIN issuedCode' = AuthCodes /\ \A c \in AuthCodes : CodeHolds(issuedCode'[c])
            /\ \A s \in AuthSessions : LeftBehind(s)' <=> LeftBehind(s)
  BY CodesStay DEF TokenInv, AuthCallHolds, NoAuthCall
<1>2. CASE NextAuthTick
  BY <1>1, <1>2, AuthCallMoves DEF NextAuthTick, leaseState
<1>3. CASE \E s \in AuthSessions : CreateSession(s)
  <2>1. UNCHANGED <<authTick, connection, secrets, lease, activeLease, authCall, issuedCode>>
    BY <1>3 DEF CreateSession, leaseState
  <2> QED
    BY <1>1, <2>1, AuthCallMoves
<1>10. CASE \E s \in AuthSessions, c \in AuthCodes, grant \in Grants : IssueCode(c, s, grant)
  BY <1>10, CodeIssued
<1>4. CASE \E s \in AuthSessions, term \in LeaseTerms : IssueLease(s, term)
  BY <1>4, LeaseAdded DEF IssueLease
<1>5. CASE \E t \in AuthThreads : CloseWrites(t)
  BY <1>5, LeaseClosed
<1>6. CASE \E t \in AuthThreads : RevokeWrites(t)
  <2>1. PICK t \in AuthThreads : RevokeWrites(t)
    BY <1>6
  <2>2. PICK s, status : /\ s \in AuthSessions /\ secrets' = secrets \ {s}
                         /\ connection' = [connection EXCEPT ![s].status = status]
    BY <2>1 DEF RevokeWrites, TokenInv, AuthCallHolds
  <2>3. UNCHANGED <<authTick, lease, activeLease, issuedCode>> /\ authCall' = [authCall EXCEPT ![t] = NoAuthCall]
    BY <2>1 DEF RevokeWrites, leaseState
  <2>4. /\ DOMAIN connection' = AuthSessions /\ \A u \in AuthSessions : "status" \in DOMAIN connection'[u]
        /\ \A u \in AuthSessions : connection'[u].status = "revoked" /\ u \in secrets' => LeftBehind(u)'
    BY <1>1, <2>2, <2>3
  <2> QED
    BY <1>1, <2>3, <2>4, AuthCallMoves
<1>7. CASE \E t \in AuthThreads, c \in AuthCodes, fits \in BOOLEAN : CallbackWrites(t, c, fits)
  BY <1>7, CallbackTold
<1>8. CASE \E t \in AuthThreads, s \in AuthSessions : CallbackReads(t, s) \/ RevokeReads(t, s)
  <2>1. PICK t \in AuthThreads, s \in AuthSessions : CallbackReads(t, s) \/ RevokeReads(t, s)
    BY <1>8
  <2>2. PICK c : authCall' = [authCall EXCEPT ![t] = c] /\ AuthCallHolds(c)
    <3>1. CASE CallbackReads(t, s)
      <4> DEFINE c == [at |-> "callback", session |-> s, copy |-> authSession[s], now |-> authTick]
      <4>1. authCall' = [authCall EXCEPT ![t] = c]
        BY <3>1 DEF CallbackReads
      <4>2. AuthCallHolds(c)
        BY DEF AuthCallHolds
      <4> QED
        BY <4>1, <4>2
    <3>2. CASE RevokeReads(t, s)
      <4> DEFINE c == [at |-> "revoke", session |-> s, generation |-> connection[s].generation]
      <4>1. authCall' = [authCall EXCEPT ![t] = c]
        BY <3>2 DEF RevokeReads
      <4>2. AuthCallHolds(c)
        BY DEF AuthCallHolds
      <4> QED
        BY <4>1, <4>2
    <3> QED
      BY <2>1, <3>1, <3>2
  <2>3. UNCHANGED <<authTick, connection, secrets, lease, activeLease, issuedCode>>
    BY <2>1 DEF CallbackReads, RevokeReads, leaseState
  <2> QED
    BY <1>1, <2>2, <2>3, AuthCallMoves
<1>9. CASE \E t \in AuthThreads, s \in AuthSessions, status \in ClosingStatuses : CloseReads(t, s, status)
  <2>1. PICK t \in AuthThreads, s \in AuthSessions, status \in ClosingStatuses : CloseReads(t, s, status)
    BY <1>9
  <2>2. activeLease[s] \in DOMAIN lease[s]
    <3>1. lease[s] \in Seq(LeaseRow) /\ activeLease[s] = Len(lease[s]) /\ lease[s] # <<>>
      BY <2>1 DEF CloseReads, TokenInv
    <3> QED
      BY <3>1
  <2>3. PICK c : authCall' = [authCall EXCEPT ![t] = c] /\ AuthCallHolds(c)
    <3> DEFINE c == [at |-> "close", session |-> s, lease |-> activeLease[s], status |-> status]
    <3>1. authCall' = [authCall EXCEPT ![t] = c]
      BY <2>1 DEF CloseReads
    <3>2. AuthCallHolds(c)
      BY <2>2 DEF AuthCallHolds
    <3> QED
      BY <3>1, <3>2
  <2>4. UNCHANGED <<authTick, connection, secrets, lease, activeLease, issuedCode>>
    BY <2>1 DEF CloseReads, leaseState
  <2> QED
    BY <1>1, <2>3, <2>4, AuthCallMoves
<1> QED
  BY <1>2, <1>3, <1>4, <1>5, <1>6, <1>7, <1>8, <1>9, <1>10 DEF AuthNext

LEMMA TokensStay == TokenInv /\ UNCHANGED authVars => TokenInv'
<1> SUFFICES ASSUME TokenInv, UNCHANGED authVars PROVE TokenInv'
  OBVIOUS
<1>1. UNCHANGED <<authTick, connection, secrets, lease, activeLease, authCall, issuedCode>>
  BY DEF authVars
<1>2. authTick' \in Nat /\ DOMAIN connection' = AuthSessions
      /\ \A s \in AuthSessions : "status" \in DOMAIN connection'[s]
                                  /\ (connection'[s].status = "revoked" /\ s \in secrets' => LeftBehind(s)')
  BY <1>1, CodesStay DEF TokenInv
<1> QED
  BY <1>1, <1>2, CodesStay, AuthCallMoves

-----------------------------------------------------------------------------
(* Accounts. Whether a connection is backed depends on its evidence alone, *)
(* which a copy of its row may know up to a number only.                   *)
KindsOffered == {o.kind : o \in Offered}
StatesOffered == {o.status : o \in Offered}
ProofRow == [kind : KindsOffered, status : StatesOffered, ends : Int, day : 0 .. LastAccountDay]

HasColumns(r) == {"status", "auth", "health", "expires", "day"} \subseteq DOMAIN r

ReaderHolds(r) ==
    /\ r.op \in {"none", "attach", "health"}
    /\ r.op \in {"attach", "health"} => r.conn \in Connections /\ HasColumns(r.row)
    /\ r.op = "attach" => r.proof \in ProofRow
    /\ r.op = "health" =>
          /\ r.known \in 0 .. Len(proofs[r.conn])
          /\ r.row.status = "connected" => Backed(proofs[r.conn], r.known, r.row.day)

BoundHolds(b) ==
    /\ b.conn \in Connections /\ b.known \in 0 .. Len(proofs[b.conn])
    /\ Backed(proofs[b.conn], b.known, b.day)

AccountInv ==
    /\ accountDay \in 0 .. LastAccountDay
    /\ proofs \in [Connections -> Seq(ProofRow)]
    /\ DOMAIN conn = Connections /\ DOMAIN informed = Connections
    /\ \A c \in Connections :
          HasColumns(conn[c]) /\ informed[c] \in 0 .. Len(proofs[c])
          /\ (conn[c].status = "connected" => Backed(proofs[c], informed[c], conn[c].day))
    /\ DOMAIN reader = Attachers \cup Checkers
    /\ \A w \in Attachers \cup Checkers : ReaderHolds(reader[w])
    /\ \A b \in bound : BoundHolds(b)

LEMMA AccountsStart == AccountInit => AccountInv
BY AccountBounds DEF AccountInit, AccountInv, HasColumns, NoConn, ReaderHolds, NotReading

LEMMA AccountsTold == AccountInv => ConnectedBacked /\ BoundBacked
<1>1. AccountInv => ConnectedBacked
  BY DEF AccountInv, ConnectedBacked
<1>2. AccountInv => BoundBacked
  BY DEF AccountInv, BoundBacked, BoundHolds
<1> QED
  BY <1>1, <1>2

(* There is a latest of each kind there is.                                *)
LEMMA LatestFound ==
    ASSUME NEW ps \in Seq(ProofRow), NEW kind \in KindsIn(ps)
    PROVE  \E n \in DOMAIN ps :
              /\ LatestOf(ps, kind) = ps[n] /\ ps[n].kind = kind
              /\ \A k \in n + 1 .. Len(ps) : ps[k].kind = kind => ps[k].day < ps[n].day
<1>1. DOMAIN ps = 1 .. Len(ps) /\ Len(ps) \in Nat /\ \A n \in DOMAIN ps : ps[n] \in ProofRow
  OBVIOUS
<1>2. \A n \in DOMAIN ps : ps[n].day \in 0 .. LastAccountDay
  BY <1>1 DEF ProofRow
<1>3. PICK some \in DOMAIN ps : ps[some].kind = kind
  BY DEF KindsIn
<1>4. PICK ages : ages = {LastAccountDay - ps[n].day : n \in {m \in DOMAIN ps : ps[m].kind = kind}}
  OBVIOUS
<1>5. ages \subseteq Nat /\ ages # {}
  BY <1>2, <1>3, <1>4, AccountBounds
<1>6. PICK age \in ages : \A a \in ages : age <= a
  BY <1>5, LeastIn
<1>7. PICK one \in DOMAIN ps : ps[one].kind = kind /\ age = LastAccountDay - ps[one].day
  BY <1>4, <1>6
<1>8. \A k \in DOMAIN ps : ps[k].kind = kind => ps[k].day <= ps[one].day
  <2> SUFFICES ASSUME NEW k \in DOMAIN ps, ps[k].kind = kind PROVE ps[k].day <= ps[one].day
    OBVIOUS
  <2>1. LastAccountDay - ps[k].day \in ages
    BY <1>4
  <2> QED
    BY <1>2, <1>6, <1>7, <2>1, AccountBounds
<1>9. PICK ends : ends = {Len(ps) - n : n \in {m \in DOMAIN ps : ps[m].kind = kind /\ ps[m].day = ps[one].day}}
  OBVIOUS
<1>10. ends \subseteq Nat /\ ends # {}
  BY <1>1, <1>7, <1>9
<1>11. PICK least \in ends : \A a \in ends : least <= a
  BY <1>10, LeastIn
<1>12. PICK n \in DOMAIN ps : ps[n].kind = kind /\ ps[n].day = ps[one].day /\ least = Len(ps) - n
  BY <1>9, <1>11
<1>13. \A k \in DOMAIN ps : ps[k].kind = kind => ps[k].day < ps[n].day \/ (ps[k].day = ps[n].day /\ k <= n)
  <2> SUFFICES ASSUME NEW k \in DOMAIN ps, ps[k].kind = kind, ps[k].day = ps[n].day PROVE k <= n
    BY <1>2, <1>8, <1>12
  <2>1. Len(ps) - k \in ends
    BY <1>9, <1>12
  <2> QED
    BY <1>1, <1>11, <1>12, <2>1
<1> DEFINE latest(p) == \E m \in DOMAIN ps :
                           /\ ps[m] = p /\ p.kind = kind
                           /\ \A k \in DOMAIN ps : ps[k].kind = kind => ps[k].day < p.day \/ (ps[k].day = p.day /\ k <= m)
<1>14. ps[n] \in {ps[m] : m \in DOMAIN ps} /\ latest(ps[n])
  BY <1>12, <1>13
<1>15. LatestOf(ps, kind) = CHOOSE p \in {ps[m] : m \in DOMAIN ps} : latest(p)
  BY DEF LatestOf
<1> HIDE DEF latest
<1>16. latest(LatestOf(ps, kind))
  BY <1>14, <1>15
<1>17. PICK m \in DOMAIN ps :
          /\ ps[m] = LatestOf(ps, kind) /\ ps[m].kind = kind
          /\ \A k \in DOMAIN ps : ps[k].kind = kind => ps[k].day < ps[m].day \/ (ps[k].day = ps[m].day /\ k <= m)
  BY <1>16 DEF latest
<1>18. \A k \in m + 1 .. Len(ps) : k \in DOMAIN ps /\ ~(k <= m)
  BY <1>1
<1> QED
  BY <1>17, <1>18

(* Evidence that is current backs what is decided that day, ...            *)
LEMMA CurrentBacked ==
    ASSUME NEW ps \in Seq(ProofRow), NEW day, Required \subseteq CurrentKinds(ps, day)
    PROVE  Backed(ps, Len(ps), day)
<1> SUFFICES ASSUME NEW kind \in Required
             PROVE  \E n \in 1 .. Len(ps) :
                        /\ ps[n].kind = kind /\ ps[n].status = "verified" /\ ps[n].day <= day /\ ps[n].ends > day
                        /\ \A k \in n + 1 .. Len(ps) : ps[k].kind = kind => ps[k].day < ps[n].day
  BY DEF Backed
<1>1. /\ kind \in KindsIn(ps) /\ LatestOf(ps, kind).status = "verified"
      /\ LatestOf(ps, kind).day <= day /\ LatestOf(ps, kind).ends > day
  BY DEF CurrentKinds
<1>2. PICK n \in DOMAIN ps :
          /\ LatestOf(ps, kind) = ps[n] /\ ps[n].kind = kind
          /\ \A k \in n + 1 .. Len(ps) : ps[k].kind = kind => ps[k].day < ps[n].day
  BY <1>1, LatestFound
<1> QED
  BY <1>1, <1>2

(* ... and still does when more is attached.                               *)
LEMMA BackedStays ==
    ASSUME NEW ps, NEW longer, NEW m \in Nat, NEW day, \A n \in 1 .. m : longer[n] = ps[n], Backed(ps, m, day)
    PROVE  Backed(longer, m, day)
<1> SUFFICES ASSUME NEW kind \in Required
             PROVE  \E n \in 1 .. m :
                        /\ longer[n].kind = kind /\ longer[n].status = "verified"
                        /\ longer[n].day <= day /\ longer[n].ends > day
                        /\ \A k \in n + 1 .. m : longer[k].kind = kind => longer[k].day < longer[n].day
  BY DEF Backed
<1>1. PICK n \in 1 .. m :
          /\ ps[n].kind = kind /\ ps[n].status = "verified" /\ ps[n].day <= day /\ ps[n].ends > day
          /\ \A k \in n + 1 .. m : ps[k].kind = kind => ps[k].day < ps[n].day
  BY DEF Backed
<1>2. longer[n] = ps[n] /\ \A k \in n + 1 .. m : longer[k] = ps[k]
  <2>1. \A k \in n + 1 .. m : k \in 1 .. m
    OBVIOUS
  <2> QED
    BY <2>1
<1> QED
  BY <1>1, <1>2

(* What evidence, and what a health check, makes of a row.                 *)
LEMMA RefreshedBacked ==
    ASSUME NEW r, HasColumns(r), NEW ps, NEW day, NEW new, new = Refreshed(r, ps, day)
    PROVE  /\ HasColumns(new) /\ new.day = day
           /\ new.status = "connected" => Required \subseteq CurrentKinds(ps, day)
<1>1. PICK auth : auth = AuthAfter(r, ps, day)
  OBVIOUS
<1> DEFINE fails == EvidenceFails(r, ps, day) \/ auth = "expired"
           ready == Required \subseteq CurrentKinds(ps, day) /\ auth = "authorized"
           row(status, health) == [r EXCEPT !.status = status, !.auth = auth, !.health = health, !.day = day]
<1>2. new = IF auth = "revoked" THEN row("revoked", "restricted")
            ELSE IF fails THEN row("restricted", "restricted")
            ELSE IF ready THEN row("connected", "healthy")
            ELSE row("pending", "unknown")
  BY <1>1 DEF Refreshed
<1>3. \A status, health : HasColumns(row(status, health)) /\ row(status, health).day = day /\ row(status, health).status = status
  BY DEF HasColumns
<1>4. ready => Required \subseteq CurrentKinds(ps, day)
  OBVIOUS
<1> HIDE DEF fails, ready, row
<1> QED
  BY <1>2, <1>3, <1>4

LEMMA CheckedBacked ==
    ASSUME NEW r, HasColumns(r), NEW ps, NEW day, NEW provider, NEW expires, NEW new,
           new = Checked(r, ps, day, provider, expires)
    PROVE  /\ HasColumns(new) /\ new.day = day
           /\ new.status = "connected" => Required \subseteq CurrentKinds(ps, day)
<1> DEFINE restricted == \/ r.auth \in {"expired", "revoked"} \/ expires <= day
                         \/ EvidenceFails(r, ps, day) \/ provider = "poor"
           ready == r.auth = "authorized" /\ Required \subseteq CurrentKinds(ps, day)
           status == IF r.auth = "revoked" THEN "revoked" ELSE IF restricted THEN "restricted"
                     ELSE IF ready THEN "connected" ELSE "pending"
           health == IF restricted THEN "restricted" ELSE provider
<1>1. /\ new = [r EXCEPT !.status = status, !.health = health, !.expires = expires, !.day = day]
      /\ status = "connected" => Required \subseteq CurrentKinds(ps, day)
  BY DEF Checked
<1> HIDE DEF status, health
<1>2. HasColumns(new) /\ new.day = day /\ new.status = status
  BY <1>1 DEF HasColumns
<1> QED
  BY <1>1, <1>2

(* The evidence stays.                                                     *)
LEMMA AccountMoves ==
    ASSUME AccountInv, proofs' = proofs, accountDay' \in 0 .. LastAccountDay,
           DOMAIN conn' = Connections, DOMAIN informed' = Connections,
           \A c \in Connections :
              HasColumns(conn'[c]) /\ informed'[c] \in 0 .. Len(proofs[c])
              /\ (conn'[c].status = "connected" => Backed(proofs[c], informed'[c], conn'[c].day)),
           DOMAIN reader' = Attachers \cup Checkers,
           \A w \in Attachers \cup Checkers : ReaderHolds(reader'[w]),
           \A b \in bound' : BoundHolds(b)
    PROVE  AccountInv'
<1>1. \A w \in Attachers \cup Checkers : ReaderHolds(reader[w])'
  BY DEF ReaderHolds
<1>2. \A b \in bound' : BoundHolds(b)'
  BY DEF BoundHolds
<1>3. proofs' \in [Connections -> Seq(ProofRow)]
  BY DEF AccountInv
<1> QED
  BY <1>1, <1>2, <1>3 DEF AccountInv

LEMMA AccountsGo == ASSUME AccountInv, AccountNext PROVE AccountInv'
<1>1. /\ accountDay \in 0 .. LastAccountDay /\ proofs \in [Connections -> Seq(ProofRow)]
      /\ DOMAIN conn = Connections /\ DOMAIN informed = Connections
      /\ \A c \in Connections :
          HasColumns(conn[c]) /\ informed[c] \in 0 .. Len(proofs[c])
          /\ (conn[c].status = "connected" => Backed(proofs[c], informed[c], conn[c].day))
      /\ DOMAIN reader = Attachers \cup Checkers
      /\ \A w \in Attachers \cup Checkers : ReaderHolds(reader[w])
      /\ \A b \in bound : BoundHolds(b)
      /\ ReaderHolds(NotReading)
  BY DEF AccountInv, ReaderHolds, NotReading
<1>2. \A c \in Connections : DOMAIN proofs[c] = 1 .. Len(proofs[c]) /\ Len(proofs[c]) \in Nat
  BY <1>1
<1>3. CASE \E c \in Connections : CreateConnection(c)
  <2>1. PICK c \in Connections : CreateConnection(c)
    BY <1>3
  <2>2. PICK r : r = [Shell EXCEPT !.day = accountDay]
    OBVIOUS
  <2>3. HasColumns(r) /\ r.status = "pending"
    BY <2>2 DEF HasColumns, Shell
  <2>4. conn' = [conn EXCEPT ![c] = r] /\ UNCHANGED <<accountDay, proofs, reader, informed, bound>>
    BY <2>1, <2>2 DEF CreateConnection
  <2>5. \A d \in Connections : conn'[d].status = "connected" => conn'[d] = conn[d]
    BY <1>1, <2>3, <2>4
  <2> QED
    BY <1>1, <2>3, <2>4, <2>5, AccountMoves
<1>4. CASE \E c \in Connections : BindTarget(c)
  <2>1. PICK c \in Connections : BindTarget(c)
    BY <1>4
  <2> DEFINE b == [conn |-> c, day |-> accountDay, known |-> Len(proofs[c])]
  <2>2. Backed(proofs[c], Len(proofs[c]), accountDay)
    BY <1>1, <2>1, CurrentBacked DEF BindTarget, PassportReady
  <2>3. BoundHolds(b)
    BY <1>2, <2>2 DEF BoundHolds
  <2>4. bound' = bound \cup {b} /\ UNCHANGED <<accountDay, conn, proofs, reader, informed>>
    BY <2>1 DEF BindTarget
  <2> HIDE DEF b
  <2>5. \A o \in bound' : BoundHolds(o)
    BY <1>1, <2>3, <2>4
  <2> QED
    BY <1>1, <2>4, <2>5, AccountMoves
<1>5. CASE NextAccountDay
  <2>1. accountDay' \in 0 .. LastAccountDay
    BY <1>1, <1>5, AccountBounds DEF NextAccountDay
  <2> QED
    BY <1>1, <1>5, <2>1, AccountMoves DEF NextAccountDay
<1>6. CASE \E w \in Attachers, c \in Connections, offer \in Offered : AttachReads(w, c, offer)
  <2>1. PICK w \in Attachers, c \in Connections, offer \in Offered : AttachReads(w, c, offer)
    BY <1>6
  <2> DEFINE p == [kind |-> offer.kind, status |-> offer.status, ends |-> offer.ends, day |-> accountDay]
             r == [op |-> "attach", conn |-> c, row |-> conn[c], proof |-> p]
  <2>2. p \in ProofRow
    BY <1>1, AccountBounds DEF ProofRow, KindsOffered, StatesOffered
  <2>3. reader' = [reader EXCEPT ![w] = r] /\ UNCHANGED <<accountDay, conn, proofs, informed, bound>>
    BY <2>1 DEF AttachReads
  <2> HIDE DEF p
  <2>4. ReaderHolds(r)
    BY <1>1, <2>2 DEF ReaderHolds
  <2> HIDE DEF r
  <2>5. DOMAIN reader' = Attachers \cup Checkers /\ \A u \in Attachers \cup Checkers : ReaderHolds(reader'[u])
    BY <1>1, <2>3, <2>4
  <2> QED
    BY <1>1, <2>3, <2>5, AccountMoves
<1>7. CASE \E w \in Checkers, c \in Connections, o \in Outcomes : HealthReads(w, c, o.provider, o.expires)
  <2>1. PICK w \in Checkers, c \in Connections, o \in Outcomes : HealthReads(w, c, o.provider, o.expires)
    BY <1>7
  <2>2. PICK row : row = Checked(conn[c], proofs[c], accountDay, o.provider, o.expires)
    OBVIOUS
  <2> DEFINE r == [op |-> "health", conn |-> c, known |-> Len(proofs[c]), row |-> row]
  <2>3. reader' = [reader EXCEPT ![w] = r] /\ UNCHANGED <<accountDay, conn, proofs, informed, bound>>
    BY <2>1, <2>2 DEF HealthReads
  <2>4. HasColumns(row) /\ row.day = accountDay /\ (row.status = "connected" => Required \subseteq CurrentKinds(proofs[c], accountDay))
    BY <1>1, <2>2, CheckedBacked
  <2>5. row.status = "connected" => Backed(proofs[c], Len(proofs[c]), row.day)
    BY <1>1, <2>4, CurrentBacked
  <2>6. ReaderHolds(r)
    BY <1>2, <2>4, <2>5 DEF ReaderHolds
  <2> HIDE DEF r
  <2>7. DOMAIN reader' = Attachers \cup Checkers /\ \A u \in Attachers \cup Checkers : ReaderHolds(reader'[u])
    BY <1>1, <2>3, <2>6
  <2> QED
    BY <1>1, <2>3, <2>7, AccountMoves
<1>8. CASE \E w \in Checkers : HealthWrites(w)
  <2>1. PICK w \in Checkers : HealthWrites(w)
    BY <1>8
  <2>2. PICK r, c, row : r = reader[w] /\ c = r.conn /\ row = r.row
    OBVIOUS
  <2>3. /\ r.op = "health" /\ c \in Connections /\ HasColumns(row) /\ r.known \in 0 .. Len(proofs[c])
        /\ row.status = "connected" => Backed(proofs[c], r.known, row.day)
    BY <1>1, <2>1, <2>2 DEF HealthWrites, ReaderHolds
  <2>4. /\ conn' = [conn EXCEPT ![c] = row] /\ informed' = [informed EXCEPT ![c] = r.known]
        /\ reader' = [reader EXCEPT ![w] = NotReading] /\ UNCHANGED <<accountDay, proofs, bound>>
    BY <2>1, <2>2 DEF HealthWrites
  <2>6. conn'[c] = row /\ informed'[c] = r.known
    BY <1>1, <2>3, <2>4
  <2>7. \A d \in Connections :
          HasColumns(conn'[d]) /\ informed'[d] \in 0 .. Len(proofs[d])
          /\ (conn'[d].status = "connected" => Backed(proofs[d], informed'[d], conn'[d].day))
    <3>1. \A d \in Connections \ {c} : conn'[d] = conn[d] /\ informed'[d] = informed[d]
      BY <1>1, <2>4
    <3> QED
      BY <1>1, <2>3, <2>6, <3>1
  <2>8. DOMAIN reader' = Attachers \cup Checkers /\ \A u \in Attachers \cup Checkers : ReaderHolds(reader'[u])
    BY <1>1, <2>4
  <2>9. DOMAIN conn' = Connections /\ DOMAIN informed' = Connections
    BY <1>1, <2>4
  <2> QED
    BY <1>1, <2>4, <2>7, <2>8, <2>9, AccountMoves
<1>9. CASE \E w \in Attachers : AttachWrites(w)
  <2>1. PICK w \in Attachers : AttachWrites(w)
    BY <1>9
  <2>2. PICK r, c, p : r = reader[w] /\ c = r.conn /\ p = r.proof
    OBVIOUS
  <2>3. c \in Connections /\ HasColumns(r.row) /\ p \in ProofRow
    BY <1>1, <2>1, <2>2 DEF AttachWrites, ReaderHolds
  <2>4. PICK ps : ps = Append(proofs[c], p)
    OBVIOUS
  <2>5. /\ proofs' = [proofs EXCEPT ![c] = ps] /\ proofs'[c] = ps
        /\ informed' = [informed EXCEPT ![c] = Len(ps)] /\ reader' = [reader EXCEPT ![w] = NotReading]
        /\ UNCHANGED <<accountDay, bound>>
    BY <1>1, <2>1, <2>2, <2>3, <2>4 DEF AttachWrites
  <2>6. PICK row : row = Refreshed(r.row, ps, p.day)
    OBVIOUS
  <2>7. conn' = [conn EXCEPT ![c] = row]
    BY <2>1, <2>2, <2>5, <2>6 DEF AttachWrites
  <2>8. /\ ps \in Seq(ProofRow) /\ Len(ps) = Len(proofs[c]) + 1 /\ \A n \in 1 .. Len(proofs[c]) : ps[n] = proofs[c][n]
    BY <1>1, <2>3, <2>4
  <2>9. HasColumns(row) /\ row.day = p.day /\ (row.status = "connected" => Backed(ps, Len(ps), row.day))
    BY <2>3, <2>6, <2>8, RefreshedBacked, CurrentBacked
  <2>10. /\ proofs' \in [Connections -> Seq(ProofRow)] /\ \A d \in Connections \ {c} : proofs'[d] = proofs[d]
    BY <1>1, <2>5, <2>8
  <2>11. \A d \in Connections : Len(proofs'[d]) \in Nat /\ Len(proofs[d]) <= Len(proofs'[d])
                                /\ \A n \in 1 .. Len(proofs[d]) : proofs'[d][n] = proofs[d][n]
    BY <1>2, <2>5, <2>8, <2>10
  <2>12. \A u \in Attachers \cup Checkers : ReaderHolds(reader[u])'
    <3> SUFFICES ASSUME NEW u \in Attachers \cup Checkers, reader'[u] # NotReading PROVE ReaderHolds(reader[u])'
      BY DEF ReaderHolds, NotReading
    <3>1. reader'[u] = reader[u] /\ ReaderHolds(reader[u])
      BY <1>1, <2>5
    <3>2. CASE reader[u].op = "health"
      <4>1. PICK d : d = reader[u].conn
        OBVIOUS
      <4>2. d \in Connections /\ reader[u].known \in 0 .. Len(proofs[d])
        BY <3>1, <3>2, <4>1 DEF ReaderHolds
      <4>3. reader[u].known \in 0 .. Len(proofs'[d]) /\ reader[u].known \in Nat
            /\ \A n \in 1 .. reader[u].known : proofs'[d][n] = proofs[d][n]
        BY <1>2, <2>11, <4>2
      <4>4. reader[u].row.status = "connected" => Backed(proofs[d], reader[u].known, reader[u].row.day)
        BY <3>1, <3>2, <4>1 DEF ReaderHolds
      <4>5. reader[u].row.status = "connected" => Backed(proofs'[d], reader[u].known, reader[u].row.day)
        BY <4>3, <4>4, BackedStays
      <4>6. reader'[u].op = "health" /\ reader'[u].conn = d /\ HasColumns(reader'[u].row)
        BY <3>1, <3>2, <4>1 DEF ReaderHolds
      <4>7. /\ reader'[u].known \in 0 .. Len(proofs'[reader'[u].conn])
            /\ reader'[u].row.status = "connected" =>
                  Backed(proofs'[reader'[u].conn], reader'[u].known, reader'[u].row.day)
        BY <3>1, <4>3, <4>5, <4>6
      <4> QED
        BY <4>2, <4>6, <4>7 DEF ReaderHolds, Backed
    <3>3. CASE reader[u].op # "health"
      BY <3>1, <3>3 DEF ReaderHolds
    <3> QED
      BY <3>2, <3>3
  <2>13. \A b \in bound : BoundHolds(b)'
    <3> SUFFICES ASSUME NEW b \in bound PROVE BoundHolds(b)'
      OBVIOUS
    <3>1. BoundHolds(b)
      BY <1>1
    <3>2. b.known \in 0 .. Len(proofs'[b.conn]) /\ b.known \in Nat
          /\ \A n \in 1 .. b.known : proofs'[b.conn][n] = proofs[b.conn][n]
      BY <1>2, <2>11, <3>1 DEF BoundHolds
    <3>3. Backed(proofs'[b.conn], b.known, b.day)
      BY <3>1, <3>2, BackedStays DEF BoundHolds
    <3> QED
      BY <3>1, <3>2, <3>3 DEF BoundHolds, Backed
  <2>14. \A d \in Connections :
          HasColumns(conn'[d]) /\ informed'[d] \in 0 .. Len(proofs'[d])
          /\ (conn'[d].status = "connected" => Backed(proofs'[d], informed'[d], conn'[d].day))
    <3>1. conn'[c] = row /\ informed'[c] = Len(ps) /\ Len(ps) \in 0 .. Len(ps)
      BY <1>1, <1>2, <2>3, <2>5, <2>7, <2>8
    <3>2. \A d \in Connections \ {c} : conn'[d] = conn[d] /\ informed'[d] = informed[d]
      BY <1>1, <2>5, <2>7
    <3> QED
      BY <1>1, <2>5, <2>9, <2>10, <3>1, <3>2
  <2>15. DOMAIN conn' = Connections /\ DOMAIN informed' = Connections /\ DOMAIN reader' = Attachers \cup Checkers
    BY <1>1, <2>5, <2>7
  <2> QED
    BY <1>1, <2>5, <2>10, <2>12, <2>13, <2>14, <2>15 DEF AccountInv
<1> QED
  BY <1>3, <1>4, <1>5, <1>6, <1>7, <1>8, <1>9 DEF AccountNext

LEMMA AccountsStay == AccountInv /\ UNCHANGED accountVars => AccountInv'
<1> SUFFICES ASSUME AccountInv, UNCHANGED accountVars PROVE AccountInv'
  OBVIOUS
<1>1. UNCHANGED <<accountDay, conn, proofs, reader, informed, bound>>
  BY DEF accountVars
<1> QED
  BY <1>1, AccountMoves DEF AccountInv

-----------------------------------------------------------------------------
(* Versions of targets. A row is that of a version begun when so many were *)
(* stored, whose number is above theirs; a row about to be written back is *)
(* one of the version it was read from.                                    *)
StatesOf(status) ==
    CASE status = "draft" -> {<<"draft">>}
      [] status = "active" -> {<<"active">>, <<"draft", "active">>}
      [] status = "retired" -> {<<"active", "retired">>, <<"draft", "retired">>, <<"draft", "active", "retired">>}
AllStates == UNION {StatesOf(s) : s \in {"draft", "active", "retired"}}
VersionRow == [no : Nat, status : {"draft", "active", "retired"}, policy : BOOLEAN,
               states : AllStates, by : Nat, seen : Nat]

RowLives(r) ==
    /\ r \in VersionRow /\ r.states \in StatesOf(r.status)
    /\ r.status = "active" => r.policy
    /\ 0 < r.no /\ r.no <= r.seen + 1 /\ r.seen <= Len(tversion)
    /\ \A a \in 1 .. r.seen : tversion[a].no < r.no

RowRetired(v, r) == r.status = "retired" => IF r.by = 0 THEN target = "retired" ELSE r.by # v /\ r.by \in DOMAIN tversion

CopyLives(c) ==
    /\ c.op \in {"none", "create", "write"}
    /\ c.op = "create" => RowLives(c.row) /\ c.row.status # "retired"
    /\ c.op = "write" =>
          /\ c.at \in DOMAIN tversion /\ RowLives(c.row) /\ RowRetired(c.at, c.row)
          /\ c.row.no = tversion[c.at].no /\ c.row.seen = tversion[c.at].seen

TargetInv ==
    /\ tversion \in Seq(VersionRow)
    /\ \A v \in DOMAIN tversion : RowLives(tversion[v]) /\ RowRetired(v, tversion[v]) /\ tversion[v].seen < v
    /\ DOMAIN copied = TargetWorkers /\ \A w \in TargetWorkers : CopyLives(copied[w])

LEMMA TargetsStart == TargetInit => TargetInv
BY DEF TargetInit, TargetInv, CopyLives, NoCopy

LEMMA TargetsTold == TargetInv => NumbersFollow /\ LifecycleKept
<1> SUFFICES ASSUME TargetInv PROVE NumbersFollow /\ LifecycleKept
  OBVIOUS
<1>1. DOMAIN tversion = 1 .. Len(tversion) /\ Len(tversion) \in Nat
  BY DEF TargetInv
<1>2. NumbersFollow
  <2>1. \A b \in DOMAIN tversion : RowLives(tversion[b])
    BY DEF TargetInv
  <2>2. \A b \in DOMAIN tversion : \A a \in 1 .. tversion[b].seen : tversion[a].no < tversion[b].no
    BY <2>1 DEF RowLives
  <2> QED
    BY <1>1, <2>1, <2>2 DEF NumbersFollow, RowLives, VersionRow
<1>3. \A s \in {"draft", "active", "retired"} : \A states \in StatesOf(s) :
          states \in {<<"draft">>, <<"active">>, <<"draft", "active">>, <<"active", "retired">>,
                      <<"draft", "retired">>, <<"draft", "active", "retired">>}
  BY DEF StatesOf
<1>4. LifecycleKept
  <2> SUFFICES ASSUME NEW v \in DOMAIN tversion, NEW t, t = tversion[v]
               PROVE  /\ t.status = "retired" => IF t.by = 0 THEN target = "retired" ELSE t.by # v /\ t.by \in DOMAIN tversion
                      /\ t.status = "active" => t.policy
                      /\ t.states \in {<<"draft">>, <<"active">>, <<"draft", "active">>, <<"active", "retired">>,
                                       <<"draft", "retired">>, <<"draft", "active", "retired">>}
    BY DEF LifecycleKept
  <2>1. RowLives(t) /\ RowRetired(v, t)
    BY DEF TargetInv
  <2>2. t.status \in {"draft", "active", "retired"} /\ t.states \in StatesOf(t.status)
    BY <2>1 DEF RowLives, VersionRow
  <2> QED
    BY <1>3, <2>1, <2>2 DEF RowLives, RowRetired
<1> QED
  BY <1>2, <1>4

(* The next number is one above all that there are.                        *)
LEMMA NextAboveAll ==
    ASSUME TargetInv
    PROVE  /\ NextNumber(tversion) \in 1 .. Len(tversion) + 1
           /\ \A a \in DOMAIN tversion : tversion[a].no < NextNumber(tversion)
<1>1. DOMAIN tversion = 1 .. Len(tversion) /\ Len(tversion) \in Nat
  BY DEF TargetInv
<1>2. \A a \in DOMAIN tversion : tversion[a].no \in Nat /\ 0 < tversion[a].no /\ tversion[a].no < Len(tversion) + 1
  BY <1>1 DEF TargetInv, RowLives, VersionRow
<1>3. PICK all : all = NumbersOf(tversion)
  OBVIOUS
<1>4. \A k \in all : k \in Nat /\ 0 < k /\ k < Len(tversion) + 1
  BY <1>2, <1>3 DEF NumbersOf
<1>5. PICK above : above = {n \in 1 .. Len(tversion) + 1 : \A k \in all : k < n}
  OBVIOUS
<1>6. above \subseteq Nat /\ Len(tversion) + 1 \in above
  BY <1>1, <1>4, <1>5
<1>7. PICK n \in above : \A k \in above : n <= k
  BY <1>6, LeastIn
<1>8. n \in 1 .. Len(tversion) + 1 /\ (\A k \in all : k < n)
  BY <1>5
<1>9. n - 1 \in all \cup {0}
  <2> SUFFICES ASSUME n - 1 \notin all, n # 1 PROVE FALSE
    BY <1>1, <1>8
  <2>1. n - 1 \in 1 .. Len(tversion) + 1 /\ n - 1 < n
    BY <1>1, <1>8
  <2>2. \A k \in all : k < n - 1
    BY <1>4, <1>8
  <2>3. n - 1 \in above
    BY <1>5, <2>1, <2>2
  <2> QED
    BY <1>7, <1>8, <2>1, <2>3
<1>10. /\ NextNumber(tversion) \in 1 .. Len(tversion) + 1
       /\ \A k \in all : k < NextNumber(tversion)
  BY <1>3, <1>8, <1>9 DEF NextNumber
<1> QED
  BY <1>3, <1>10 DEF NumbersOf

(* A worker goes on to another command; the versions stay.                 *)
LEMMA CopyMoves ==
    ASSUME TargetInv, tversion' = tversion, target' = target \/ target' = "retired",
           NEW w, NEW c, copied' = copied \/ (copied' = [copied EXCEPT ![w] = c] /\ CopyLives(c))
    PROVE  TargetInv'
<1>1. \A u \in TargetWorkers : CopyLives(copied'[u])
  BY DEF TargetInv
<1>2. \A r : (RowLives(r) => RowLives(r)') /\ \A v : RowRetired(v, r) => RowRetired(v, r)'
  BY DEF RowLives, RowRetired
<1>3. \A u \in TargetWorkers : CopyLives(copied[u])'
  BY <1>1, <1>2 DEF CopyLives
<1>4. \A v \in DOMAIN tversion' : RowLives(tversion[v])' /\ RowRetired(v, tversion[v])' /\ tversion'[v].seen < v
  BY <1>2 DEF TargetInv
<1> QED
  BY <1>3, <1>4 DEF TargetInv

(* What is appended to a short sequence, written out.                      *)
LEMMA AppendIs ==
    ASSUME NEW S, NEW s \in Seq(S), NEW e \in S, NEW t \in Seq(S), Len(t) = Len(s) + 1,
           t[Len(s) + 1] = e, \A i \in 1 .. Len(s) : t[i] = s[i]
    PROVE  Append(s, e) = t
<1>1. PICK u : u = Append(s, e)
  OBVIOUS
<1>2. u \in Seq(S) /\ Len(u) = Len(s) + 1 /\ u[Len(s) + 1] = e /\ \A i \in 1 .. Len(s) : u[i] = s[i]
  BY <1>1, AppendProperties
<1>3. \A i \in 1 .. Len(u) : i \in 1 .. Len(s) \/ i = Len(s) + 1
  BY <1>2
<1>4. \A i \in 1 .. Len(u) : u[i] = t[i]
  BY <1>2, <1>3
<1>5. u = t
  BY <1>2, <1>4, SeqEqual
<1> QED
  BY <1>1, <1>5

LEMMA ShortOnes ==
    ASSUME NEW S
    PROVE  /\ \A a, b \in S : Append(<<a>>, b) = <<a, b>>
           /\ \A a, b, c \in S : Append(<<a, b>>, c) = <<a, b, c>>
<1>1. ASSUME NEW a \in S, NEW b \in S PROVE Append(<<a>>, b) = <<a, b>>
  <2>1. /\ <<a>> \in Seq(S) /\ Len(<<a>>) = 1 /\ <<a>>[1] = a
        /\ <<a, b>> \in Seq(S) /\ Len(<<a, b>>) = 2 /\ <<a, b>>[1] = a /\ <<a, b>>[2] = b
    OBVIOUS
  <2> DEFINE s == <<a>>
             t == <<a, b>>
  <2>2. /\ s \in Seq(S) /\ Len(s) = 1 /\ s[1] = a
        /\ t \in Seq(S) /\ Len(t) = 2 /\ t[1] = a /\ t[2] = b
    BY <2>1
  <2> HIDE DEF s, t
  <2>3. Append(s, b) = t
    <3>1. Len(t) = Len(s) + 1 /\ t[Len(s) + 1] = b /\ \A i \in 1 .. Len(s) : t[i] = s[i]
      BY <2>2
    <3> QED
      BY <2>2, <3>1, AppendIs
  <2> QED
    BY <2>3 DEF s, t
<1>2. ASSUME NEW a \in S, NEW b \in S, NEW c \in S PROVE Append(<<a, b>>, c) = <<a, b, c>>
  <2>1. /\ <<a, b>> \in Seq(S) /\ Len(<<a, b>>) = 2 /\ <<a, b>>[1] = a /\ <<a, b>>[2] = b
        /\ <<a, b, c>> \in Seq(S) /\ Len(<<a, b, c>>) = 3
        /\ <<a, b, c>>[1] = a /\ <<a, b, c>>[2] = b /\ <<a, b, c>>[3] = c
    OBVIOUS
  <2> DEFINE s == <<a, b>>
             t == <<a, b, c>>
  <2>2. /\ s \in Seq(S) /\ Len(s) = 2 /\ s[1] = a /\ s[2] = b
        /\ t \in Seq(S) /\ Len(t) = 3 /\ t[1] = a /\ t[2] = b /\ t[3] = c
    BY <2>1
  <2> HIDE DEF s, t
  <2>3. Append(s, c) = t
    <3>1. Len(t) = Len(s) + 1 /\ t[Len(s) + 1] = c
      BY <2>2
    <3>2. \A i \in 1 .. Len(s) : i = 1 \/ i = 2
      BY <2>2
    <3>3. \A i \in 1 .. Len(s) : t[i] = s[i]
      BY <2>2, <3>2
    <3> QED
      BY <2>2, <3>1, <3>3, AppendIs
  <2> QED
    BY <2>3 DEF s, t
<1> QED
  BY <1>1, <1>2

(* A copy with one more state.                                             *)
LEMMA StateFollows ==
    /\ \A states \in StatesOf("draft") : Append(states, "active") \in StatesOf("active")
    /\ \A s \in {"draft", "active"} : \A states \in StatesOf(s) : Append(states, "retired") \in StatesOf("retired")
<1>1. \A a, b \in {"draft", "active", "retired"} : Append(<<a>>, b) = <<a, b>>
  BY ShortOnes
<1>2. \A a, b, c \in {"draft", "active", "retired"} : Append(<<a, b>>, c) = <<a, b, c>>
  BY ShortOnes
<1>3. StatesOf("draft") = {<<"draft">>}
  BY DEF StatesOf
<1>4. StatesOf("active") = {<<"active">>, <<"draft", "active">>}
  BY DEF StatesOf
<1>5. StatesOf("retired") = {<<"active", "retired">>, <<"draft", "retired">>, <<"draft", "active", "retired">>}
  BY DEF StatesOf
<1>6. /\ Append(<<"draft">>, "active") = <<"draft", "active">> /\ Append(<<"draft">>, "retired") = <<"draft", "retired">>
      /\ Append(<<"active">>, "retired") = <<"active", "retired">>
  BY <1>1
<1>7. Append(<<"draft", "active">>, "retired") = <<"draft", "active", "retired">>
  BY <1>2
<1> QED
  BY <1>3, <1>4, <1>5, <1>6, <1>7

LEMMA TargetsGo == ASSUME TargetInv, TargetNext PROVE TargetInv'
<1>1. DOMAIN tversion = 1 .. Len(tversion) /\ Len(tversion) \in Nat /\ CopyLives(NoCopy) /\ DOMAIN copied = TargetWorkers
  BY DEF TargetInv, CopyLives, NoCopy
<1>2. CASE RetireTarget
  BY <1>2, CopyMoves DEF RetireTarget
<1>3. CASE \E w \in TargetWorkers, status \in {"draft", "active"}, ruled \in BOOLEAN : VersionBegins(w, status, ruled)
  <2>1. PICK w \in TargetWorkers, status \in {"draft", "active"}, ruled \in BOOLEAN : VersionBegins(w, status, ruled)
    BY <1>3
  <2>2. PICK n : n = NextNumber(tversion)
    OBVIOUS
  <2>3. n \in Nat /\ 0 < n /\ n <= Len(tversion) + 1 /\ \A a \in 1 .. Len(tversion) : tversion[a].no < n
    BY <1>1, <2>2, NextAboveAll
  <2> DEFINE r == [no |-> n, status |-> status, policy |-> ruled, states |-> <<status>>, by |-> 0, seen |-> Len(tversion)]
             c == [op |-> "create", row |-> r]
  <2>4. <<status>> \in StatesOf(status)
    BY DEF StatesOf
  <2>5. r \in VersionRow
    BY <1>1, <2>3, <2>4 DEF VersionRow, AllStates
  <2>6. RowLives(r) /\ r.status # "retired"
    BY <1>1, <2>1, <2>3, <2>4, <2>5 DEF RowLives, VersionBegins
  <2>7. copied' = [copied EXCEPT ![w] = c] /\ UNCHANGED <<target, tversion>>
    BY <2>1, <2>2 DEF VersionBegins
  <2>8. CopyLives(c)
    <3> HIDE DEF r
    <3> QED
      BY <2>6 DEF CopyLives
  <2> QED
    BY <2>7, <2>8, CopyMoves
<1>4. CASE \E w \in TargetWorkers : VersionStored(w)
  <2>1. PICK w \in TargetWorkers : VersionStored(w)
    BY <1>4
  <2>2. PICK r : r = copied[w].row
    OBVIOUS
  <2>3. /\ RowLives(r) /\ r.status # "retired" /\ tversion' = Append(tversion, r)
        /\ copied' = [copied EXCEPT ![w] = NoCopy] /\ target' = target
    BY <2>1, <2>2 DEF VersionStored, TargetInv, CopyLives
  <2>4. /\ tversion' \in Seq(VersionRow) /\ Len(tversion') = Len(tversion) + 1 /\ tversion'[Len(tversion) + 1] = r
        /\ \A v \in DOMAIN tversion : v \in DOMAIN tversion' /\ tversion'[v] = tversion[v]
    BY <2>3 DEF TargetInv, RowLives
  <2>5. \A s : (RowLives(s) => RowLives(s)') /\ \A v : RowRetired(v, s) => RowRetired(v, s)'
    <3>1. \A s : RowLives(s) => s.seen \in Nat /\ s.seen <= Len(tversion)
      BY DEF RowLives, VersionRow
    <3>2. \A s : RowLives(s) => RowLives(s)'
      BY <1>1, <2>4, <3>1 DEF RowLives
    <3>3. \A s : \A v : RowRetired(v, s) => RowRetired(v, s)'
      BY <2>3, <2>4 DEF RowRetired
    <3> QED
      BY <3>2, <3>3
  <2>6. \A u \in TargetWorkers : CopyLives(copied[u])'
    <3>1. \A c : CopyLives(c) => CopyLives(c)'
      BY <2>4, <2>5 DEF CopyLives
    <3>2. \A u \in TargetWorkers : CopyLives(copied'[u])
      BY <1>1, <2>3 DEF TargetInv
    <3> QED
      BY <3>1, <3>2 DEF CopyLives
  <2>7. \A v \in DOMAIN tversion' : RowLives(tversion[v])' /\ RowRetired(v, tversion[v])' /\ tversion'[v].seen < v
    <3>1. \A v \in DOMAIN tversion : RowLives(tversion'[v]) /\ RowRetired(v, tversion'[v]) /\ tversion'[v].seen < v
      BY <2>4 DEF TargetInv
    <3>2. RowLives(r) /\ RowRetired(Len(tversion) + 1, r) /\ r.seen < Len(tversion) + 1
      BY <1>1, <2>3 DEF RowRetired, RowLives, VersionRow
    <3>3. \A v \in DOMAIN tversion' : v \in DOMAIN tversion \/ v = Len(tversion) + 1
      BY <1>1, <2>4
    <3>4. \A v \in DOMAIN tversion' : RowLives(tversion'[v]) /\ RowRetired(v, tversion'[v]) /\ tversion'[v].seen < v
      BY <2>4, <3>1, <3>2, <3>3
    <3> QED
      BY <2>5, <3>4
  <2>8. DOMAIN copied' = TargetWorkers
    BY <1>1, <2>3
  <2> QED
    BY <2>4, <2>6, <2>7, <2>8 DEF TargetInv
<1>5. CASE \E w \in TargetWorkers : Written(w)
  <2>1. PICK w \in TargetWorkers : Written(w)
    BY <1>5
  <2>2. PICK r, v : r = copied[w].row /\ v = copied[w].at
    OBVIOUS
  <2>3. /\ v \in DOMAIN tversion /\ RowLives(r) /\ RowRetired(v, r) /\ r.no = tversion[v].no /\ r.seen = tversion[v].seen
        /\ tversion' = [tversion EXCEPT ![v] = r] /\ copied' = [copied EXCEPT ![w] = NoCopy] /\ target' = target
    BY <2>1, <2>2 DEF Written, TargetInv, CopyLives
  <2>4. /\ tversion' \in Seq(VersionRow) /\ Len(tversion') = Len(tversion) /\ DOMAIN tversion' = DOMAIN tversion
        /\ tversion'[v] = r /\ \A u \in DOMAIN tversion : u # v => tversion'[u] = tversion[u]
    BY <2>3 DEF TargetInv, RowLives
  <2>5. \A u \in DOMAIN tversion : tversion'[u].no = tversion[u].no /\ tversion'[u].seen = tversion[u].seen
    BY <2>3, <2>4
  <2>6. \A s : RowLives(s) => RowLives(s)'
    <3>1. \A s : RowLives(s) => s.seen \in Nat /\ s.seen <= Len(tversion)
      BY DEF RowLives, VersionRow
    <3> QED
      BY <1>1, <2>4, <2>5, <3>1 DEF RowLives
  <2>7. \A s : \A u : RowRetired(u, s) => RowRetired(u, s)'
    BY <2>3, <2>4 DEF RowRetired
  <2>8. \A u \in TargetWorkers : CopyLives(copied[u])'
    <3>1. \A c : CopyLives(c) => CopyLives(c)'
      BY <2>4, <2>5, <2>6, <2>7 DEF CopyLives
    <3>2. \A u \in TargetWorkers : CopyLives(copied'[u])
      BY <1>1, <2>3 DEF TargetInv
    <3> QED
      BY <3>1, <3>2 DEF CopyLives
  <2>9. \A u \in DOMAIN tversion' : RowLives(tversion'[u]) /\ RowRetired(u, tversion'[u]) /\ tversion'[u].seen < u
    BY <2>3, <2>4 DEF TargetInv
  <2> QED
    BY <1>1, <2>3, <2>4, <2>6, <2>7, <2>8, <2>9 DEF TargetInv
<1>6. CASE \E w \in TargetWorkers, v \in DOMAIN tversion :
              ActivateBegins(w, v) \/ \E by \in 0 .. Len(tversion) : RetireBegins(w, v, by)
  <2>1. PICK w \in TargetWorkers, v \in DOMAIN tversion :
              ActivateBegins(w, v) \/ \E by \in 0 .. Len(tversion) : RetireBegins(w, v, by)
    BY <1>6
  <2>2. RowLives(tversion[v]) /\ tversion[v] \in VersionRow /\ UNCHANGED <<target, tversion>>
    BY <2>1 DEF TargetInv, RowLives, ActivateBegins, RetireBegins
  <2>3. PICK was : was = tversion[v]
    OBVIOUS
  <2>4. PICK r : /\ copied' = [copied EXCEPT ![w] = [op |-> "write", at |-> v, row |-> r]]
                 /\ RowLives(r) /\ RowRetired(v, r) /\ r.no = was.no /\ r.seen = was.seen
    <3>1. CASE ActivateBegins(w, v)
      <4>1. PICK states : states = Append(was.states, "active")
        OBVIOUS
      <4>2. was.status = "draft" /\ was.policy
        BY <2>3, <3>1 DEF ActivateBegins
      <4>3. states \in StatesOf("active")
        BY <2>2, <2>3, <4>1, <4>2, StateFollows DEF RowLives
      <4> DEFINE r == [was EXCEPT !.status = "active", !.states = states]
      <4>4. copied' = [copied EXCEPT ![w] = [op |-> "write", at |-> v, row |-> r]]
        BY <2>3, <3>1, <4>1 DEF ActivateBegins
      <4>5. r \in VersionRow /\ r.status = "active" /\ r.states = states /\ r.no = was.no /\ r.seen = was.seen /\ r.policy = was.policy
        <5>1. states \in AllStates
          BY <4>3 DEF AllStates
        <5> QED
          BY <2>2, <2>3, <5>1 DEF VersionRow
      <4> HIDE DEF r
      <4>6. RowLives(r) /\ RowRetired(v, r)
        BY <2>2, <2>3, <4>2, <4>3, <4>5 DEF RowLives, RowRetired
      <4> QED
        BY <4>4, <4>5, <4>6
    <3>2. CASE \E by \in 0 .. Len(tversion) : RetireBegins(w, v, by)
      <4>1. PICK by \in 0 .. Len(tversion) : RetireBegins(w, v, by)
        BY <3>2
      <4>2. PICK states : states = Append(was.states, "retired")
        OBVIOUS
      <4>3. was.status \in {"draft", "active"}
        BY <2>2, <2>3, <4>1 DEF RetireBegins, VersionRow
      <4>4. states \in StatesOf("retired")
        BY <2>2, <2>3, <4>2, <4>3, StateFollows DEF RowLives
      <4> DEFINE r == [was EXCEPT !.status = "retired", !.states = states, !.by = by]
      <4>5. copied' = [copied EXCEPT ![w] = [op |-> "write", at |-> v, row |-> r]]
        BY <2>3, <4>1, <4>2 DEF RetireBegins
      <4>6. /\ r \in VersionRow /\ r.status = "retired" /\ r.states = states /\ r.no = was.no /\ r.seen = was.seen
            /\ r.policy = was.policy /\ r.by = by
        <5>1. by \in Nat /\ states \in AllStates
          BY <1>1, <4>4 DEF AllStates
        <5> QED
          BY <2>2, <2>3, <5>1 DEF VersionRow
      <4> HIDE DEF r
      <4>7. RowLives(r)
        BY <2>2, <2>3, <4>4, <4>6 DEF RowLives
      <4>8. RowRetired(v, r)
        BY <4>1, <4>6 DEF RowRetired, RetireBegins, MayRetire
      <4> QED
        BY <4>5, <4>6, <4>7, <4>8
    <3> QED
      BY <2>1, <3>1, <3>2
  <2>5. CopyLives([op |-> "write", at |-> v, row |-> r])
    BY <2>3, <2>4 DEF CopyLives
  <2> QED
    BY <2>2, <2>4, <2>5, CopyMoves
<1> QED
  BY <1>2, <1>3, <1>4, <1>5, <1>6 DEF TargetNext

LEMMA TargetsStay == TargetInv /\ UNCHANGED targetVars => TargetInv'
BY CopyMoves DEF targetVars

-----------------------------------------------------------------------------
(* Packages. What is shut is no longer available on the shelf, and each    *)
(* link that was issued, or is about to be, ends with its package.         *)
LinkKeys(p) == {k \in HandKeys : handKey[k].command = "link" /\ handKey[k].about.package = p}
LinkFits(link) == link.package \in DOMAIN exported /\ link.until \in Int /\ link.until <= Ends(link.package)
FetchFits(c) ==
    /\ c.at \in {"idle", "mark", "link"}
    /\ c.at = "mark" => c.package \in DOMAIN exported
    /\ c.at = "link" => c.key \in HandKeys /\ LinkFits(c.link)
Shelved == [status : {"none", "available", "expired", "revoked"}, count : Nat]

PackInv ==
    /\ exported \in Seq(Exports) /\ Len(exported) <= MaxExports
    /\ shelf \in [Packages -> Shelved]
    /\ everShut \subseteq Packages /\ \A p \in everShut : shelf[p].status \in {"expired", "revoked"}
    /\ \A link \in links : LinkFits(link)
    /\ DOMAIN fetching = Fetchers /\ \A f \in Fetchers : FetchFits(fetching[f])
    /\ lastOpened # NotOpened =>
          /\ lastOpened.package \in DOMAIN exported /\ lastOpened.package \notin lastOpened.shut
          /\ lastOpened.at < lastOpened.until /\ lastOpened.until <= Ends(lastOpened.package)
    /\ DOMAIN handKey = HandKeys
    /\ \A p \in Packages : shelf[p].count = Cardinality(LinkKeys(p))

LEMMA PackStart == HandInit => PackInv
<1> SUFFICES ASSUME HandInit PROVE PackInv
  OBVIOUS
<1>1. \A p \in Packages : LinkKeys(p) = {}
  BY DEF HandInit, LinkKeys, NoCommand
<1>2. exported = <<>> /\ Len(exported) = 0 /\ exported \in Seq(Exports)
  BY DEF HandInit
<1>3. \A p \in Packages : shelf[p].count = Cardinality(LinkKeys(p))
  BY <1>1, FS_EmptySet DEF HandInit
<1> QED
  BY <1>2, <1>3, HandBounds DEF HandInit, PackInv, Shelved, FetchFits, Fetched, NotOpened, Packages

LEMMA PackTold == PackInv => StaysShut
<1> SUFFICES ASSUME PackInv PROVE StaysShut
  OBVIOUS
<1>1. DOMAIN exported \subseteq Packages
  <2>1. DOMAIN exported = 1 .. Len(exported) /\ Len(exported) \in Nat
    BY DEF PackInv
  <2> QED
    BY <2>1, HandBounds DEF PackInv, Packages
<1> QED
  BY <1>1 DEF StaysShut, PackInv, LinkKeys

(* The packages made so far are on the shelf.                              *)
LEMMA ExportsShelved == PackInv => DOMAIN exported \subseteq Packages
<1>1. PackInv => DOMAIN exported = 1 .. Len(exported) /\ Len(exported) \in Nat
  BY DEF PackInv
<1> QED
  BY <1>1, HandBounds DEF PackInv, Packages

(* A key that is used for no link counts for none.                         *)
LEMMA LinkKeysStay ==
    ASSUME DOMAIN handKey = HandKeys, NEW k, NEW command, NEW about,
           handKey' = handKey \/ (command # "link" /\ Remember(k, command, about))
    PROVE  DOMAIN handKey' = HandKeys /\ \A p : LinkKeys(p)' = LinkKeys(p)
BY DEF Remember, LinkKeys, NoCommand

(* The shelf and the calls change while what is exported, opened and       *)
(* linked stays.                                                           *)
LEMMA ShelfChanges ==
    ASSUME PackInv, UNCHANGED <<exported, links, lastOpened>>,
           DOMAIN handKey' = HandKeys, \A p \in Packages : LinkKeys(p)' = LinkKeys(p),
           shelf' \in [Packages -> Shelved], \A p \in Packages : shelf'[p].count = shelf[p].count,
           everShut' \subseteq Packages, \A p \in everShut' : shelf'[p].status \in {"expired", "revoked"},
           DOMAIN fetching' = Fetchers, \A f \in Fetchers : FetchFits(fetching'[f])
    PROVE  PackInv'
<1>1. \A f \in Fetchers : FetchFits(fetching[f])'
  BY DEF FetchFits, LinkFits, Ends
<1>2. \A link \in links' : LinkFits(link)'
  BY DEF PackInv, LinkFits, Ends
<1>3. \A p \in Packages : shelf'[p].count = Cardinality(LinkKeys(p)')
  BY DEF PackInv
<1> QED
  BY <1>1, <1>2, <1>3 DEF PackInv, Ends

LEMMA PackagesGo == ASSUME PackInv, PackageNext PROVE PackInv'
<1>1. DOMAIN exported \subseteq Packages /\ DOMAIN handKey = HandKeys /\ shelf \in [Packages -> Shelved]
      /\ everShut \subseteq Packages /\ DOMAIN fetching = Fetchers
      /\ (\A f \in Fetchers : FetchFits(fetching[f]))
      /\ (\A p \in everShut : shelf[p].status \in {"expired", "revoked"})
      /\ (\A p \in Packages : shelf[p].count \in Nat)
      /\ FetchFits(Fetched)
  BY ExportsShelved DEF PackInv, Shelved, FetchFits, Fetched
<1>2. CASE \E k \in HandKeys, wanted \in Exports : Export(k, wanted)
  <2>1. PICK k \in HandKeys, wanted \in Exports : Export(k, wanted)
    BY <1>2
  <2>2. /\ exported' = Append(exported, wanted) /\ Len(exported) < MaxExports
        /\ UNCHANGED <<shelf, fetching, links, lastOpened, everShut>>
        /\ DOMAIN handKey' = HandKeys /\ \A p : LinkKeys(p)' = LinkKeys(p)
    BY <1>1, <2>1, LinkKeysStay DEF Export
  <2>3. /\ exported' \in Seq(Exports) /\ Len(exported') = Len(exported) + 1 /\ Len(exported) \in Nat
        /\ \A n \in DOMAIN exported : n \in DOMAIN exported' /\ exported'[n] = exported[n]
    BY <2>2 DEF PackInv
  <2>4. \A link : LinkFits(link) => LinkFits(link)'
    BY <2>3 DEF LinkFits, Ends
  <2>5. \A f \in Fetchers : FetchFits(fetching[f])'
    BY <1>1, <2>2, <2>3, <2>4 DEF FetchFits
  <2>6. \A p \in Packages : shelf'[p].count = Cardinality(LinkKeys(p)')
    BY <2>2 DEF PackInv
  <2>7. lastOpened # NotOpened => lastOpened.package \in DOMAIN exported' /\ Ends(lastOpened.package)' = Ends(lastOpened.package)
    BY <2>2, <2>3 DEF PackInv, Ends
  <2>8. Len(exported') <= MaxExports
    BY <2>2, <2>3, HandBounds
  <2> QED
    BY <1>1, <2>2, <2>3, <2>4, <2>5, <2>6, <2>7, <2>8 DEF PackInv
<1>3. CASE \E p \in DOMAIN exported : StoreRefuses(p) \/ \E k \in HandKeys : RegisterPackage(k, p)
  <2>1. PICK p \in DOMAIN exported : StoreRefuses(p) \/ \E k \in HandKeys : RegisterPackage(k, p)
    BY <1>3
  <2>2. /\ UNCHANGED <<exported, links, lastOpened, everShut, fetching>>
        /\ \/ shelf' = shelf
           \/ shelf[p].status = "none" /\ shelf' = [shelf EXCEPT ![p].status = "available"]
    BY <2>1 DEF StoreRefuses, RegisterPackage
  <2>3. DOMAIN handKey' = HandKeys /\ \A q : LinkKeys(q)' = LinkKeys(q)
    <3>1. CASE StoreRefuses(p)
      BY <1>1, <3>1, LinkKeysStay DEF StoreRefuses
    <3>2. CASE \E k \in HandKeys : RegisterPackage(k, p)
      BY <1>1, <3>2, LinkKeysStay DEF RegisterPackage
    <3> QED
      BY <2>1, <3>1, <3>2
  <2>4. shelf' \in [Packages -> Shelved] /\ \A q \in Packages : shelf'[q].count = shelf[q].count
    BY <1>1, <2>2 DEF Shelved
  <2>5. \A q \in everShut : shelf'[q].status \in {"expired", "revoked"}
    BY <1>1, <2>2
  <2> QED
    BY <1>1, <2>2, <2>3, <2>4, <2>5, ShelfChanges
<1>4. CASE \E p \in DOMAIN exported, k \in HandKeys : RevokePackage(k, p) \/ \E now \in HandMoments : ExpirePackage(k, p, now)
  <2>1. PICK p \in DOMAIN exported, k \in HandKeys : RevokePackage(k, p) \/ \E now \in HandMoments : ExpirePackage(k, p, now)
    BY <1>4
  <2>2. PICK status \in {"expired", "revoked"} : shelf' = [shelf EXCEPT ![p].status = status]
    <3>1. CASE RevokePackage(k, p)
      BY <3>1 DEF RevokePackage
    <3>2. CASE \E now \in HandMoments : ExpirePackage(k, p, now)
      BY <1>1, <2>1, <3>2 DEF ExpirePackage, Shelved
    <3> QED
      BY <2>1, <3>1, <3>2
  <2>3. UNCHANGED <<exported, links, lastOpened, fetching>> /\ everShut' = everShut \cup {p}
    BY <2>1 DEF RevokePackage, ExpirePackage
  <2>4. DOMAIN handKey' = HandKeys /\ \A q : LinkKeys(q)' = LinkKeys(q)
    <3>1. CASE RevokePackage(k, p)
      BY <1>1, <3>1, LinkKeysStay DEF RevokePackage
    <3>2. CASE \E now \in HandMoments : ExpirePackage(k, p, now)
      BY <1>1, <3>2, LinkKeysStay DEF ExpirePackage
    <3> QED
      BY <2>1, <3>1, <3>2
  <2>5. shelf' \in [Packages -> Shelved] /\ \A q \in Packages : shelf'[q].count = shelf[q].count
    BY <1>1, <2>2 DEF Shelved
  <2>6. everShut' \subseteq Packages /\ \A q \in everShut' : shelf'[q].status \in {"expired", "revoked"}
    BY <1>1, <2>1, <2>2, <2>3
  <2> QED
    BY <1>1, <2>3, <2>4, <2>5, <2>6, ShelfChanges
<1>5. CASE \E p \in DOMAIN exported, now \in HandMoments, f \in Fetchers :
              FindsExpired(f, p, now) \/ \E k \in HandKeys : AsksLink(f, k, p, now)
  <2>1. PICK p \in DOMAIN exported, now \in HandMoments, f \in Fetchers :
              FindsExpired(f, p, now) \/ \E k \in HandKeys : AsksLink(f, k, p, now)
    BY <1>5
  <2>2. UNCHANGED <<exported, shelf, links, lastOpened, everShut, handKey>>
    BY <2>1 DEF FindsExpired, AsksLink
  <2>3. PICK c : fetching' = [fetching EXCEPT ![f] = c] /\ FetchFits(c)
    <3>1. CASE FindsExpired(f, p, now)
      <4> DEFINE c == [at |-> "mark", package |-> p]
      <4>1. fetching' = [fetching EXCEPT ![f] = c]
        BY <3>1 DEF FindsExpired
      <4>2. FetchFits(c)
        BY DEF FetchFits
      <4> QED
        BY <4>1, <4>2
    <3>2. CASE \E k \in HandKeys : AsksLink(f, k, p, now)
      <4>1. PICK k \in HandKeys : AsksLink(f, k, p, now)
        BY <3>2
      <4> DEFINE end == IF now + Ttl < Ends(p) THEN now + Ttl ELSE Ends(p)
                 link == [package |-> p, issued |-> now, until |-> end]
                 c == [at |-> "link", key |-> k, link |-> link]
      <4>2. fetching' = [fetching EXCEPT ![f] = c]
        BY <4>1 DEF AsksLink
      <4>3. Ends(p) \in Int /\ now \in Int
        BY HandBounds DEF PackInv, Ends, HandMoments
      <4>4. end \in Int /\ end <= Ends(p)
        BY <4>3, HandBounds
      <4>5. LinkFits(link)
        <5> HIDE DEF end
        <5> QED
          BY <4>4 DEF LinkFits
      <4>6. FetchFits(c)
        <5> HIDE DEF link
        <5> QED
          BY <4>5 DEF FetchFits
      <4> QED
        BY <4>2, <4>6
    <3> QED
      BY <2>1, <3>1, <3>2
  <2>4. DOMAIN fetching' = Fetchers /\ \A g \in Fetchers : FetchFits(fetching'[g])
    BY <1>1, <2>3
  <2>5. \A q \in Packages : LinkKeys(q)' = LinkKeys(q)
    BY <2>2 DEF LinkKeys
  <2> QED
    BY <1>1, <2>2, <2>4, <2>5, ShelfChanges
<1>6. CASE (\E p \in DOMAIN exported, now \in HandMoments : ReadFile(p, now))
           \/ \E link \in links, now \in HandMoments : VerifyLink(link, now)
  <2>1. PICK p, now, end : /\ p \in DOMAIN exported /\ end \in Int /\ end <= Ends(p) /\ now \in HandMoments
                           /\ Opened(p, now, end)
    <3>1. CASE \E p \in DOMAIN exported, now \in HandMoments : ReadFile(p, now)
      <4>1. \A p \in DOMAIN exported : Ends(p) \in Int /\ Ends(p) <= Ends(p)
        BY HandBounds DEF PackInv, Ends
      <4> QED
        BY <3>1, <4>1 DEF ReadFile
    <3>2. CASE \E link \in links, now \in HandMoments : VerifyLink(link, now)
      BY <3>2 DEF VerifyLink, PackInv, LinkFits
    <3> QED
      BY <1>6, <3>1, <3>2
  <2>2. /\ shelf[p].status = "available" /\ now < end
        /\ lastOpened' = [package |-> p, at |-> now, until |-> end, shut |-> everShut]
        /\ UNCHANGED <<exported, shelf, fetching, links, everShut, handKey>>
    BY <2>1 DEF Opened, Opens
  <2>3. p \notin everShut
    BY <1>1, <2>2
  <2>4. /\ lastOpened'.package = p /\ lastOpened'.at = now /\ lastOpened'.until = end /\ lastOpened'.shut = everShut
    BY <2>2
  <2>5. \A q \in Packages : shelf'[q].count = Cardinality(LinkKeys(q)')
    BY <2>2 DEF PackInv, LinkKeys
  <2>6. (\A f \in Fetchers : FetchFits(fetching[f])') /\ \A link \in links' : LinkFits(link)'
    BY <1>1, <2>2 DEF FetchFits, LinkFits, Ends, PackInv
  <2> QED
    BY <1>1, <2>1, <2>2, <2>3, <2>4, <2>5, <2>6 DEF PackInv, Ends
<1>7. CASE \E f \in Fetchers : MarksExpired(f)
  <2>1. PICK f \in Fetchers : MarksExpired(f)
    BY <1>7
  <2>2. PICK p : p = fetching[f].package
    OBVIOUS
  <2>3. /\ p \in DOMAIN exported /\ shelf' = [shelf EXCEPT ![p].status = "expired"] /\ everShut' = everShut \cup {p}
        /\ fetching' = [fetching EXCEPT ![f] = Fetched] /\ UNCHANGED <<exported, links, lastOpened, handKey>>
    BY <1>1, <2>1, <2>2 DEF MarksExpired, FetchFits
  <2>4. shelf' \in [Packages -> Shelved] /\ \A q \in Packages : shelf'[q].count = shelf[q].count
    BY <1>1, <2>3 DEF Shelved
  <2>5. everShut' \subseteq Packages /\ \A q \in everShut' : shelf'[q].status \in {"expired", "revoked"}
    BY <1>1, <2>3
  <2>6. DOMAIN fetching' = Fetchers /\ \A g \in Fetchers : FetchFits(fetching'[g])
    BY <1>1, <2>3
  <2>7. \A q \in Packages : LinkKeys(q)' = LinkKeys(q)
    BY <2>3 DEF LinkKeys
  <2> QED
    BY <1>1, <2>3, <2>4, <2>5, <2>6, <2>7, ShelfChanges
<1>8. CASE \E f \in Fetchers : IssuesLink(f)
  <2>1. PICK f \in Fetchers : IssuesLink(f)
    BY <1>8
  <2>2. PICK k : k = fetching[f].key
    OBVIOUS
  <2>3. PICK link : link = fetching[f].link
    OBVIOUS
  <2>4. /\ k \in HandKeys /\ LinkFits(link) /\ fetching' = [fetching EXCEPT ![f] = Fetched]
        /\ UNCHANGED <<exported, lastOpened, everShut>>
    BY <1>1, <2>1, <2>2, <2>3 DEF IssuesLink, FetchFits
  <2>5. DOMAIN fetching' = Fetchers /\ \A g \in Fetchers : FetchFits(fetching'[g])
    BY <1>1, <2>4
  <2>6. CASE UNCHANGED <<shelf, links, handKey>>
    <3>1. \A q \in Packages : LinkKeys(q)' = LinkKeys(q)
      BY <2>6 DEF LinkKeys
    <3> QED
      BY <1>1, <2>4, <2>5, <2>6, <3>1, ShelfChanges
  <2>7. CASE /\ handKey[k] = NoCommand
             /\ shelf' = [shelf EXCEPT ![link.package].count = @ + 1]
             /\ links' = links \cup {link}
             /\ handKey' = [handKey EXCEPT ![k] = [command |-> "link", about |-> link]]
    <3>1. PICK p : p = link.package
      OBVIOUS
    <3>2. p \in Packages /\ p \in DOMAIN exported
      BY <1>1, <2>4, <3>1 DEF LinkFits
    <3>3. k \notin LinkKeys(p) /\ LinkKeys(p)' = LinkKeys(p) \cup {k}
      BY <1>1, <2>4, <2>7, <3>1 DEF LinkKeys, NoCommand
    <3>4. \A q \in Packages \ {p} : LinkKeys(q)' = LinkKeys(q)
      BY <1>1, <2>4, <2>7, <3>1 DEF LinkKeys, NoCommand
    <3>5. IsFiniteSet(LinkKeys(p))
      BY HandBounds, FS_Subset DEF LinkKeys
    <3>6. Cardinality(LinkKeys(p)') = Cardinality(LinkKeys(p)) + 1
      BY <3>3, <3>5, FS_AddElement
    <3>7. /\ shelf' \in [Packages -> Shelved] /\ shelf'[p].count = shelf[p].count + 1
          /\ (\A q \in Packages \ {p} : shelf'[q].count = shelf[q].count)
          /\ \A q \in Packages : shelf'[q].status = shelf[q].status
      BY <1>1, <2>7, <3>1, <3>2 DEF Shelved
    <3>8. \A q \in Packages : shelf'[q].count = Cardinality(LinkKeys(q)')
      BY <3>4, <3>6, <3>7 DEF PackInv
    <3>9. (\A l \in links' : LinkFits(l)') /\ \A g \in Fetchers : FetchFits(fetching[g])'
      BY <2>4, <2>5, <2>7 DEF PackInv, LinkFits, FetchFits, Ends
    <3>10. DOMAIN handKey' = HandKeys
      BY <1>1, <2>7
    <3> QED
      BY <1>1, <2>4, <2>5, <3>7, <3>8, <3>9, <3>10 DEF PackInv, Ends
  <2> QED
    BY <2>1, <2>2, <2>3, <2>6, <2>7 DEF IssuesLink
<1> QED
  BY <1>2, <1>3, <1>4, <1>5, <1>6, <1>7, <1>8 DEF PackageNext

(* What uses a key for something else leaves the packages as they are.     *)
LEMMA PackagesStay ==
    ASSUME PackInv, UNCHANGED packageVars,
           handKey' = handKey \/ \E k, command, about : command # "link" /\ Remember(k, command, about)
    PROVE  PackInv'
<1>1. DOMAIN handKey' = HandKeys /\ \A p : LinkKeys(p)' = LinkKeys(p)
  BY LinkKeysStay DEF PackInv
<1>2. UNCHANGED <<exported, shelf, fetching, links, lastOpened, everShut>>
  BY DEF packageVars
<1> QED
  BY <1>1, <1>2, ShelfChanges DEF PackInv

-----------------------------------------------------------------------------
(* Deliveries. What came to its end cannot be replayed, and what can be    *)
(* replayed was signed and fits.                                           *)
Bodies4 == {d.body : d \in Deliveries}
Signs4 == {d.signed : d \in Deliveries}
Receipts == [status : {"rejected", "received", "dead_letter", "processed"}, body : Bodies4, signed : Signs4,
             attempts : Nat, replays : Nat]
Fitting(e, body) == \E d \in Deliveries : d.event = e /\ d.body = body /\ d.signed /\ d.fits

ReceiptFits(e, r, calls) ==
    /\ r = NoReceipt \/ r \in Receipts
    /\ r = NoReceipt => calls.called = 0 /\ calls.done = 0
    /\ r \in Receipts =>
          /\ calls.done <= 1 /\ calls.called <= r.attempts
          /\ calls.called > 0 => Fitting(e, r.body)
          /\ r.status \in {"received", "dead_letter"} =>
               /\ calls.done = 0 /\ Fitting(e, r.body)
               /\ r.attempts >= MaxHandlings <=> r.status = "dead_letter"

ReceiptInv ==
    /\ DOMAIN receipts = ExternalEvents
    /\ handlings \in [ExternalEvents -> [called : Nat, done : Nat]]
    /\ \A e \in ExternalEvents : ReceiptFits(e, receipts[e], handlings[e])

LEMMA ReceiptsStart == HandInit => ReceiptInv
BY DEF HandInit, PortInit, ReceiptInv, ReceiptFits, NoReceipt, Receipts

LEMMA ReceiptsTold == ReceiptInv => HandledOnce
<1> SUFFICES ASSUME ReceiptInv, NEW e \in ExternalEvents
             PROVE  LET r == receipts[e]
                        calls == handlings[e] IN
                    /\ calls.done <= 1 /\ calls.called <= r.attempts
                    /\ calls.called > 0 => Fitting(e, r.body)
                    /\ r.status \in {"received", "dead_letter"} =>
                         calls.done = 0 /\ (r.attempts >= MaxHandlings <=> r.status = "dead_letter")
  BY DEF HandledOnce, Fitting
<1>1. ReceiptFits(e, receipts[e], handlings[e])
  BY DEF ReceiptInv
<1>2. CASE receipts[e] = NoReceipt
  BY <1>1, <1>2 DEF ReceiptFits, NoReceipt
<1>3. CASE receipts[e] \in Receipts
  BY <1>1, <1>3 DEF ReceiptFits
<1> QED
  BY <1>1, <1>2, <1>3 DEF ReceiptFits

(* A handling of what is signed and fits, and has not come to its end.     *)
LEMMA HandlingFits ==
    ASSUME NEW e, NEW r \in Receipts, NEW handler \in {"none", "returns", "raises"},
           NEW calls \in [called : Nat, done : Nat], NEW later \in [called : Nat, done : Nat],
           calls.done = 0, calls.called <= r.attempts, Fitting(e, r.body),
           later.called = calls.called + (IF handler = "none" THEN 0 ELSE 1),
           later.done = calls.done + (IF handler = "returns" THEN 1 ELSE 0)
    PROVE  ReceiptFits(e, Handled(r, handler), later)
<1>1. PICK status : status = IF handler # "raises" THEN "processed"
                             ELSE IF r.attempts + 1 >= MaxHandlings THEN "dead_letter" ELSE "received"
  OBVIOUS
<1>2. Handled(r, handler) = [r EXCEPT !.attempts = @ + 1, !.status = status]
  BY <1>1 DEF Handled
<1>3. PICK h : h = Handled(r, handler)
  OBVIOUS
<1>4. /\ h \in Receipts /\ h.attempts = r.attempts + 1 /\ h.status = status /\ h.body = r.body
      /\ r.attempts \in Nat
  <2>1. status \in {"rejected", "received", "dead_letter", "processed"} /\ r.attempts \in Nat
    BY <1>1 DEF Receipts
  <2>2. PICK n \in Nat : n = r.attempts + 1
    BY <2>1
  <2>3. h = [r EXCEPT !.attempts = n, !.status = status]
    BY <1>2, <1>3, <2>2
  <2>4. /\ h \in Receipts /\ h.attempts = n /\ h.status = status /\ h.body = r.body
    BY <2>1, <2>3 DEF Receipts
  <2> QED
    BY <2>1, <2>2, <2>4
<1>5. later.done <= 1 /\ later.called <= h.attempts
  BY <1>4
<1>6. status \in {"received", "dead_letter"} => handler = "raises" /\ later.done = 0
  BY <1>1
<1>7. handler = "raises" => (h.attempts >= MaxHandlings <=> status = "dead_letter")
  BY <1>1, <1>4
<1>8. h # NoReceipt
  BY <1>1, <1>4 DEF NoReceipt
<1> QED
  BY <1>3, <1>4, <1>5, <1>6, <1>7, <1>8 DEF ReceiptFits

(* One event has a receipt and handlings of its own.                       *)
LEMMA ReceiptSaved ==
    ASSUME ReceiptInv, NEW e \in ExternalEvents, NEW r, NEW calls \in [called : Nat, done : Nat],
           receipts' = [receipts EXCEPT ![e] = r], handlings' = [handlings EXCEPT ![e] = calls],
           ReceiptFits(e, r, calls)
    PROVE  ReceiptInv'
<1>1. DOMAIN receipts' = ExternalEvents /\ handlings' \in [ExternalEvents -> [called : Nat, done : Nat]]
  BY DEF ReceiptInv
<1>2. \A o \in ExternalEvents : ReceiptFits(o, receipts'[o], handlings'[o])
  BY DEF ReceiptInv
<1> QED
  BY <1>1, <1>2 DEF ReceiptInv, ReceiptFits

(* What a handler called with an event adds.                               *)
LEMMA HandlerCalled ==
    ASSUME ReceiptInv, NEW e \in ExternalEvents, NEW handler \in {"none", "returns", "raises"},
           CallHandler(e, handler)
    PROVE  \E calls \in [called : Nat, done : Nat] :
              /\ handlings' = [handlings EXCEPT ![e] = calls]
              /\ calls.called = handlings[e].called + (IF handler = "none" THEN 0 ELSE 1)
              /\ calls.done = handlings[e].done + (IF handler = "returns" THEN 1 ELSE 0)
<1> DEFINE c == handlings[e].called + (IF handler = "none" THEN 0 ELSE 1)
           d == handlings[e].done + (IF handler = "returns" THEN 1 ELSE 0)
           calls == [called |-> c, done |-> d]
<1>1. handlings[e] \in [called : Nat, done : Nat]
  BY DEF ReceiptInv
<1>2. c \in Nat /\ d \in Nat
  BY <1>1
<1>3. handlings' = [handlings EXCEPT ![e].called = c, ![e].done = d]
  BY DEF CallHandler, ReceiptInv
<1> HIDE DEF c, d
<1>4. [handlings[e] EXCEPT !.called = c, !.done = d] = calls
  <2>1. PICK row : row = handlings[e]
    OBVIOUS
  <2>2. PICK new : new = [row EXCEPT !.called = c, !.done = d]
    OBVIOUS
  <2>3. new \in [called : Nat, done : Nat] /\ new.called = c /\ new.done = d
    BY <1>1, <1>2, <2>1, <2>2
  <2>4. new = calls
    BY <2>3
  <2> QED
    BY <2>1, <2>2, <2>4
<1>5. handlings' = [handlings EXCEPT ![e] = calls]
  BY <1>3, <1>4 DEF ReceiptInv
<1>6. calls \in [called : Nat, done : Nat] /\ calls.called = c /\ calls.done = d
  BY <1>2
<1> QED
  BY <1>5, <1>6 DEF c, d

LEMMA ReceiptsGo == ASSUME ReceiptInv, WebhookNext PROVE ReceiptInv'
<1>1. PICK k \in HandKeys, handler \in {"none", "returns", "raises"} :
          (\E d \in Deliveries : Receive(k, d, handler)) \/ (\E e \in ExternalEvents : Replay(k, e, handler))
  BY DEF WebhookNext
<1>2. CASE \E d \in Deliveries : Receive(k, d, handler)
  <2>1. PICK d \in Deliveries : Receive(k, d, handler)
    BY <1>2
  <2>2. PICK e : e = d.event
    OBVIOUS
  <2> DEFINE fresh == [status |-> "rejected", body |-> d.body, signed |-> SignatureValid(d), attempts |-> 0, replays |-> 0]
  <2>3. e \in ExternalEvents /\ fresh \in Receipts /\ fresh.body = d.body /\ fresh.attempts = 0 /\ fresh.status = "rejected"
    BY <2>2 DEF ExternalEvents, Receipts, Bodies4, Signs4, SignatureValid
  <2>4. CASE receipts[e] # NoReceipt
    BY <2>1, <2>2, <2>4 DEF Receive, ReceiptInv, ReceiptFits
  <2>5. CASE receipts[e] = NoReceipt
    <3>1. handlings[e] \in [called : Nat, done : Nat] /\ handlings[e].called = 0 /\ handlings[e].done = 0
      BY <2>3, <2>5 DEF ReceiptInv, ReceiptFits
    <3>2. CASE SignatureValid(d) /\ d.fits
      <4>1. receipts' = [receipts EXCEPT ![e] = Handled(fresh, handler)] /\ CallHandler(e, handler)
        BY <2>1, <2>2, <2>5, <3>2 DEF Receive, SaveReceipt
      <4>2. PICK calls \in [called : Nat, done : Nat] :
                /\ handlings' = [handlings EXCEPT ![e] = calls]
                /\ calls.called = handlings[e].called + (IF handler = "none" THEN 0 ELSE 1)
                /\ calls.done = handlings[e].done + (IF handler = "returns" THEN 1 ELSE 0)
        BY <2>3, <4>1, HandlerCalled
      <4>3. Fitting(e, fresh.body)
        BY <2>2, <2>3, <3>2 DEF Fitting, SignatureValid
      <4> HIDE DEF fresh
      <4>4. ReceiptFits(e, Handled(fresh, handler), calls)
        BY <2>3, <3>1, <4>2, <4>3, HandlingFits
      <4> QED
        BY <2>3, <4>1, <4>2, <4>4, ReceiptSaved
    <3>3. CASE ~(SignatureValid(d) /\ d.fits)
      <4>1. receipts' = [receipts EXCEPT ![e] = fresh] /\ handlings' = handlings
        BY <2>1, <2>2, <2>5, <3>3 DEF Receive, SaveReceipt
      <4> HIDE DEF fresh
      <4>2. handlings' = [handlings EXCEPT ![e] = handlings[e]]
        BY <4>1 DEF ReceiptInv
      <4>3. ReceiptFits(e, fresh, handlings[e])
        BY <2>3, <3>1 DEF ReceiptFits, NoReceipt
      <4> QED
        BY <2>3, <3>1, <4>1, <4>2, <4>3, ReceiptSaved
    <3> QED
      BY <3>2, <3>3
  <2> QED
    BY <2>4, <2>5
<1>3. CASE \E e \in ExternalEvents : Replay(k, e, handler)
  <2>1. PICK e \in ExternalEvents : Replay(k, e, handler)
    BY <1>3
  <2>2. PICK r : r = [receipts[e] EXCEPT !.replays = @ + 1]
    OBVIOUS
  <2>3. /\ receipts[e].status \in {"received", "dead_letter"}
        /\ receipts' = [receipts EXCEPT ![e] = Handled(r, handler)] /\ CallHandler(e, handler)
    BY <2>1, <2>2 DEF Replay, SaveReceipt
  <2>4. ReceiptFits(e, receipts[e], handlings[e]) /\ handlings[e] \in [called : Nat, done : Nat]
    BY DEF ReceiptInv
  <2>5. receipts[e] \in Receipts
    BY <2>3, <2>4 DEF ReceiptFits, NoReceipt
  <2>6. r \in Receipts /\ r.attempts = receipts[e].attempts /\ r.body = receipts[e].body
    BY <2>2, <2>5 DEF Receipts
  <2>7. handlings[e].done = 0 /\ handlings[e].called <= r.attempts /\ Fitting(e, r.body)
    BY <2>3, <2>4, <2>5, <2>6 DEF ReceiptFits
  <2>8. PICK calls \in [called : Nat, done : Nat] :
            /\ handlings' = [handlings EXCEPT ![e] = calls]
            /\ calls.called = handlings[e].called + (IF handler = "none" THEN 0 ELSE 1)
            /\ calls.done = handlings[e].done + (IF handler = "returns" THEN 1 ELSE 0)
    BY <2>3, HandlerCalled
  <2>9. ReceiptFits(e, Handled(r, handler), calls)
    BY <2>4, <2>6, <2>7, <2>8, HandlingFits
  <2> QED
    BY <2>3, <2>8, <2>9, ReceiptSaved
<1> QED
  BY <1>1, <1>2, <1>3

LEMMA ReceiptsStay == ReceiptInv /\ UNCHANGED <<receipts, handlings>> => ReceiptInv'
BY DEF ReceiptInv, ReceiptFits

-----------------------------------------------------------------------------
(* Matrices. A version once put keeps its fields, of which no two have one *)
(* name.                                                                   *)
MatrixInv ==
    /\ DOMAIN matrices = {m.version : m \in Mappings}
    /\ \A v \in DOMAIN matrices : IsInjective(matrices[v])
    /\ lastMapped # NotMapped => lastMapped.version \in DOMAIN matrices /\ matrices[lastMapped.version] # <<>>
    /\ MappedWhole

LEMMA MatricesStart == HandInit => MatrixInv
BY DEF HandInit, MatrixInv, MappedWhole, IsInjective

LEMMA MatricesGo == ASSUME MatrixInv, MatrixNext PROVE MatrixInv'
<1>1. CASE \E k \in HandKeys, m \in Mappings : RegisterMatrix(k, m)
  <2>1. PICK m \in Mappings : /\ IsInjective(m.fields)
                              /\ matrices[m.version] # <<>> => matrices[m.version] = m.fields
                              /\ matrices' = [matrices EXCEPT ![m.version] = m.fields] /\ lastMapped' = lastMapped
    BY <1>1 DEF RegisterMatrix
  <2>2. \A v \in DOMAIN matrices : v # m.version \/ matrices[v] # <<>> => matrices'[v] = matrices[v]
    BY <2>1 DEF MatrixInv
  <2>3. DOMAIN matrices' = DOMAIN matrices /\ \A v \in DOMAIN matrices' : IsInjective(matrices'[v])
    BY <2>1 DEF MatrixInv
  <2>4. lastMapped # NotMapped => matrices'[lastMapped.version] = matrices[lastMapped.version]
    BY <2>2 DEF MatrixInv
  <2> QED
    BY <2>1, <2>3, <2>4 DEF MatrixInv, MappedWhole
<1>2. CASE \E v \in DOMAIN matrices, payload \in Payloads : MapWith(v, payload)
  <2>1. PICK v \in DOMAIN matrices, payload \in Payloads : MapWith(v, payload)
    BY <1>2
  <2>2. PICK fields : fields = matrices[v]
    OBVIOUS
  <2>3. PICK sent : sent = MapPayload(fields, payload)
    OBVIOUS
  <2>4. /\ fields # <<>> /\ matrices' = matrices
        /\ lastMapped' = [version |-> v, payload |-> payload, sent |-> sent]
    BY <2>1, <2>2, <2>3 DEF MapWith
  <2>5. \A field \in DOMAIN fields : sent[fields[field]] = payload[field]
    <3> SUFFICES ASSUME NEW field \in DOMAIN fields PROVE sent[fields[field]] = payload[field]
      OBVIOUS
    <3>1. fields[field] \in Range(fields)
      BY DEF Range
    <3>2. (CHOOSE f \in DOMAIN fields : fields[f] = fields[field]) = field
      BY <2>2 DEF MatrixInv, IsInjective
    <3> QED
      BY <2>3, <3>1, <3>2 DEF MapPayload
  <2>6. lastMapped'.version = v /\ lastMapped'.payload = payload /\ lastMapped'.sent = sent
    BY <2>4
  <2> QED
    BY <2>2, <2>4, <2>5, <2>6 DEF MatrixInv, MappedWhole
<1> QED
  BY <1>1, <1>2 DEF MatrixNext

LEMMA MatricesStay == MatrixInv /\ UNCHANGED <<matrices, lastMapped>> => MatrixInv'
BY DEF MatrixInv, MappedWhole

(* Each command is one of a package, a delivery or a matrix.               *)
HandInv == PackInv /\ ReceiptInv /\ MatrixInv

LEMMA HandGoes ==
    ASSUME HandInv, PackageNext \/ WebhookNext \/ MatrixNext
    PROVE  HandInv'
<1>1. CASE PackageNext
  <2>1. UNCHANGED <<receipts, handlings, matrices, lastMapped>>
    BY <1>1 DEF PackageNext, Export, StoreRefuses, RegisterPackage, RevokePackage, ReadFile, ExpirePackage, FindsExpired,
                AsksLink, VerifyLink, Opened, MarksExpired, IssuesLink, ingressVars
  <2> QED
    BY <1>1, <2>1, PackagesGo, ReceiptsStay, MatricesStay DEF HandInv
<1>2. CASE WebhookNext
  <2>1. /\ UNCHANGED <<matrices, lastMapped, packageVars>>
        /\ \E k, command, about : command # "link" /\ Remember(k, command, about)
    BY <1>2 DEF WebhookNext, Receive, Replay
  <2> QED
    BY <1>2, <2>1, PackagesStay, ReceiptsGo, MatricesStay DEF HandInv
<1>3. CASE MatrixNext
  <2>1. UNCHANGED <<receipts, handlings, packageVars>>
    BY <1>3 DEF MatrixNext, RegisterMatrix, MapWith
  <2>2. handKey' = handKey \/ \E k, command, about : command # "link" /\ Remember(k, command, about)
    BY <1>3 DEF MatrixNext, RegisterMatrix, MapWith
  <2> QED
    BY <1>3, <2>1, <2>2, PackagesStay, ReceiptsStay, MatricesGo DEF HandInv
<1> QED
  BY <1>1, <1>2, <1>3

LEMMA HandTold == HandInv => StaysShut /\ HandledOnce /\ MappedWhole
BY PackTold, ReceiptsTold DEF HandInv, MatrixInv

LEMMA HandStarts == HandInit => HandInv
BY PackStart, ReceiptsStart, MatricesStart DEF HandInv

LEMMA HandStays == HandInv /\ UNCHANGED handVars => HandInv'
BY PackagesStay, ReceiptsStay, MatricesStay DEF HandInv, handVars, packageVars, ingressVars

=============================================================================

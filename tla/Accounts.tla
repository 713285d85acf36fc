------------------------------ MODULE Accounts ------------------------------
(***************************************************************************)
(* Account connections (modules/distribution/account/service.py): what     *)
(* authorization evidence is attached, what a health check finds, and the  *)
(* target versions bound to a connection.  A command reads the connection  *)
(* before it takes the lock, and a health check takes none, so either may  *)
(* write back over what another one decided.                               *)
(*                                                                         *)
(* Left out: profiles and their targets, scopes, the token reference, the  *)
(* keys of commands (a repeated one changes nothing), and                  *)
(* guard_delivery_phase, which asks for the stored status and then the     *)
(* kill switches.                                                          *)
(***************************************************************************)
EXTENDS Naturals, Sequences

CONSTANTS
    Connections,    \* external accounts
    Consent,        \* the kind of evidence that grants authorization
    Required,       \* the kinds an environment asks for
    Offered,        \* evidence that may be attached, [kind, status, ends]
    Outcomes,       \* what a health check may hear, [provider, expires]
    Attachers,      \* threads that attach evidence
    Checkers,       \* threads that check health
    LastAccountDay, \* bound: days
    MaxProofs       \* bound: evidence per connection

ASSUME AccountBounds ==
    /\ Consent \in Required /\ LastAccountDay \in Nat
    /\ \A offer \in Offered : offer.ends \in Nat

VARIABLES
    accountDay, \* the day a command is given
    conn,       \* connection -> its row, or NoConn
    proofs,     \* connection -> evidence in the order it was attached
    reader,     \* worker -> the command it is in
    informed,      \* history: how much of its evidence the last write of a row knew
    bound       \* target versions made, [conn, day, known]

accountVars == <<accountDay, conn, proofs, reader, informed, bound>>

NoConn == [status |-> "absent", auth |-> "unknown", health |-> "unknown", expires |-> 0, day |-> 0]
Shell == [status |-> "pending", auth |-> "unknown", health |-> "unknown", expires |-> LastAccountDay + 1, day |-> 0]
NotReading == [op |-> "none"]

AccountInit ==
    /\ accountDay = 0
    /\ conn = [c \in Connections |-> NoConn]
    /\ proofs = [c \in Connections |-> <<>>]
    /\ reader = [w \in Attachers \cup Checkers |-> NotReading]
    /\ informed = [c \in Connections |-> 0]
    /\ bound = {}

(* A connection is pending until evidence is attached.                     *)
CreateConnection(c) ==
    /\ conn[c] = NoConn
    /\ conn' = [conn EXCEPT ![c] = [Shell EXCEPT !.day = accountDay]]
    /\ UNCHANGED <<accountDay, proofs, reader, informed, bound>>

KindsIn(ps) == {ps[n].kind : n \in DOMAIN ps}

(* The latest of a kind by the day it was captured, and of one day the one *)
(* attached last.                                                          *)
LatestOf(ps, kind) ==
    CHOOSE p \in {ps[n] : n \in DOMAIN ps} :
        \E n \in DOMAIN ps :
            /\ ps[n] = p /\ p.kind = kind
            /\ \A k \in DOMAIN ps : ps[k].kind = kind => ps[k].day < p.day \/ (ps[k].day = p.day /\ k <= n)

CurrentKinds(ps, day) ==
    {kind \in KindsIn(ps) :
        LET p == LatestOf(ps, kind) IN p.status = "verified" /\ p.day <= day /\ p.ends > day}

EvidenceFails(r, ps, day) ==
    \/ \E kind \in Required \cap KindsIn(ps) :
           LET p == LatestOf(ps, kind)
           IN  \/ p.status \in {"revoked", "expired"}
               \/ p.status = "verified" /\ p.ends <= day
               \/ p.day > day
    \/ r.status = "connected" /\ ~(Required \subseteq CurrentKinds(ps, day))

AuthAfter(r, ps, day) ==
    IF Consent \notin KindsIn(ps) THEN r.auth
    ELSE LET p == LatestOf(ps, Consent)
         IN  IF p.status = "revoked" THEN "revoked"
             ELSE IF p.status = "expired" \/ p.ends <= day THEN "expired"
             ELSE IF p.status = "verified" /\ p.day <= day THEN "authorized"
             ELSE r.auth

(* What attached evidence makes of a connection.  The token's end and what *)
(* the last health check found are not looked at.                          *)
Refreshed(r, ps, day) ==
    LET auth == AuthAfter(r, ps, day)
        ready == Required \subseteq CurrentKinds(ps, day) /\ auth = "authorized"
        row(status, health) == [r EXCEPT !.status = status, !.auth = auth, !.health = health, !.day = day]
    IN  IF auth = "revoked" THEN row("revoked", "restricted")
        ELSE IF EvidenceFails(r, ps, day) \/ auth = "expired" THEN row("restricted", "restricted")
        ELSE IF ready THEN row("connected", "healthy")
        ELSE row("pending", "unknown")

(* What a health check makes of it; "poor" stands for a provider in        *)
(* trouble, an absent owner and a changed policy.                          *)
Checked(r, ps, day, provider, expires) ==
    LET restricted ==
            \/ r.auth \in {"expired", "revoked"} \/ expires <= day
            \/ EvidenceFails(r, ps, day) \/ provider = "poor"
        ready == r.auth = "authorized" /\ Required \subseteq CurrentKinds(ps, day)
    IN  [r EXCEPT !.status = IF r.auth = "revoked" THEN "revoked" ELSE IF restricted THEN "restricted"
                             ELSE IF ready THEN "connected" ELSE "pending",
                  !.health = IF restricted THEN "restricted" ELSE provider,
                  !.expires = expires, !.day = day]

AttachReads(w, c, offer) ==
    /\ reader[w] = NotReading /\ conn[c] # NoConn
    /\ reader' = [reader EXCEPT ![w] =
           [op |-> "attach", conn |-> c, row |-> conn[c],
            proof |-> [kind |-> offer.kind, status |-> offer.status, ends |-> offer.ends, day |-> accountDay]]]
    /\ UNCHANGED <<accountDay, conn, proofs, informed, bound>>

(* The lock is taken: the evidence is all there is, the connection is the  *)
(* copy read before.                                                       *)
AttachWrites(w) ==
    LET r == reader[w]
        c == r.conn
    IN  /\ r.op = "attach" /\ Len(proofs[c]) < MaxProofs
        /\ proofs' = [proofs EXCEPT ![c] = Append(@, r.proof)]
        /\ conn' = [conn EXCEPT ![c] = Refreshed(r.row, proofs'[c], r.proof.day)]
        /\ informed' = [informed EXCEPT ![c] = Len(proofs'[c])]
        /\ reader' = [reader EXCEPT ![w] = NotReading]
        /\ UNCHANGED <<accountDay, bound>>

HealthReads(w, c, provider, expires) ==
    /\ reader[w] = NotReading /\ conn[c] # NoConn
    /\ reader' = [reader EXCEPT ![w] =
           [op |-> "health", conn |-> c, known |-> Len(proofs[c]),
            row |-> Checked(conn[c], proofs[c], accountDay, provider, expires)]]
    /\ UNCHANGED <<accountDay, conn, proofs, informed, bound>>

HealthWrites(w) ==
    LET r == reader[w]
    IN  /\ r.op = "health"
        /\ conn' = [conn EXCEPT ![r.conn] = r.row]
        /\ informed' = [informed EXCEPT ![r.conn] = r.known]
        /\ reader' = [reader EXCEPT ![w] = NotReading]
        /\ UNCHANGED <<accountDay, proofs, bound>>

(* account_passport() asks for the evidence of the day, whatever status    *)
(* was stored.                                                             *)
PassportReady(c) ==
    /\ Required \subseteq CurrentKinds(proofs[c], accountDay)
    /\ conn[c].status = "connected" /\ conn[c].auth = "authorized" /\ conn[c].health # "restricted"

BindTarget(c) ==
    /\ PassportReady(c)
    /\ bound' = bound \cup {[conn |-> c, day |-> accountDay, known |-> Len(proofs[c])]}
    /\ UNCHANGED <<accountDay, conn, proofs, reader, informed>>

NextAccountDay ==
    /\ accountDay < LastAccountDay
    /\ accountDay' = accountDay + 1
    /\ UNCHANGED <<conn, proofs, reader, informed, bound>>

AccountNext ==
    \/ \E c \in Connections : CreateConnection(c) \/ BindTarget(c)
    \/ \E w \in Attachers : AttachWrites(w) \/ \E c \in Connections, offer \in Offered : AttachReads(w, c, offer)
    \/ \E w \in Checkers :
        HealthWrites(w) \/ \E c \in Connections, o \in Outcomes : HealthReads(w, c, o.provider, o.expires)
    \/ NextAccountDay

-----------------------------------------------------------------------------
AccountTypeOK ==
    /\ accountDay \in 0 .. LastAccountDay
    /\ \A c \in Connections :
        /\ conn[c].status \in {"absent", "pending", "connected", "restricted", "revoked"}
        /\ conn[c].auth \in {"unknown", "authorized", "expired", "revoked"}
        /\ conn[c].health \in {"unknown", "healthy", "restricted"}
        /\ Len(proofs[c]) <= MaxProofs
    /\ \A w \in Attachers \cup Checkers : reader[w].op \in {"none", "attach", "health"}

(* Among the first m there is, for every kind that is needed, evidence     *)
(* good that day which nothing later of its kind supersedes.               *)
Backed(ps, m, day) ==
    \A kind \in Required : \E n \in 1 .. m :
        /\ ps[n].kind = kind /\ ps[n].status = "verified" /\ ps[n].day <= day /\ ps[n].ends > day
        /\ \A k \in n + 1 .. m : ps[k].kind = kind => ps[k].day < ps[n].day

(* A connection that is said to be connected was backed, on the day that   *)
(* was decided, by all the evidence the command knew that said so; a row   *)
(* that was written from an old copy, or by a health check that evidence   *)
(* overtook, is no exception.                                              *)
ConnectedBacked ==
    \A c \in Connections : conn[c].status = "connected" => Backed(proofs[c], informed[c], conn[c].day)

(* What such a check leaves, a row that says connected although its        *)
(* consent was revoked meanwhile, is never used: a target version is bound *)
(* to a connection only while all evidence there is by then, also what the *)
(* row does not know, backs it that day.                                   *)
BoundBacked ==
    \A b \in bound : Backed(proofs[b.conn], b.known, b.day)

-----------------------------------------------------------------------------
(***************************************************************************)
(* Distribution targets and their versions (create_target to               *)
(* retire_target_version of modules/distribution/service.py).  Each        *)
(* command reads what it checks before it takes the lock and writes back   *)
(* the copy it read, so a version retired in between may be activated      *)
(* again, and two versions may be given one number.                        *)
(*                                                                         *)
(* Left out: the fields a version copies from its target, delivery modes,  *)
(* etags beyond telling apart the states of a version, and the keys of     *)
(* commands, whose digest holds the time of the call.                      *)
(***************************************************************************)

CONSTANTS
    TargetWorkers,     \* threads inside a command
    MaxTargetVersions  \* bound: versions made

ASSUME TargetBounds == MaxTargetVersions \in Nat \ {0}

VARIABLES
    target,   \* status of the target
    tversion, \* versions in the order they were stored,
              \* [no, status, policy, states, by, seen]
    copied    \* worker -> the command it is in

targetVars == <<target, tversion, copied>>

NoCopy == [op |-> "none"]

TargetInit ==
    /\ target = "active" /\ tversion = <<>>
    /\ copied = [w \in TargetWorkers |-> NoCopy]

NumbersOf(versions) == {versions[v].no : v \in DOMAIN versions}

NextNumber(versions) ==
    CHOOSE n \in 1 .. Len(versions) + 1 : n - 1 \in NumbersOf(versions) \cup {0} /\ \A k \in NumbersOf(versions) : k < n

(* create_target_version() up to its lock.                                 *)
VersionBegins(w, status, policy) ==
    /\ copied[w] = NoCopy /\ target # "retired"
    /\ status = "active" => policy
    /\ Len(tversion) < MaxTargetVersions
    /\ copied' = [copied EXCEPT ![w] =
           [op |-> "create",
            row |-> [no |-> NextNumber(tversion), status |-> status, policy |-> policy, states |-> <<status>>,
                     by |-> 0, seen |-> Len(tversion)]]]
    /\ UNCHANGED <<target, tversion>>

VersionStored(w) ==
    /\ copied[w].op = "create" /\ Len(tversion) < MaxTargetVersions
    /\ tversion' = Append(tversion, copied[w].row)
    /\ copied' = [copied EXCEPT ![w] = NoCopy]
    /\ UNCHANGED target

(* The etag a caller names is that of the version it reads; a version that *)
(* changed since is not noticed.                                           *)
ActivateBegins(w, v) ==
    /\ copied[w] = NoCopy
    /\ tversion[v].status = "draft" /\ tversion[v].policy
    /\ copied' = [copied EXCEPT ![w] =
           [op |-> "write", at |-> v,
            row |-> [tversion[v] EXCEPT !.status = "active", !.states = Append(@, "active")]]]
    /\ UNCHANGED <<target, tversion>>

(* A replacement may be any other version of the target; without one the   *)
(* target must be retired.                                                 *)
MayRetire(v, by) == IF by = 0 THEN target = "retired" ELSE by \in DOMAIN tversion \ {v}

RetireBegins(w, v, by) ==
    /\ copied[w] = NoCopy
    /\ MayRetire(v, by) /\ tversion[v].status # "retired"
    /\ copied' = [copied EXCEPT ![w] =
           [op |-> "write", at |-> v,
            row |-> [tversion[v] EXCEPT !.status = "retired", !.states = Append(@, "retired"), !.by = by]]]
    /\ UNCHANGED <<target, tversion>>

Written(w) ==
    /\ copied[w].op = "write"
    /\ tversion' = [tversion EXCEPT ![copied[w].at] = copied[w].row]
    /\ copied' = [copied EXCEPT ![w] = NoCopy]
    /\ UNCHANGED target

RetireTarget ==
    /\ target # "retired"
    /\ target' = "retired"
    /\ UNCHANGED <<tversion, copied>>

TargetNext ==
    \/ RetireTarget
    \/ \E w \in TargetWorkers :
        \/ \E status \in {"draft", "active"}, policy \in BOOLEAN : VersionBegins(w, status, policy)
        \/ VersionStored(w) \/ Written(w)
        \/ \E v \in DOMAIN tversion :
            ActivateBegins(w, v) \/ \E by \in 0 .. Len(tversion) : RetireBegins(w, v, by)

-----------------------------------------------------------------------------
TargetTypeOK ==
    /\ target \in {"active", "retired"}
    /\ \A v \in DOMAIN tversion :
        /\ tversion[v].no \in 1 .. MaxTargetVersions
        /\ tversion[v].status \in {"draft", "active", "retired"}
        /\ tversion[v].by \in 0 .. MaxTargetVersions

(* A version begun after another was stored has the higher number; only    *)
(* commands that overlap may give one number twice.                        *)
NumbersFollow ==
    \A a, b \in DOMAIN tversion : a <= tversion[b].seen => tversion[a].no < tversion[b].no

(* A version is retired for another of its target, or with its target; one *)
(* in force has a policy; and whatever overlapped, a version has gone      *)
(* through the states its status says, in order.                           *)
LifecycleKept ==
    \A v \in DOMAIN tversion :
        LET t == tversion[v]
        IN  /\ t.status = "retired" => IF t.by = 0 THEN target = "retired" ELSE t.by # v /\ t.by \in DOMAIN tversion
            /\ t.status = "active" => t.policy
            /\ t.states \in {<<"draft">>, <<"active">>, <<"draft", "active">>, <<"active", "retired">>,
                             <<"draft", "retired">>, <<"draft", "active", "retired">>}
=============================================================================

------------------------------ MODULE Provenance ------------------------------
(***************************************************************************)
(* One source, its snapshots, the versions of its rights record and what   *)
(* was derived under them (modules/provenance/source.py, rights.py and     *)
(* guard.py). A command is one SQLite transaction; the two that use more,  *)
(* freeze_complaint() and expire_due(), are cut where they commit.         *)
(*                                                                         *)
(* Left out: authorization decisions and expiry reminders, which are       *)
(* appended and read by nothing, the replay of an idempotency key except   *)
(* where a retried freeze meets it, and the scope (regions, media, use) of *)
(* a right, which is fixed when the version is created.                    *)
(***************************************************************************)
EXTENDS Integers, Sequences, FiniteSets

CONSTANTS
    Snapshots, \* snapshots the source may get
    MaxRights, \* bound on the versions of the rights record
    Derived,   \* objects derived from the source
    ParentsOf, \* from which each may be derived
    BlockReasons    \* reasons given for a block

Root == "root" \* no parent: derived from the source itself

ASSUME ProvenanceBounds == MaxRights \in Nat /\ \A d \in Derived : ParentsOf[d] \subseteq Derived \cup {Root}

VARIABLES
    source,   \* status and current snapshot of the source
    snapshot, \* status of each snapshot
    rights,   \* versions of the rights record, in order
    record,   \* status and current version (0: none) of the rights record
    edges,    \* lineage: derived objects, under which version, from which parent
    blocks,   \* block records: the edge, the reason and the version it was written for
    freeze,   \* how far freeze_complaint() came with a version
    beneath,  \* history: what was derived under a version when its freeze was through
    expiring  \* versions the running expire_due() has read as over

provVars == <<source, snapshot, rights, record, edges, blocks, freeze, beneath, expiring>>

NoSnapshot == "none"
Terminal == {"expired", "revoked", "blocked"}
RightsStates == {"pending", "verified", "expired", "revoked", "complaint_hold"}
Versions == DOMAIN rights
Edge == [version : 1 .. MaxRights, parent : Derived \cup {Root}, child : Derived]

ProvTypeOK ==
    /\ source.status \in {"none", "ingested", "quarantined", "usable"} \cup Terminal
    /\ source.current \in Snapshots \cup {NoSnapshot}
    /\ snapshot \in [Snapshots -> {"none", "captured", "quarantined", "usable"} \cup Terminal]
    /\ \A v \in Versions : rights[v].status \in RightsStates /\ rights[v].cites \subseteq Snapshots
    /\ record.status \in RightsStates /\ record.current \in Versions \cup {0}
    /\ edges \subseteq Edge
    /\ blocks \subseteq [edge : edges, reason : BlockReasons, for : Versions]
    /\ freeze \in [1 .. MaxRights -> {"none", "held", "blocking", "done"}]
    /\ expiring \subseteq Versions

ProvInit ==
    /\ source = [status |-> "none", current |-> NoSnapshot]
    /\ snapshot = [s \in Snapshots |-> "none"]
    /\ rights = <<>>
    /\ record = [status |-> "pending", current |-> 0]
    /\ edges = {} /\ blocks = {} /\ expiring = {}
    /\ freeze = [v \in 1 .. MaxRights |-> "none"] /\ beneath = [v \in 1 .. MaxRights |-> {}]

Capture(s) ==
    /\ snapshot[s] = "none"
    /\ snapshot' = [snapshot EXCEPT ![s] = "captured"]
    /\ source' = [status |-> "ingested", current |-> s]
    /\ UNCHANGED <<rights, record, edges, blocks, freeze, beneath, expiring>>

Ingest(s) == source.status = "none" /\ Capture(s)

CreateSnapshot(s) == source.status \notin {"none", "revoked", "blocked"} /\ Capture(s)

SnapshotStep(from, to) ==
    \/ from = "captured" /\ to = "quarantined"
    \/ from = "quarantined" /\ to = "usable"
    \/ from \in {"captured", "quarantined", "usable"} /\ to \in Terminal

\* the source takes the status of the snapshot that moved, whichever it is
TransitionSnapshot(s, to) ==
    /\ SnapshotStep(snapshot[s], to)
    /\ snapshot' = [snapshot EXCEPT ![s] = to]
    /\ source' = IF to = source.status THEN source ELSE [status |-> to, current |-> s]
    /\ UNCHANGED <<rights, record, edges, blocks, freeze, beneath, expiring>>

CreateRights(cites) ==
    /\ cites # {} /\ \A s \in cites : snapshot[s] # "none"
    /\ Len(rights) < MaxRights
    /\ rights' = Append(rights, [status |-> "pending", cites |-> cites, over |-> FALSE])
    /\ record' = IF record.status = "verified" THEN record
                 ELSE [status |-> "pending", current |-> 0]
    /\ UNCHANGED <<source, snapshot, edges, blocks, freeze, beneath, expiring>>

SnapshotsUsable(cites) == \A s \in cites : snapshot[s] = "usable"

VerifyRights(v) ==
    /\ rights[v].status = "pending" /\ v = Len(rights)
    /\ SnapshotsUsable(rights[v].cites) /\ ~rights[v].over
    /\ rights' = [rights EXCEPT ![v].status = "verified"]
    /\ record' = [status |-> "verified", current |-> v]
    /\ UNCHANGED <<source, snapshot, edges, blocks, freeze, beneath, expiring>>

\* the writes of transition_version(): the record follows its current version only
EndRights(v, to) ==
    /\ rights[v].status = "verified"
    /\ rights' = [rights EXCEPT ![v].status = to]
    /\ record' = IF record.current = v THEN [status |-> to, current |-> 0] ELSE record

TransitionRights(v, to) ==
    /\ EndRights(v, to)
    /\ UNCHANGED <<source, snapshot, edges, blocks, freeze, beneath, expiring>>

\* valid_to of a version passes
RightsOver(v) ==
    /\ ~rights[v].over
    /\ rights' = [rights EXCEPT ![v].over = TRUE]
    /\ UNCHANGED <<source, snapshot, record, edges, blocks, freeze, beneath, expiring>>

ExpireDue ==
    /\ expiring = {}
    /\ expiring' = {v \in Versions : rights[v].status = "verified" /\ rights[v].over}
    /\ expiring' # {}
    /\ UNCHANGED <<source, snapshot, rights, record, edges, blocks, freeze, beneath>>

\* a version that is no longer verified is passed over
ExpireOne(v) ==
    /\ v \in expiring /\ \A w \in expiring : v <= w
    /\ expiring' = expiring \ {v}
    /\ \/ EndRights(v, "expired")
       \/ rights[v].status # "verified" /\ UNCHANGED <<rights, record>>
    /\ UNCHANGED <<source, snapshot, edges, blocks, freeze, beneath>>

\* mutant: a version under a complaint hold still lets derive
MayDeriveHeld(v) == rights[v].status \in {"verified", "complaint_hold"}

MayDerive(v) == rights[v].status = "verified"

RegisterLineage(v, parent, child) ==
    /\ MayDerive(v)
    /\ parent = Root \/ \E e \in edges : e.child = parent
    /\ \A e \in edges : e.child = child => e.version # v /\ (e.parent # parent \/ parent = Root)
    /\ edges' = edges \cup {[version |-> v, parent |-> parent, child |-> child]}
    /\ UNCHANGED <<source, snapshot, rights, record, blocks, freeze, beneath, expiring>>

Objects(traced) == {e.child : e \in traced}

\* edges under a version and, from each object reached, those to objects that
\* are not reached yet: of several to one object only the one met first is
\* listed (in breadth-first order; here in any)
TraceLineage(v, traced) ==
    LET own == {e \in edges : e.version = v}
        further == traced \ own
    IN /\ own \subseteq traced /\ traced \subseteq edges
       /\ \A e \in further, f \in traced : f.child = e.child => f = e
       /\ \A e \in edges : e.parent \in Objects(traced) => e.child \in Objects(traced)
       /\ \A part \in SUBSET further \ {{}} : \E e \in part : e.parent \in Objects(traced \ part)

\* a row is kept once for an edge and a reason: another is ignored
Blocked(e, reason) == \E b \in blocks : b.edge = e /\ b.reason = reason

BlockEdges(v, reason) ==
    \E traced \in SUBSET edges :
        /\ TraceLineage(v, traced)
        /\ blocks' = blocks \cup {[edge |-> e, reason |-> reason, for |-> v] :
                                      e \in {f \in traced : ~Blocked(f, reason)}}

\* on its own, for rights that ended otherwise: the caller decides when
BlockDerivatives(v, reason) ==
    /\ BlockEdges(v, reason)
    /\ UNCHANGED <<source, snapshot, rights, record, edges, freeze, beneath, expiring>>

\* freeze_complaint(), first transaction; a retry under the same key replays it
FreezeHold(v) ==
    /\ \/ freeze[v] = "none" /\ EndRights(v, "complaint_hold")
       \/ freeze[v] = "held" /\ UNCHANGED <<rights, record>>
    /\ freeze' = [freeze EXCEPT ![v] = "blocking"]
    /\ UNCHANGED <<source, snapshot, edges, blocks, beneath, expiring>>

\* the objects below a version: all that every closed set with its own has
Below(v) ==
    LET Closed(objects) == \A e \in edges : e.version = v \/ e.parent \in objects => e.child \in objects
    IN {d \in Derived : \A objects \in SUBSET Derived : Closed(objects) => d \in objects}

\* freeze_complaint(), second transaction
FreezeBlock(v, reason) ==
    /\ freeze[v] = "blocking"
    /\ BlockEdges(v, reason)
    /\ freeze' = [freeze EXCEPT ![v] = "done"]
    /\ beneath' = [beneath EXCEPT ![v] = Below(v)]
    /\ UNCHANGED <<source, snapshot, rights, record, edges, expiring>>

\* the process ends, or the second transaction cannot begin, in between
FreezeFails(v) ==
    /\ freeze[v] = "blocking"
    /\ freeze' = [freeze EXCEPT ![v] = "held"]
    /\ UNCHANGED <<source, snapshot, rights, record, edges, blocks, beneath, expiring>>

SourceNext ==
    \E s \in Snapshots : Ingest(s) \/ CreateSnapshot(s)
                         \/ \E to \in {"quarantined", "usable"} \cup Terminal : TransitionSnapshot(s, to)

RightsNext ==
    \/ \E cites \in SUBSET Snapshots : CreateRights(cites)
    \/ \E v \in Versions :
          \/ VerifyRights(v) \/ RightsOver(v)
          \/ \E to \in {"expired", "revoked", "complaint_hold"} : TransitionRights(v, to)

GuardNext ==
    \/ ExpireDue
    \/ \E v \in Versions :
          \/ ExpireOne(v) \/ FreezeHold(v) \/ FreezeFails(v)
          \/ \E reason \in BlockReasons : BlockDerivatives(v, reason) \/ FreezeBlock(v, reason)
          \/ \E d \in Derived : \E p \in ParentsOf[d] : RegisterLineage(v, p, d)

ProvNext == SourceNext \/ RightsNext \/ GuardNext

(***************************************************************************)
(* When a complaint freeze has returned, every edge under the version has  *)
(* a block record, and so has an edge to every object that was derived     *)
(* from it by then, directly or through others and under whatever version: *)
(* the hold comes first, so no derivative can be registered under the      *)
(* version between the two transactions and slip past the trace, which     *)
(* leaves out edges but no object; an edge that was blocked for the same   *)
(* reason before keeps the record it has; and a freeze that stopped half-  *)
(* way is completed by a retry under its key.                              *)
(***************************************************************************)
FrozenBlocked ==
    \A v \in Versions : freeze[v] = "done" =>
        /\ \A e \in edges : e.version = v => \E b \in blocks : b.edge = e
        /\ \A d \in beneath[v] : \E b \in blocks : b.edge.child = d

(***************************************************************************)
(* A right that was ever verified rested on snapshots that had been made   *)
(* usable, and the record points at a version only while that version is   *)
(* verified: no order of verifications, expiries, scans and freezes of     *)
(* several versions leaves the pointer at one that has ended.              *)
(***************************************************************************)
RecordPoints ==
    /\ record.current # 0 => rights[record.current].status = "verified"
    /\ record.status = "verified" <=> record.current # 0
    /\ \A v \in Versions : rights[v].status # "pending" =>
          \A s \in rights[v].cites : snapshot[s] \notin {"none", "captured", "quarantined"}

(***************************************************************************)
(* Both together, over one rights record: what a complaint froze is        *)
(* blocked, and the pointer follows the one version that counts.           *)
(***************************************************************************)
RightsHold == FrozenBlocked /\ RecordPoints
=============================================================================

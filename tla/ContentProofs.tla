---------------------------- MODULE ContentProofs ----------------------------
(***************************************************************************)
(* Proofs about what content stands on: sources, knowledge and canonical   *)
(* versions composed, each moved by its own commands at any time, for      *)
(* every set of snapshots, claims, evidence, texts and actors and every    *)
(* bound.                                                                  *)
(***************************************************************************)
EXTENDS Canonical, SequenceTheorems, TLAPS

-----------------------------------------------------------------------------
(* Sequences of records *)

\* One entry of a sequence is written.
LEMMA EntryWritten ==
    ASSUME NEW S, NEW s \in Seq(S), NEW i \in DOMAIN s, NEW e \in S
    PROVE  LET t == [s EXCEPT ![i] = e]
           IN  /\ t \in Seq(S) /\ Len(t) = Len(s) /\ DOMAIN t = DOMAIN s
               /\ t[i] = e /\ \A j \in DOMAIN s \ {i} : t[j] = s[j]
<1>1. DOMAIN s = 1 .. Len(s)
  BY LenProperties
<1>2. DOMAIN [s EXCEPT ![i] = e] = DOMAIN s
  OBVIOUS
<1> QED BY <1>1, <1>2, ExceptSeq

\* An entry is added at the end.
LEMMA EntryAdded ==
    ASSUME NEW S, NEW s \in Seq(S), NEW e \in S
    PROVE  LET t == Append(s, e)
           IN  /\ t \in Seq(S) /\ Len(s) \in Nat /\ Len(t) = Len(s) + 1
               /\ DOMAIN s = 1 .. Len(s) /\ DOMAIN t = DOMAIN s \cup {Len(s) + 1} /\ Len(s) + 1 \notin DOMAIN s
               /\ t[Len(s) + 1] = e /\ \A j \in DOMAIN s : t[j] = s[j]
<1>1. DOMAIN s = 1 .. Len(s) /\ Len(s) \in Nat
  BY LenProperties
<1>2. Append(s, e) \in Seq(S) /\ Len(Append(s, e)) = Len(s) + 1
  OBVIOUS
<1>3. DOMAIN Append(s, e) = 1 .. (Len(s) + 1)
  BY <1>2, LenProperties
<1>4. \A j \in 1 .. Len(s) : Append(s, e)[j] = s[j]
  BY <1>1
<1>5. Append(s, e)[Len(s) + 1] = e
  BY <1>1
<1> QED BY <1>1, <1>2, <1>3, <1>4, <1>5

-----------------------------------------------------------------------------
(* Sources and rights *)

RightsRows == [status : RightsStates, cites : SUBSET Snapshots, over : BOOLEAN]
SnapshotStates == {"none", "captured", "quarantined", "usable"} \cup Terminal
Freezes == [1 .. MaxRights -> {"none", "held", "blocking", "done"}]
Settled == {"usable"} \cup Terminal

ProvTyped ==
    /\ source \in [status : {"none", "ingested", "quarantined", "usable"} \cup Terminal,
                   current : Snapshots \cup {NoSnapshot}]
    /\ snapshot \in [Snapshots -> SnapshotStates]
    /\ rights \in Seq(RightsRows) /\ Len(rights) <= MaxRights
    /\ record \in [status : RightsStates, current : Versions \cup {0}]
    /\ edges \subseteq Edge
    /\ blocks \subseteq [edge : edges, reason : BlockReasons, for : Versions]
    /\ freeze \in Freezes /\ beneath \in [1 .. MaxRights -> SUBSET Derived]
    /\ expiring \subseteq Versions

\* A version whose freeze has begun has ended, and does not come back.
FreezeSound == \A v \in 1 .. MaxRights : freeze[v] # "none" =>
    v \in Versions /\ rights[v].status \notin {"pending", "verified"}

ProvInv == ProvTyped /\ FreezeSound /\ RightsHold

\* What others rest on and sources never take back: versions of the rights and
\* what they cite, that a right was verified, a snapshot captured or settled.
GroundKept ==
    /\ Versions \subseteq DOMAIN rights'
    /\ \A v \in Versions : Once(rights[v].status) => Once(rights'[v].status)
    /\ \A s \in Snapshots :
          /\ snapshot[s] # "none" => snapshot'[s] # "none"
          /\ snapshot[s] \in Settled => snapshot'[s] \in Settled

-----------------------------------------------------------------------------
(* Knowledge *)

FactKeys == {{ScopeOf[c]} : c \in Claims} \cup SUBSET Claims
ClaimRows == [status : {"none", "draft", "verified", "withdrawn"}, fresh : {"fresh", "due", "withdrawn"}]
EvidenceRows == [status : {"none", "captured", "valid", "expired", "revoked"}, about : Claims \cup {NoClaim}]
FactRows == [claims : (SUBSET Claims) \ {{}}, evidence : SUBSET Evidences, status : FactStates, keys : SUBSET FactKeys]

KnowTyped ==
    /\ entity \in {"none", "draft", "active", "retired"}
    /\ claim \in [Claims -> ClaimRows]
    /\ evidence \in [Evidences -> EvidenceRows]
    /\ links \subseteq Claims \X Evidences
    /\ \A x \in conflicts : x.claims \subseteq Claims
    /\ core \in [status : {"none", "draft", "validated", "stale"}, review : BOOLEAN]
    /\ facts \in Seq(FactRows)

EvidenceSound(e) ==
    /\ evidence[e].status # "none" => snapshot[SnapshotOf[e]] # "none" /\ RightsOf[e] \in Versions \cup {0}
    /\ Once(evidence[e].status) => /\ snapshot[SnapshotOf[e]] \in Settled
                                   /\ RightsOf[e] # 0 => Once(rights[RightsOf[e]].status)
    /\ evidence[e].about \in Claims => <<evidence[e].about, e>> \in links

ClaimSound(c) == Once(claim[c].status) => \E e \in Evidences : Once(evidence[e].status) /\ <<c, e>> \in links

Consistent(claims) == \A c, d \in claims : ScopeOf[c] = ScopeOf[d] => StatementOf[c] = StatementOf[d]

FactsSound(x) ==
    /\ x.keys = {} => Consistent(x.claims)
    /\ x.status = "verified" =>
          /\ x.keys = {}
          /\ \A c \in x.claims : Once(claim[c].status) /\
                \E e \in x.evidence : RightsOf[e] # 0 /\ Once(evidence[e].status) /\ <<c, e>> \in links

KnowInv ==
    /\ KnowTyped
    /\ \A e \in Evidences : EvidenceSound(e)
    /\ \A c \in Claims : ClaimSound(c)
    /\ \A n \in DOMAIN facts : FactsSound(facts[n])
    /\ core.review <=> facts # <<>> /\ facts[Len(facts)].keys # {}

\* What content rests on and knowledge never takes back.
KnowledgeKept ==
    /\ \A c \in Claims : Once(claim[c].status) => Once(claim'[c].status)
    /\ \A n \in DOMAIN facts : n \in DOMAIN facts' /\ facts'[n] = facts[n]

-----------------------------------------------------------------------------
(* Content *)

EditionRows ==
    [text : Texts, claim : Claims \cup {NoClaim}, high : BOOLEAN, evidence : SUBSET Evidences,
     rights : SUBSET Nat, facts : Nat, freshness : GivenFreshness, expires : Expiries]
QueueRows ==
    [edition : Nat, reason : Reasons, status : Open \cup {"completed"}, attempts : Nat,
     available : Nat, owner : Refreshers \cup {Nobody}, until : Nat]

CanonTyped ==
    /\ brief \in {"draft", "locked", "approved"}
    /\ content \in [status : {"none", "draft", "in_review"}, current : Nat]
    /\ editions \in Seq(EditionRows) /\ Len(editions) <= MaxEditions
    /\ checks \in [1 .. MaxEditions -> [at : Nat, found : SUBSET (Reasons \cup {"fresh"})]]
    /\ queue \in Seq(QueueRows)
    /\ \A i \in DOMAIN queue :
          /\ queue[i].edition \in Editions
          /\ queue[i].owner # Nobody <=> queue[i].status = "claimed"

EditionSound(x) ==
    /\ x.facts \in DOMAIN facts \cup {0} /\ x.rights \subseteq Versions
    /\ x.high => /\ x.claim \in Claims /\ Once(claim[x.claim].status) /\ x.evidence # {} /\ x.rights # {}
                 /\ \A v \in x.rights : Once(rights[v].status)
                 /\ \A e \in x.evidence : snapshot[SnapshotOf[e]] # "none" /\ RightsOf[e] \in x.rights \cup {0}
    /\ x.facts # 0 => facts[x.facts].status = "verified"

CanonInv ==
    /\ CanonTyped
    /\ \A n \in Editions : EditionSound(editions[n])
    /\ content.status = "none" => editions = <<>>
    /\ \A n \in 1 .. MaxEditions \ Editions : checks[n].found = {}
    /\ RefreshQueued

PipelineInv == ProvInv /\ KnowInv /\ CanonInv
-----------------------------------------------------------------------------
(* Steps of the sources *)

LEMMA ProvStarts == ProvInit => ProvInv
<1> SUFFICES ASSUME ProvInit PROVE ProvInv
  OBVIOUS
<1>1. rights = <<>> /\ rights \in Seq(RightsRows) /\ Len(rights) = 0 /\ Versions = {}
  <2>1. \A S : <<>> \in Seq(S) /\ Len(<<>>) = 0 /\ DOMAIN <<>> = {}
    BY EmptySeq
  <2> QED BY <2>1 DEF ProvInit, Versions
<1>2. ProvTyped
  BY <1>1, ProvenanceBounds DEF ProvInit, ProvTyped, SnapshotStates, RightsStates, Freezes
<1> QED
  BY <1>1, <1>2 DEF ProvInit, ProvInv, FreezeSound, RightsHold, FrozenBlocked, RecordPoints

\* What a block leaves behind: the rows there were, and a row for every edge
\* that was traced, so for every edge of the version and for every object below.
LEMMA BlocksAll ==
    ASSUME ProvTyped, NEW v \in Versions, NEW reason \in BlockReasons, BlockEdges(v, reason)
    PROVE  /\ blocks \subseteq blocks' /\ blocks' \subseteq [edge : edges, reason : BlockReasons, for : Versions]
           /\ \A e \in edges : e.version = v => \E b \in blocks' : b.edge = e
           /\ \A d \in Below(v) : \E b \in blocks' : b.edge.child = d
<1>1. PICK traced \in SUBSET edges :
        /\ TraceLineage(v, traced)
        /\ blocks' = blocks \cup {[edge |-> e, reason |-> reason, for |-> v] :
                                      e \in {f \in traced : ~Blocked(f, reason)}}
  BY DEF BlockEdges
<1>2. /\ blocks \subseteq blocks' /\ blocks' \subseteq [edge : edges, reason : BlockReasons, for : Versions]
  BY <1>1 DEF ProvTyped
<1>3. ASSUME NEW e \in traced PROVE \E b \in blocks' : b.edge = e
  <2>1. CASE Blocked(e, reason)
    BY <1>2, <2>1 DEF Blocked
  <2>2. CASE ~Blocked(e, reason)
    <3>1. PICK b : b = [edge |-> e, reason |-> reason, for |-> v]
      OBVIOUS
    <3>2. b \in blocks' /\ b.edge = e
      BY <1>1, <2>2, <3>1
    <3> QED BY <3>2
  <2> QED BY <2>1, <2>2
<1>4. \A e \in edges : e.version = v => e \in traced
  BY <1>1 DEF TraceLineage
<1>5. Below(v) \subseteq Objects(traced)
  <2>1. Objects(traced) \in SUBSET Derived
    BY <1>1 DEF ProvTyped, Edge, Objects
  <2>2. \A e \in edges : e.version = v \/ e.parent \in Objects(traced) => e.child \in Objects(traced)
    BY <1>1, <1>4 DEF TraceLineage, Objects
  <2> QED BY <2>1, <2>2 DEF Below
<1>6. \A d \in Below(v) : \E b \in blocks' : b.edge.child = d
  BY <1>3, <1>5 DEF Objects
<1> QED BY <1>2, <1>3, <1>4, <1>6

\* What a step does to the versions of the rights: nothing, add a pending one,
\* or move one between statuses that a freeze does not look back from.
LEMMA VersionsTyped ==
    ASSUME ProvInv
    PROVE  /\ Versions = 1 .. Len(rights) /\ Len(rights) \in Nat /\ Versions \subseteq 1 .. MaxRights
           /\ \A v \in Versions : rights[v] \in RightsRows
<1>1. rights \in Seq(RightsRows) /\ Len(rights) <= MaxRights /\ MaxRights \in Nat
  BY ProvenanceBounds DEF ProvInv, ProvTyped
<1>2. Versions = 1 .. Len(rights) /\ Len(rights) \in Nat
  BY <1>1, LenProperties DEF Versions
<1>3. \A v \in Versions : rights[v] \in RightsRows
  BY <1>1, <1>2, ElementOfSeq
<1> QED BY <1>1, <1>2, <1>3

\* Snapshots move on, and what rested on settled ones still does.
LEMMA SnapshotMoves ==
    ASSUME ProvInv, NEW s \in Snapshots, NEW to \in SnapshotStates \ {"none"},
           snapshot[s] \in Settled => to \in Settled,
           snapshot' = [snapshot EXCEPT ![s] = to],
           source' \in [status : {"none", "ingested", "quarantined", "usable"} \cup Terminal,
                        current : Snapshots \cup {NoSnapshot}],
           UNCHANGED <<rights, record, edges, blocks, freeze, beneath, expiring>>
    PROVE  ProvInv' /\ GroundKept
<1>1. snapshot' \in [Snapshots -> SnapshotStates]
  BY DEF ProvInv, ProvTyped
<1>2. GroundKept
  BY DEF ProvInv, ProvTyped, GroundKept, Versions
<1>3. RecordPoints'
  <2>1. \A v \in Versions : rights[v].status # "pending" =>
           \A t \in rights[v].cites : t \in Snapshots /\ snapshot[t] \in Settled
    BY VersionsTyped DEF ProvInv, ProvTyped, RightsHold, RecordPoints, RightsRows, SnapshotStates, Settled
  <2>2. \A v \in Versions : rights[v].status # "pending" => \A t \in rights[v].cites : snapshot'[t] \in Settled
    BY <1>2, <2>1 DEF GroundKept
  <2> QED BY <2>2 DEF ProvInv, RightsHold, RecordPoints, Settled, Terminal, Versions
<1>4. FrozenBlocked' /\ FreezeSound'
  BY DEF ProvInv, RightsHold, FrozenBlocked, FreezeSound, Versions
<1>5. ProvTyped'
  BY <1>1 DEF ProvInv, ProvTyped, Versions
<1> QED BY <1>2, <1>3, <1>4, <1>5 DEF ProvInv, RightsHold

LEMMA SourceKeeps == ASSUME ProvInv, SourceNext PROVE ProvInv' /\ GroundKept
<1>1. PICK s \in Snapshots : \/ Ingest(s) \/ CreateSnapshot(s)
                             \/ \E to \in {"quarantined", "usable"} \cup Terminal : TransitionSnapshot(s, to)
  BY DEF SourceNext
<1>2. CASE Capture(s)
  <2>1. snapshot[s] \notin Settled
    BY <1>2 DEF Capture, Settled, Terminal
  <2> QED BY <1>2, <2>1, SnapshotMoves DEF Capture, SnapshotStates
<1>3. ASSUME NEW to \in {"quarantined", "usable"} \cup Terminal, TransitionSnapshot(s, to)
      PROVE  ProvInv' /\ GroundKept
  <2>1. source' \in [status : {"none", "ingested", "quarantined", "usable"} \cup Terminal,
                     current : Snapshots \cup {NoSnapshot}]
    BY <1>3 DEF TransitionSnapshot, ProvInv, ProvTyped
  <2>2. snapshot[s] \in Settled => to \in Settled
    BY <1>3 DEF TransitionSnapshot, SnapshotStep, Settled, Terminal
  <2> QED BY <1>3, <2>1, <2>2, SnapshotMoves DEF TransitionSnapshot, SnapshotStates, Terminal
<1> QED BY <1>1, <1>2, <1>3 DEF Ingest, CreateSnapshot

\* The record follows a version that moves to a status, and a freeze begins
\* only with one that ends.
RecordGoes(v, to) ==
    /\ record' \in [status : RightsStates, current : Versions \cup {0}]
    /\ record'.status = "verified" <=> record'.current # 0
    /\ record'.current # 0 => /\ record'.current # v => record'.current = record.current
                              /\ record'.current = v => to = "verified"

FreezeGoes(v, to) ==
    /\ freeze' \in Freezes
    /\ \A w \in 1 .. MaxRights : \/ freeze'[w] = freeze[w]
                                 \/ freeze'[w] # "done" /\ freeze[w] # "none"
                                 \/ w = v /\ to \notin {"pending", "verified"} /\ freeze'[w] = "blocking"

\* One version is written: from pending to verified on settled snapshots, from
\* verified to an end, or as over; and the record follows.
LEMMA VersionMoves ==
    ASSUME ProvInv, NEW v \in Versions, NEW r \in RightsRows,
           rights' = [rights EXCEPT ![v] = r], r.cites = rights[v].cites,
           \/ r.status = rights[v].status
           \/ rights[v].status = "verified" /\ r.status # "pending"
           \/ /\ rights[v].status = "pending" /\ r.status = "verified"
              /\ \A s \in r.cites : snapshot[s] = "usable",
           RecordGoes(v, r.status), FreezeGoes(v, r.status), expiring' \subseteq expiring,
           UNCHANGED <<source, snapshot, edges, blocks, beneath>>
    PROVE  ProvInv' /\ GroundKept
<1> USE DEF RecordGoes, FreezeGoes, Freezes
<1>1. /\ rights' \in Seq(RightsRows) /\ Len(rights') = Len(rights) /\ DOMAIN rights' = Versions
      /\ rights'[v] = r /\ \A w \in Versions \ {v} : rights'[w] = rights[w]
  <2>1. rights \in Seq(RightsRows) /\ v \in DOMAIN rights
    BY DEF ProvInv, ProvTyped, Versions
  <2> HIDE DEF RightsRows
  <2> QED BY <2>1, EntryWritten DEF Versions
<1>2. ProvTyped'
  BY <1>1 DEF ProvInv, ProvTyped, Versions
<1>3. GroundKept
  BY <1>1 DEF GroundKept, Once, RightsRows, RightsStates
<1>4. FreezeSound'
  <2> SUFFICES ASSUME NEW w \in 1 .. MaxRights, freeze'[w] # "none"
               PROVE  w \in Versions /\ rights'[w].status \notin {"pending", "verified"}
    BY <1>1 DEF FreezeSound, Versions
  <2>1. CASE freeze[w] # "none"
    <3>1. w \in Versions /\ rights[w].status \notin {"pending", "verified"}
      BY <2>1 DEF ProvInv, FreezeSound
    <3>2. CASE w = v
      BY <1>1, <3>1, <3>2
    <3>3. CASE w # v
      BY <1>1, <3>1, <3>3
    <3> QED BY <3>2, <3>3
  <2>2. CASE freeze[w] = "none"
    BY <1>1, <2>2
  <2> QED BY <2>1, <2>2
<1>5. FrozenBlocked'
  <2>1. \A w \in Versions : freeze'[w] = "done" => freeze[w] = "done"
    BY VersionsTyped
  <2> QED BY <1>1, <2>1 DEF ProvInv, RightsHold, FrozenBlocked, Versions
<1>6. RecordPoints'
  <2>1. record'.current # 0 => rights'[record'.current].status = "verified"
    <3>1. CASE record'.current = v
      BY <1>1, <3>1
    <3>2. CASE record'.current \notin {v, 0}
      <4>1. record'.current = record.current /\ record'.current \in Versions
        BY <3>2
      <4> QED BY <1>1, <3>2, <4>1 DEF ProvInv, RightsHold, RecordPoints
    <3> QED BY <3>1, <3>2
  <2>2. ASSUME NEW w \in Versions, rights'[w].status # "pending", NEW s \in rights'[w].cites
        PROVE  snapshot'[s] \notin {"none", "captured", "quarantined"}
    <3>1. CASE rights[w].status # "pending"
      BY <1>1, <2>2, <3>1 DEF ProvInv, RightsHold, RecordPoints
    <3>2. CASE rights[w].status = "pending"
      BY <1>1, <2>2, <3>2
    <3> QED BY <3>1, <3>2
  <2> QED BY <1>1, <2>1, <2>2 DEF RecordPoints, Versions
<1> QED BY <1>2, <1>3, <1>4, <1>5, <1>6 DEF ProvInv, RightsHold

LEMMA VersionRestated ==
    ASSUME NEW x \in RightsRows, NEW to \in RightsStates
    PROVE  /\ [x EXCEPT !.status = to] \in RightsRows /\ [x EXCEPT !.status = to].status = to
           /\ [x EXCEPT !.status = to].cites = x.cites
           /\ [x EXCEPT !.over = TRUE] \in RightsRows /\ [x EXCEPT !.over = TRUE].status = x.status
           /\ [x EXCEPT !.over = TRUE].cites = x.cites
BY DEF RightsRows

\* The record points at versions that exist, and at a verified one only.
LEMMA RecordFollows ==
    ASSUME ProvInv
    PROVE  /\ record \in [status : RightsStates, current : Versions \cup {0}]
           /\ record.status = "verified" <=> record.current # 0
           /\ 0 \notin Versions
           /\ freeze \in Freezes
BY VersionsTyped DEF ProvInv, ProvTyped, RightsHold, RecordPoints

\* A step that leaves the freezes alone.
LEMMA FreezeStays == ASSUME ProvInv, freeze' = freeze, NEW v, NEW to PROVE FreezeGoes(v, to)
BY RecordFollows DEF FreezeGoes

\* A verified version ends, by whichever command.
LEMMA VersionEnds ==
    ASSUME ProvInv, NEW v \in Versions, NEW to \in {"expired", "revoked", "complaint_hold"},
           EndRights(v, to), expiring' \subseteq expiring,
           FreezeGoes(v, to),
           UNCHANGED <<source, snapshot, edges, blocks, beneath>>
    PROVE  ProvInv' /\ GroundKept
<1> DEFINE r == [rights[v] EXCEPT !.status = to]
<1>1. rights[v] \in RightsRows
  BY VersionsTyped
<1>2. r \in RightsRows /\ r.status = to /\ r.cites = rights[v].cites
  <2>1. to \in RightsStates
    BY DEF RightsStates
  <2> QED BY <1>1, <2>1, VersionRestated
<1>3. rights' = [rights EXCEPT ![v] = r] /\ rights[v].status = "verified"
  BY DEF EndRights
<1>4. RecordGoes(v, to)
  BY RecordFollows DEF EndRights, RightsStates, RecordGoes
<1> HIDE DEF r
<1> QED BY <1>2, <1>3, <1>4, VersionMoves

LEMMA CreateRightsKeeps ==
    ASSUME ProvInv, NEW cites \in SUBSET Snapshots, CreateRights(cites) PROVE ProvInv' /\ GroundKept
<1> DEFINE r == [status |-> "pending", cites |-> cites, over |-> FALSE]
           n == Len(rights) + 1
<1>1. r \in RightsRows
  BY DEF RightsRows, RightsStates
<1>2. r.status = "pending"
  OBVIOUS
<1>3. /\ rights' = Append(rights, r) /\ Len(rights) < MaxRights
      /\ record' = IF record.status = "verified" THEN record ELSE [status |-> "pending", current |-> 0]
      /\ UNCHANGED <<source, snapshot, edges, blocks, freeze, beneath, expiring>>
  BY DEF CreateRights
<1> HIDE DEF r
<1>4. /\ rights' \in Seq(RightsRows) /\ Len(rights') = n /\ Len(rights) \in Nat
      /\ DOMAIN rights' = Versions \cup {n} /\ n \notin Versions
      /\ rights'[n] = r /\ \A w \in Versions : rights'[w] = rights[w]
  <2>1. rights \in Seq(RightsRows)
    BY DEF ProvInv, ProvTyped
  <2> HIDE DEF RightsRows
  <2> QED BY <1>1, <1>3, <2>1, EntryAdded DEF Versions
<1> HIDE DEF n
<1>5. n \in 1 .. MaxRights /\ n <= MaxRights
  BY <1>3, <1>4, ProvenanceBounds DEF n
<1>6. record' \in [status : RightsStates, current : Versions \cup {0}]
  BY <1>3, RecordFollows DEF RightsStates
<1>7. ProvTyped'
  <2>1. blocks \subseteq [edge : edges, reason : BlockReasons, for : Versions \cup {n}] /\ expiring \subseteq Versions \cup {n}
    BY DEF ProvInv, ProvTyped
  <2>2. record' \in [status : RightsStates, current : Versions \cup {n} \cup {0}]
    BY <1>6
  <2> QED BY <1>3, <1>4, <1>5, <2>1, <2>2 DEF ProvInv, ProvTyped, Versions
<1>8. freeze[n] = "none"
  BY <1>4, <1>5 DEF ProvInv, FreezeSound
<1>9. FreezeSound' /\ FrozenBlocked'
  BY <1>3, <1>4, <1>8 DEF ProvInv, FreezeSound, RightsHold, FrozenBlocked, Versions
<1>10. RecordPoints'
  BY <1>2, <1>3, <1>4, <1>6, RecordFollows DEF ProvInv, RightsHold, RecordPoints, Versions
<1>11. GroundKept
  BY <1>3, <1>4 DEF GroundKept, Versions
<1> QED BY <1>7, <1>9, <1>10, <1>11 DEF ProvInv, RightsHold

LEMMA RightsKeeps == ASSUME ProvInv, RightsNext PROVE ProvInv' /\ GroundKept
<1>1. ASSUME NEW cites \in SUBSET Snapshots, CreateRights(cites) PROVE ProvInv' /\ GroundKept
  BY <1>1, CreateRightsKeeps
<1>2. ASSUME NEW v \in Versions, VerifyRights(v) PROVE ProvInv' /\ GroundKept
  <2> DEFINE r == [rights[v] EXCEPT !.status = "verified"]
  <2>1. r \in RightsRows /\ r.status = "verified" /\ r.cites = rights[v].cites
    BY VersionsTyped, VersionRestated DEF RightsStates
  <2>2. /\ rights' = [rights EXCEPT ![v] = r] /\ record' = [status |-> "verified", current |-> v]
        /\ rights[v].status = "pending" /\ \A s \in rights[v].cites : snapshot[s] = "usable"
        /\ UNCHANGED <<source, snapshot, edges, blocks, freeze, beneath, expiring>>
    BY <1>2 DEF VerifyRights, SnapshotsUsable
  <2>4. \A s \in r.cites : snapshot[s] = "usable"
    BY <2>1, <2>2
  <2>3. RecordGoes(v, r.status)
    BY <2>1, <2>2, RecordFollows DEF RightsStates, RecordGoes
  <2>5. FreezeGoes(v, r.status) /\ expiring' \subseteq expiring
    BY <2>2, FreezeStays
  <2> HIDE DEF r
  <2> QED BY <2>1, <2>2, <2>3, <2>4, <2>5, VersionMoves
<1>3. ASSUME NEW v \in Versions, RightsOver(v) PROVE ProvInv' /\ GroundKept
  <2> DEFINE r == [rights[v] EXCEPT !.over = TRUE]
  <2>1. r \in RightsRows /\ r.status = rights[v].status /\ r.cites = rights[v].cites
    BY VersionsTyped, VersionRestated DEF RightsStates
  <2>2. /\ rights' = [rights EXCEPT ![v] = r]
        /\ UNCHANGED <<source, snapshot, record, edges, blocks, freeze, beneath, expiring>>
    BY <1>3 DEF RightsOver
  <2>3. RecordGoes(v, r.status)
    BY <2>1, <2>2, RecordFollows DEF ProvInv, RightsHold, RecordPoints, RecordGoes
  <2>4. FreezeGoes(v, r.status) /\ expiring' \subseteq expiring
    BY <2>2, FreezeStays
  <2> HIDE DEF r
  <2> QED BY <2>1, <2>2, <2>3, <2>4, VersionMoves
<1>4. ASSUME NEW v \in Versions, NEW to \in {"expired", "revoked", "complaint_hold"}, TransitionRights(v, to)
      PROVE  ProvInv' /\ GroundKept
  <2>1. EndRights(v, to) /\ UNCHANGED <<source, snapshot, edges, blocks, freeze, beneath, expiring>>
    BY <1>4 DEF TransitionRights
  <2>2. FreezeGoes(v, to) /\ expiring' \subseteq expiring
    BY <2>1, FreezeStays
  <2> QED BY <2>1, <2>2, VersionEnds
<1> QED BY <1>1, <1>2, <1>3, <1>4 DEF RightsNext

\* Steps of the guard that leave the versions alone: what a freeze blocks when
\* it ends is all there is, and a new edge is under a version that still derives.
LEMMA GuardMoves ==
    ASSUME ProvInv, UNCHANGED <<source, snapshot, rights, record>>,
           edges' \subseteq Edge, blocks' \subseteq [edge : edges', reason : BlockReasons, for : Versions], expiring' \subseteq Versions,
           freeze' \in Freezes, beneath' \in [1 .. MaxRights -> SUBSET Derived],
           \A w \in 1 .. MaxRights : freeze'[w] # "none" => freeze[w] # "none",
           FrozenBlocked'
    PROVE  ProvInv' /\ GroundKept
<1>1. ProvTyped' /\ FreezeSound'
  BY DEF ProvInv, ProvTyped, FreezeSound, Versions
<1>2. RecordPoints'
  BY DEF ProvInv, RightsHold, RecordPoints, Versions
<1> QED BY <1>1, <1>2 DEF ProvInv, RightsHold, GroundKept, Versions

LEMMA GuardKeeps == ASSUME ProvInv, GuardNext PROVE ProvInv' /\ GroundKept
<1>0. /\ edges \subseteq Edge /\ blocks \subseteq [edge : edges, reason : BlockReasons, for : Versions] /\ expiring \subseteq Versions
      /\ FrozenBlocked /\ Versions \subseteq 1 .. MaxRights
      /\ freeze \in Freezes /\ beneath \in [1 .. MaxRights -> SUBSET Derived] /\ ProvTyped
  BY VersionsTyped DEF ProvInv, ProvTyped, RightsHold
<1>1. CASE ExpireDue
  BY <1>0, <1>1, GuardMoves DEF ExpireDue, FrozenBlocked, Versions
<1>2. ASSUME NEW v \in Versions, ExpireOne(v) PROVE ProvInv' /\ GroundKept
  <2>1. CASE EndRights(v, "expired")
    <3>1. FreezeGoes(v, "expired") /\ expiring' \subseteq expiring /\ UNCHANGED <<source, snapshot, edges, blocks, beneath>>
      BY <1>0, <1>2, FreezeStays DEF ExpireOne
    <3> QED BY <2>1, <3>1, VersionEnds
  <2>2. CASE UNCHANGED <<rights, record>>
    BY <1>0, <1>2, <2>2, GuardMoves DEF ExpireOne, FrozenBlocked, Versions
  <2> QED BY <1>2, <2>1, <2>2 DEF ExpireOne
<1>4. ASSUME NEW v \in Versions, NEW reason \in BlockReasons, BlockDerivatives(v, reason) PROVE ProvInv' /\ GroundKept
  <2>1. /\ BlockEdges(v, reason)
        /\ UNCHANGED <<source, snapshot, rights, record, edges, freeze, beneath, expiring>>
    BY <1>4 DEF BlockDerivatives
  <2>2. /\ blocks \subseteq blocks' /\ blocks' \subseteq [edge : edges, reason : BlockReasons, for : Versions]
    BY <1>0, <2>1, BlocksAll
  <2>3. FrozenBlocked'
    BY <1>0, <2>1, <2>2 DEF FrozenBlocked, Versions
  <2> QED BY <1>0, <2>1, <2>2, <2>3, GuardMoves
<1>5. ASSUME NEW v \in Versions, FreezeHold(v) PROVE ProvInv' /\ GroundKept
  <2>1. /\ freeze' = [freeze EXCEPT ![v] = "blocking"]
        /\ UNCHANGED <<source, snapshot, edges, blocks, beneath, expiring>>
    BY <1>5 DEF FreezeHold
  <2>2. freeze' \in Freezes /\ freeze'[v] = "blocking" /\ \A w \in 1 .. MaxRights \ {v} : freeze'[w] = freeze[w]
    BY <1>0, <2>1 DEF Freezes
  <2>3. CASE EndRights(v, "complaint_hold")
    <3>1. /\ expiring' \subseteq expiring /\ UNCHANGED <<source, snapshot, edges, blocks, beneath>>
          /\ FreezeGoes(v, "complaint_hold")
      BY <1>0, <2>1, <2>2 DEF FreezeGoes
    <3> QED BY <2>3, <3>1, VersionEnds
  <2>4. CASE freeze[v] = "held" /\ UNCHANGED <<rights, record>>
    <3>1. FrozenBlocked'
      BY <1>0, <2>1, <2>4 DEF FrozenBlocked, Versions
    <3> QED BY <1>0, <2>1, <2>2, <2>4, <3>1, GuardMoves
  <2> QED BY <1>5, <2>3, <2>4 DEF FreezeHold
<1>6. ASSUME NEW v \in Versions, NEW reason \in BlockReasons, FreezeBlock(v, reason) PROVE ProvInv' /\ GroundKept
  <2>1. /\ freeze[v] = "blocking" /\ BlockEdges(v, reason)
        /\ freeze' = [freeze EXCEPT ![v] = "done"] /\ beneath' = [beneath EXCEPT ![v] = Below(v)]
        /\ UNCHANGED <<source, snapshot, rights, record, edges, expiring>>
    BY <1>6 DEF FreezeBlock
  <2>2. /\ blocks \subseteq blocks' /\ blocks' \subseteq [edge : edges, reason : BlockReasons, for : Versions]
        /\ \A e \in edges : e.version = v => \E b \in blocks' : b.edge = e
        /\ \A d \in Below(v) : \E b \in blocks' : b.edge.child = d
    BY <1>0, <2>1, BlocksAll
  <2>3. /\ freeze' \in Freezes /\ \A w \in 1 .. MaxRights : freeze'[w] # "none" => freeze[w] # "none"
        /\ beneath' \in [1 .. MaxRights -> SUBSET Derived]
    BY <1>0, <2>1 DEF Freezes, Below
  <2>4. ASSUME NEW w \in Versions, freeze'[w] = "done"
        PROVE  /\ \A e \in edges : e.version = w => \E b \in blocks' : b.edge = e
               /\ \A d \in beneath'[w] : \E b \in blocks' : b.edge.child = d
    <3>1. CASE w = v
      <4>1. beneath'[w] = Below(v)
        BY <1>0, <2>1, <3>1
      <4> QED BY <2>2, <3>1, <4>1
    <3>2. CASE w # v
      <4>1. freeze[w] = "done" /\ beneath'[w] = beneath[w]
        BY <1>0, <2>1, <2>4, <3>2 DEF Freezes
      <4> QED BY <1>0, <2>2, <4>1 DEF FrozenBlocked
    <3> QED BY <3>1, <3>2
  <2>5. FrozenBlocked'
    BY <2>1, <2>4 DEF FrozenBlocked, Versions
  <2> QED BY <1>0, <2>1, <2>2, <2>3, <2>5, GuardMoves
<1>7. ASSUME NEW v \in Versions, FreezeFails(v) PROVE ProvInv' /\ GroundKept
  <2>1. FrozenBlocked'
    BY <1>0, <1>7 DEF FreezeFails, FrozenBlocked, Versions
  <2>2. freeze' \in Freezes /\ \A w \in 1 .. MaxRights : freeze'[w] # "none" => freeze[w] # "none"
    BY <1>0, <1>7 DEF FreezeFails, Freezes
  <2> QED BY <1>0, <1>7, <2>1, <2>2, GuardMoves DEF FreezeFails
<1>8. ASSUME NEW v \in Versions, NEW d \in Derived, NEW p \in ParentsOf[d], RegisterLineage(v, p, d)
      PROVE  ProvInv' /\ GroundKept
  <2>1. /\ edges' = edges \cup {[version |-> v, parent |-> p, child |-> d]}
        /\ rights[v].status = "verified"
        /\ UNCHANGED <<source, snapshot, rights, record, blocks, freeze, beneath, expiring>>
    BY <1>8 DEF RegisterLineage, MayDerive
  <2>2. [version |-> v, parent |-> p, child |-> d] \in Edge
    BY <1>0, ProvenanceBounds DEF Edge
  <2>3. freeze[v] = "none"
    BY <1>0, <2>1 DEF ProvInv, FreezeSound
  <2>4. FrozenBlocked'
    BY <1>0, <2>1, <2>3 DEF FrozenBlocked, Versions
  <2>5. blocks' \subseteq [edge : edges', reason : BlockReasons, for : Versions]
    BY <1>0, <2>1
  <2> QED BY <1>0, <2>1, <2>2, <2>4, <2>5, GuardMoves
<1> QED BY <1>1, <1>2, <1>4, <1>5, <1>6, <1>7, <1>8 DEF GuardNext

LEMMA ProvKeeps == ASSUME ProvInv, ProvNext PROVE ProvInv' /\ GroundKept
BY SourceKeeps, RightsKeeps, GuardKeeps DEF ProvNext

-----------------------------------------------------------------------------
(* Steps of knowledge *)

LEMMA KnowStarts == KnowInit => KnowInv
<1> SUFFICES ASSUME KnowInit PROVE KnowInv
  OBVIOUS
<1>1. facts = <<>> /\ facts \in Seq(FactRows) /\ DOMAIN facts = {}
  <2>1. \A S : <<>> \in Seq(S) /\ DOMAIN <<>> = {}
    BY EmptySeq
  <2> QED BY <2>1 DEF KnowInit
<1>2. KnowTyped
  BY <1>1 DEF KnowInit, KnowTyped, ClaimRows, EvidenceRows
<1> QED BY <1>1, <1>2, KnowledgeBounds DEF KnowInit, KnowInv, EvidenceSound, ClaimSound, Once

\* Evidence that was checked, claims that were verified and links stay.
Advances ==
    /\ \A e \in Evidences : Once(evidence[e].status) => Once(evidence'[e].status)
    /\ \A c \in Claims : Once(claim[c].status) => Once(claim'[c].status)
    /\ links \subseteq links'

\* What a version of the core says stays true as knowledge advances.
LEMMA FactsStand ==
    ASSUME Advances, NEW x \in FactRows, FactsSound(x) PROVE FactsSound(x)'
<1>1. x.claims \subseteq Claims /\ x.evidence \subseteq Evidences
  BY DEF FactRows
<1> QED BY <1>1 DEF Advances, FactsSound

LEMMA FactsTyped ==
    ASSUME KnowInv
    PROVE  /\ facts \in Seq(FactRows) /\ DOMAIN facts = 1 .. Len(facts) /\ Len(facts) \in Nat
           /\ \A n \in DOMAIN facts : facts[n] \in FactRows /\ FactsSound(facts[n])
           /\ facts # <<>> => Len(facts) \in DOMAIN facts
<1>1. facts \in Seq(FactRows)
  BY DEF KnowInv, KnowTyped
<1>2. DOMAIN facts = 1 .. Len(facts) /\ Len(facts) \in Nat
  BY <1>1, LenProperties
<1>3. \A n \in DOMAIN facts : facts[n] \in FactRows
  BY <1>1, <1>2, ElementOfSeq
<1>4. facts # <<>> => Len(facts) \in DOMAIN facts
  BY <1>1, <1>2, EmptySeq
<1> QED BY <1>1, <1>2, <1>3, <1>4 DEF KnowInv

\* Steps that leave the core alone.
LEMMA KnowAdvances ==
    ASSUME KnowInv, KnowTyped', Advances, \A e \in Evidences : EvidenceSound(e)',
           \A c \in Claims : Once(claim'[c].status) => Once(claim[c].status) \/ ClaimSound(c)',
           UNCHANGED <<core, facts>>
    PROVE  KnowInv' /\ KnowledgeKept
<1>1. \A n \in DOMAIN facts : FactsSound(facts[n])'
  BY FactsTyped, FactsStand
<1>2. \A n \in DOMAIN facts' : FactsSound(facts[n])'
  BY <1>1
<1>3. \A c \in Claims : ClaimSound(c)'
  BY DEF KnowInv, ClaimSound, Advances
<1> QED BY <1>2, <1>3 DEF KnowInv, KnowledgeKept, Advances

LEMMA KnowStays ==
    ASSUME ProvInv, KnowInv, GroundKept, UNCHANGED knowVars PROVE KnowInv' /\ KnowledgeKept
<1>1. \A e \in Evidences : EvidenceSound(e)'
  <2> SUFFICES ASSUME NEW e \in Evidences PROVE EvidenceSound(e)'
    OBVIOUS
  <2>1. EvidenceSound(e) /\ SnapshotOf[e] \in Snapshots /\ evidence' = evidence /\ links' = links
    BY KnowledgeBounds DEF KnowInv, knowVars
  <2>2. evidence[e].status # "none" => snapshot'[SnapshotOf[e]] # "none" /\ RightsOf[e] \in Versions' \cup {0}
    BY <2>1 DEF EvidenceSound, GroundKept, Versions
  <2>3. Once(evidence[e].status) => evidence[e].status # "none"
    BY DEF Once
  <2>4. Once(evidence[e].status) => /\ snapshot'[SnapshotOf[e]] \in Settled
                                    /\ RightsOf[e] # 0 => Once(rights'[RightsOf[e]].status)
    BY <2>1, <2>3 DEF EvidenceSound, GroundKept
  <2> QED BY <2>1, <2>2, <2>4 DEF EvidenceSound
<1>2. Advances /\ KnowTyped' /\ UNCHANGED <<core, facts>>
  BY DEF KnowInv, KnowTyped, Advances, knowVars
<1>3. \A c \in Claims : Once(claim'[c].status) => Once(claim[c].status)
  BY DEF knowVars
<1> QED BY <1>1, <1>2, <1>3, KnowAdvances

\* One claim is written.
LEMMA ClaimMoves ==
    ASSUME KnowInv, NEW c \in Claims, NEW r \in ClaimRows, claim' = [claim EXCEPT ![c] = r],
           Once(claim[c].status) => Once(r.status),
           Once(r.status) => Once(claim[c].status) \/ Supported(c),
           UNCHANGED <<provVars, entity, evidence, links, conflicts, core, facts>>
    PROVE  KnowInv' /\ KnowledgeKept
<1>1. claim'[c] = r /\ \A d \in Claims \ {c} : claim'[d] = claim[d]
  BY DEF KnowInv, KnowTyped
<1>2. KnowTyped'
  BY DEF KnowInv, KnowTyped
<1>3. Advances
  BY <1>1 DEF Advances
<1>4. \A e \in Evidences : EvidenceSound(e)'
  BY DEF KnowInv, EvidenceSound, provVars, Versions
<1>5. Supported(c) => ClaimSound(c)'
  <2> SUFFICES ASSUME Supported(c) PROVE ClaimSound(c)'
    OBVIOUS
  <2>1. PICK e \in Evidences : evidence[e].status = "valid" /\ (<<c, e>> \in links \/ evidence[e].about = c)
    BY DEF Supported
  <2>2. <<c, e>> \in links /\ Once(evidence[e].status)
    BY <2>1 DEF KnowInv, EvidenceSound, Once
  <2> QED BY <2>2 DEF ClaimSound
<1>6. \A d \in Claims : Once(claim'[d].status) => Once(claim[d].status) \/ ClaimSound(d)'
  BY <1>1, <1>5
<1> QED BY <1>2, <1>3, <1>4, <1>6, KnowAdvances

\* One piece of evidence is written, and perhaps a link to the claim it names.
LEMMA EvidenceMoves ==
    ASSUME KnowInv, NEW e \in Evidences, NEW r \in EvidenceRows, evidence' = [evidence EXCEPT ![e] = r],
           Once(evidence[e].status) => Once(r.status),
           links \subseteq links', links' \subseteq Claims \X Evidences,
           EvidenceSound(e)',
           UNCHANGED <<provVars, entity, claim, conflicts, core, facts>>
    PROVE  KnowInv' /\ KnowledgeKept
<1>1. evidence'[e] = r /\ \A d \in Evidences \ {e} : evidence'[d] = evidence[d]
  BY DEF KnowInv, KnowTyped
<1>2. KnowTyped'
  BY DEF KnowInv, KnowTyped
<1>3. Advances
  BY <1>1 DEF Advances
<1>4. \A d \in Evidences : EvidenceSound(d)'
  BY <1>1 DEF KnowInv, EvidenceSound, provVars, Versions
<1>5. \A c \in Claims : Once(claim'[c].status) => Once(claim[c].status)
  OBVIOUS
<1> QED BY <1>2, <1>3, <1>4, <1>5, KnowAdvances

LEMMA RowsTyped ==
    ASSUME KnowInv
    PROVE  /\ \A c \in Claims : claim[c] \in ClaimRows
           /\ \A e \in Evidences : evidence[e] \in EvidenceRows /\ EvidenceSound(e)
BY DEF KnowInv, KnowTyped

LEMMA ClaimKeeps ==
    ASSUME KnowInv, UNCHANGED provVars, NEW c \in Claims,
           \/ CreateClaim(c) \/ VerifyClaim(c) \/ WithdrawClaim(c)
           \/ \E fresh \in {"fresh", "due"} : MarkFreshness(c, fresh)
    PROVE  KnowInv' /\ KnowledgeKept
<1>0. claim[c] \in ClaimRows
  BY RowsTyped
<1>1. CASE CreateClaim(c)
  <2> DEFINE r == [claim[c] EXCEPT !.status = "draft"]
  <2>1. r \in ClaimRows /\ ~Once(r.status) /\ ~Once(claim[c].status)
    BY <1>0, <1>1 DEF CreateClaim, Exists, ClaimRows, Once
  <2>2. claim' = [claim EXCEPT ![c] = r]
    BY <1>1 DEF CreateClaim
  <2> HIDE DEF r
  <2> QED BY <1>1, <2>1, <2>2, ClaimMoves DEF CreateClaim
<1>2. CASE VerifyClaim(c)
  <2> DEFINE r == [claim[c] EXCEPT !.status = "verified"]
  <2>1. r \in ClaimRows /\ Once(r.status) /\ Supported(c)
    BY <1>0, <1>2 DEF VerifyClaim, ClaimRows, Once
  <2>2. claim' = [claim EXCEPT ![c] = r]
    BY <1>2 DEF VerifyClaim
  <2> HIDE DEF r
  <2> QED BY <1>2, <2>1, <2>2, ClaimMoves DEF VerifyClaim
<1>3. CASE WithdrawClaim(c)
  <2> DEFINE r == [status |-> "withdrawn", fresh |-> "withdrawn"]
  <2>1. r \in ClaimRows /\ Once(r.status) /\ Once(claim[c].status)
    BY <1>3 DEF WithdrawClaim, ClaimRows, Once
  <2>2. claim' = [claim EXCEPT ![c] = r]
    BY <1>3 DEF WithdrawClaim
  <2> HIDE DEF r
  <2> QED BY <1>3, <2>1, <2>2, ClaimMoves DEF WithdrawClaim
<1>4. ASSUME NEW fresh \in {"fresh", "due"}, MarkFreshness(c, fresh) PROVE KnowInv' /\ KnowledgeKept
  <2> DEFINE r == [claim[c] EXCEPT !.fresh = fresh]
  <2>1. r \in ClaimRows /\ r.status = claim[c].status
    BY <1>0, <1>4 DEF MarkFreshness, ClaimRows
  <2>2. claim' = [claim EXCEPT ![c] = r]
    BY <1>4 DEF MarkFreshness
  <2> HIDE DEF r
  <2> QED BY <1>4, <2>1, <2>2, ClaimMoves DEF MarkFreshness
<1> QED BY <1>1, <1>2, <1>3, <1>4

LEMMA EvidenceKeeps ==
    ASSUME ProvInv, KnowInv, UNCHANGED provVars, NEW e \in Evidences,
           \/ \E c \in Claims \cup {NoClaim} : CreateEvidence(e, c)
           \/ \E c \in Claims : LinkEvidence(c, e)
           \/ \E to \in {"valid", "expired", "revoked"} : EvidenceStep(e, to)
    PROVE  KnowInv' /\ KnowledgeKept
<1>0. /\ evidence[e] \in EvidenceRows /\ EvidenceSound(e) /\ links \subseteq Claims \X Evidences
      /\ evidence \in [Evidences -> EvidenceRows] /\ NoClaim \notin Claims
      /\ RightsOf[e] \in Nat /\ SnapshotOf[e] \in Snapshots /\ Versions' = Versions
      /\ snapshot' = snapshot /\ rights' = rights
  BY RowsTyped, KnowledgeBounds, ProvenanceBounds DEF KnowInv, KnowTyped, provVars, Versions
<1>1. ASSUME NEW c \in Claims \cup {NoClaim}, CreateEvidence(e, c) PROVE KnowInv' /\ KnowledgeKept
  <2> DEFINE r == [status |-> "captured", about |-> c]
  <2>1. r \in EvidenceRows /\ ~Once(evidence[e].status) /\ ~Once(r.status) /\ r.about = c
    BY <1>1 DEF CreateEvidence, EvidenceRows, Once
  <2>2. /\ evidence' = [evidence EXCEPT ![e] = r] /\ evidence'[e] = r
        /\ links' = IF c = NoClaim THEN links ELSE links \cup {<<c, e>>}
        /\ snapshot[SnapshotOf[e]] # "none" /\ RightsOf[e] \in Versions \cup {0}
        /\ UNCHANGED <<entity, claim, conflicts, core, facts>>
    BY <1>0, <1>1 DEF CreateEvidence
  <2> HIDE DEF r
  <2>3. EvidenceSound(e)'
    BY <1>0, <2>1, <2>2 DEF EvidenceSound
  <2>4. links \subseteq links' /\ links' \subseteq Claims \X Evidences
    BY <1>0, <2>2
  <2> QED BY <2>1, <2>2, <2>3, <2>4, EvidenceMoves
<1>2. ASSUME NEW c \in Claims, LinkEvidence(c, e) PROVE KnowInv' /\ KnowledgeKept
  <2> DEFINE r == IF evidence[e].about = NoClaim THEN [evidence[e] EXCEPT !.about = c] ELSE evidence[e]
  <2>1. /\ r \in EvidenceRows /\ r.status = evidence[e].status
        /\ r.about = (IF evidence[e].about = NoClaim THEN c ELSE evidence[e].about)
    BY <1>0 DEF EvidenceRows
  <2>2. /\ evidence' = [evidence EXCEPT ![e] = r] /\ evidence'[e] = r
        /\ links' = links \cup {<<c, e>>}
        /\ UNCHANGED <<entity, claim, conflicts, core, facts>>
    BY <1>0, <1>2 DEF LinkEvidence
  <2> HIDE DEF r
  <2>3. EvidenceSound(e)'
    BY <1>0, <2>1, <2>2 DEF EvidenceSound
  <2>4. links \subseteq links' /\ links' \subseteq Claims \X Evidences
    BY <1>0, <2>2
  <2> QED BY <2>1, <2>2, <2>3, <2>4, EvidenceMoves
<1>3. ASSUME NEW to \in {"valid", "expired", "revoked"}, EvidenceStep(e, to) PROVE KnowInv' /\ KnowledgeKept
  <2> DEFINE r == [evidence[e] EXCEPT !.status = to]
  <2>1. r \in EvidenceRows /\ Once(r.status) /\ r.status # "none" /\ r.about = evidence[e].about
    BY <1>0 DEF EvidenceRows, Once
  <2>2. /\ evidence' = [evidence EXCEPT ![e] = r] /\ evidence'[e] = r
        /\ (evidence[e].status = "captured" /\ MayValidate(e)) \/ evidence[e].status = "valid"
        /\ UNCHANGED <<entity, claim, links, conflicts, core, facts>>
    BY <1>0, <1>3 DEF EvidenceStep
  <2> HIDE DEF r
  <2>3. /\ snapshot[SnapshotOf[e]] \in Settled
        /\ RightsOf[e] # 0 => Once(rights[RightsOf[e]].status)
    BY <1>0, <2>2 DEF EvidenceSound, MayValidate, RightsVerified, Settled, Once
  <2>4. EvidenceSound(e)'
    BY <1>0, <2>1, <2>2, <2>3 DEF EvidenceSound, Once
  <2> QED BY <1>0, <2>1, <2>2, <2>4, EvidenceMoves
<1> QED BY <1>1, <1>2, <1>3

\* A version of the core is added.
LEMMA FactsMove ==
    ASSUME KnowInv, NEW x \in FactRows, facts' = Append(facts, x), FactsSound(x),
           core' \in [status : {"none", "draft", "validated", "stale"}, review : BOOLEAN],
           core'.review <=> x.keys # {},
           \A y \in conflicts' : y.claims \subseteq Claims,
           UNCHANGED <<provVars, entity, claim, evidence, links>>
    PROVE  KnowInv' /\ KnowledgeKept
<1>1. /\ facts' \in Seq(FactRows) /\ DOMAIN facts' = DOMAIN facts \cup {Len(facts')} /\ Len(facts') \notin DOMAIN facts
      /\ facts'[Len(facts')] = x /\ \A n \in DOMAIN facts : facts'[n] = facts[n]
  <2> HIDE DEF FactRows
  <2> QED BY FactsTyped, EntryAdded
<1>2. facts' # <<>>
  BY <1>1, EmptySeq
<1>3. Advances
  BY DEF Advances
<1>4. \A y \in FactRows : FactsSound(y) => FactsSound(y)'
  BY <1>3, FactsStand
<1>5. \A n \in DOMAIN facts' : FactsSound(facts[n])'
  <2> SUFFICES ASSUME NEW n \in DOMAIN facts' PROVE FactsSound(facts[n])'
    OBVIOUS
  <2>1. PICK y \in FactRows : y = facts'[n] /\ FactsSound(y)
    BY <1>1, FactsTyped
  <2>2. FactsSound(y)'
    BY <1>4, <2>1
  <2> QED BY <2>1, <2>2 DEF FactsSound
<1>6. KnowTyped'
  BY <1>1 DEF KnowInv, KnowTyped
<1>7. (\A e \in Evidences : EvidenceSound(e)') /\ (\A c \in Claims : ClaimSound(c)')
  BY DEF KnowInv, EvidenceSound, ClaimSound, provVars, Versions
<1> QED BY <1>1, <1>2, <1>5, <1>6, <1>7 DEF KnowInv, KnowledgeKept

LEMMA CoreKeeps == ASSUME KnowInv, UNCHANGED provVars, CoreNext PROVE KnowInv' /\ KnowledgeKept
<1>0. /\ core.status \in {"none", "draft", "validated", "stale"} /\ \A x \in conflicts : x.claims \subseteq Claims
      /\ Known \subseteq Evidences
  BY DEF KnowInv, KnowTyped, Known
<1>1. ASSUME NEW claims \in SUBSET Claims, NEW given \in SUBSET Evidences, NEW declared \in SUBSET {Claims},
             NEW status \in {"draft", "stale"}, NewFacts(claims, given, declared, status),
             UNCHANGED <<entity, claim, evidence, links>>
      PROVE  KnowInv' /\ KnowledgeKept
  <2> DEFINE groups == ConflictGroups(claims, declared)
             keys == {g.key : g \in groups}
             state == IF groups = {} THEN "draft" ELSE "needs_review"
             x == [claims |-> claims, evidence |-> given, status |-> state, keys |-> keys]
  <2>1. \A g \in groups : g.key \in FactKeys /\ g.claims \subseteq Claims
    BY DEF ConflictGroups, FactKeys
  <2>2. x \in FactRows
    <3>1. keys \subseteq FactKeys /\ claims # {}
      BY <1>1, <2>1 DEF NewFacts
    <3>2. state \in FactStates
      BY DEF FactStates
    <3>3. claims \in (SUBSET Claims) \ {{}}
      BY <3>1
    <3> HIDE DEF groups, keys, state
    <3> QED BY <3>1, <3>2, <3>3 DEF FactRows
  <2>3. groups = {} => Consistent(claims)
    <3> SUFFICES ASSUME NEW c \in claims, NEW d \in claims, ScopeOf[c] = ScopeOf[d], StatementOf[c] # StatementOf[d]
                 PROVE  groups # {}
      BY DEF Consistent
    <3>1. [key |-> {ScopeOf[c]}, claims |-> {b \in claims : ScopeOf[b] = ScopeOf[c]}] \in groups
      BY DEF ConflictGroups
    <3> QED BY <3>1
  <2>4. keys = {} <=> groups = {}
    OBVIOUS
  <2>5. FactsSound(x)
    BY <2>3, <2>4 DEF FactsSound
  <2>6. /\ facts' = Append(facts, x) /\ core' = [status |-> status, review |-> groups # {}]
        /\ conflicts' = conflicts \cup {g \in groups : \A y \in conflicts : y.key # g.key}
    BY <1>1 DEF NewFacts, AddFacts, WithConflicts
  <2>7. x.keys = keys
    OBVIOUS
  <2>8. /\ core' \in [status : {"none", "draft", "validated", "stale"}, review : BOOLEAN]
        /\ core'.review <=> x.keys # {}
    BY <2>4, <2>6, <2>7
  <2>9. \A y \in conflicts' : y.claims \subseteq Claims
    BY <1>0, <2>1, <2>6
  <2>10. facts' = Append(facts, x)
    BY <2>6
  <2> HIDE DEF x
  <2> QED BY <1>1, <2>2, <2>5, <2>8, <2>9, <2>10, FactsMove
<1>2. ASSUME NEW claims \in SUBSET Claims, NEW given \in SUBSET Known, NEW declared \in SUBSET {Claims},
             CreateCore(claims, given, declared) \/ RefreshCore(claims, given, declared)
      PROVE  KnowInv' /\ KnowledgeKept
  <2>1. Collected(claims, given) \subseteq Evidences
    BY <1>0 DEF Collected, Related
  <2>2. CASE CreateCore(claims, given, declared)
    BY <1>0, <1>1, <2>2 DEF CreateCore
  <2>3. CASE RefreshCore(claims, given, declared)
    BY <1>1, <2>1, <2>3 DEF RefreshCore
  <2> QED BY <1>2, <2>2, <2>3
<1>3. CASE ValidateCore
  <2>1. PICK now \in FactRows : now = facts[Len(facts)] /\ FactsSound(now)
    BY <1>3, FactsTyped DEF ValidateCore
  <2> DEFINE x == [claims |-> now.claims, evidence |-> now.evidence, status |-> "verified", keys |-> {}]
  <2>2. /\ ContentsValid(now) /\ facts' = Append(facts, x)
        /\ core' = [status |-> "validated", review |-> FALSE]
        /\ UNCHANGED <<entity, claim, evidence, links, conflicts>>
    BY <1>3, <2>1 DEF ValidateCore, AddFacts
  <2>3. x \in FactRows /\ now.claims \subseteq Claims /\ now.evidence \subseteq Evidences
    BY <2>1 DEF FactRows, FactStates
  <2>4. Consistent(now.claims)
    BY <2>1, <2>2 DEF ContentsValid, FactsSound
  <2>5. ASSUME NEW c \in now.claims
        PROVE  Once(claim[c].status) /\ \E e \in now.evidence : RightsOf[e] # 0 /\ Once(evidence[e].status) /\ <<c, e>> \in links
    <3>1. claim[c].status = "verified"
      BY <2>2 DEF ContentsValid
    <3>2. PICK e \in Related(c) \cap now.evidence : Backs(e)
      BY <2>2 DEF ContentsValid
    <3>3. <<c, e>> \in links
      BY <2>3, <3>2, RowsTyped DEF Related, EvidenceSound
    <3>4. RightsOf[e] # 0 /\ Once(evidence[e].status)
      BY <3>2 DEF Backs, Once
    <3> QED BY <3>1, <3>2, <3>3, <3>4 DEF Once
  <2>6. FactsSound(x)
    BY <2>4, <2>5 DEF FactsSound
  <2>7. /\ core' \in [status : {"none", "draft", "validated", "stale"}, review : BOOLEAN]
        /\ core'.review <=> x.keys # {}
    BY <2>2
  <2>8. \A y \in conflicts' : y.claims \subseteq Claims
    BY <1>0, <2>2
  <2> HIDE DEF x
  <2> QED BY <2>2, <2>3, <2>6, <2>7, <2>8, FactsMove
<1> QED BY <1>2, <1>3 DEF CoreNext

LEMMA KnowKeeps == ASSUME ProvInv, KnowInv, UNCHANGED provVars, KnowNext PROVE KnowInv' /\ KnowledgeKept
<1>1. CASE EntityStep
  <2>1. KnowTyped' /\ Advances
    BY <1>1 DEF EntityStep, KnowInv, KnowTyped, Advances
  <2>2. \A e \in Evidences : EvidenceSound(e)'
    BY <1>1 DEF EntityStep, KnowInv, EvidenceSound, provVars, Versions
  <2> QED BY <1>1, <2>1, <2>2, KnowAdvances DEF EntityStep
<1> QED BY <1>1, ClaimKeeps, EvidenceKeeps, CoreKeeps DEF KnowNext, ClaimNext

-----------------------------------------------------------------------------
(* Steps of content *)

\* What is queued is held by whom its status says, and once per reason while open.
OwnersSound == \A i \in DOMAIN queue : queue[i].owner # Nobody <=> queue[i].status = "claimed"
OpenOnce == \A i, j \in DOMAIN queue :
    /\ queue[i].edition = queue[j].edition /\ queue[i].reason = queue[j].reason
    /\ queue[i].status \in Open /\ queue[j].status \in Open
    => i = j
QueueSound == queue \in Seq(QueueRows) /\ OwnersSound /\ OpenOnce

\* No item leaves the queue, or is another one's.
ItemsStay == \A i \in DOMAIN queue :
    i \in DOMAIN queue' /\ queue'[i].edition = queue[i].edition /\ queue'[i].reason = queue[i].reason

LEMMA CanonStarts == CanonInit => CanonInv
<1> SUFFICES ASSUME CanonInit PROVE CanonInv
  OBVIOUS
<1>1. \A S : <<>> \in Seq(S) /\ DOMAIN <<>> = {} /\ Len(<<>>) = 0
  BY EmptySeq
<1>2. /\ editions = <<>> /\ editions \in Seq(EditionRows) /\ Editions = {} /\ Len(editions) = 0
      /\ queue \in Seq(QueueRows) /\ DOMAIN queue = {}
  BY <1>1 DEF CanonInit, Editions
<1>3. CanonTyped
  BY <1>2, CanonicalBounds DEF CanonInit, CanonTyped, NoCheck
<1>4. RefreshQueued
  BY <1>2 DEF CanonInit, RefreshQueued
<1> QED BY <1>2, <1>3, <1>4 DEF CanonInit, CanonInv, NoCheck

LEMMA EditionsTyped ==
    ASSUME CanonInv
    PROVE  /\ editions \in Seq(EditionRows) /\ Editions = 1 .. Len(editions) /\ Len(editions) \in Nat
           /\ Editions \subseteq 1 .. MaxEditions
           /\ \A n \in Editions : editions[n] \in EditionRows /\ EditionSound(editions[n])
           /\ QueueSound /\ \A i \in DOMAIN queue : queue[i] \in QueueRows /\ queue[i].edition \in Editions
<1>1. editions \in Seq(EditionRows) /\ Len(editions) <= MaxEditions /\ MaxEditions \in Nat /\ queue \in Seq(QueueRows)
  BY CanonicalBounds DEF CanonInv, CanonTyped
<1>2. Editions = 1 .. Len(editions) /\ Len(editions) \in Nat /\ DOMAIN queue = 1 .. Len(queue)
  BY <1>1, LenProperties DEF Editions
<1>3. \A n \in Editions : editions[n] \in EditionRows
  BY <1>1, <1>2, ElementOfSeq
<1>4. \A i \in DOMAIN queue : queue[i] \in QueueRows
  BY <1>1, <1>2, ElementOfSeq
<1>5. QueueSound
  BY <1>1 DEF CanonInv, CanonTyped, RefreshQueued, QueueSound, OwnersSound, OpenOnce
<1>6. (\A n \in Editions : EditionSound(editions[n])) /\ \A i \in DOMAIN queue : queue[i].edition \in Editions
  BY DEF CanonInv, CanonTyped
<1>7. Editions \subseteq 1 .. MaxEditions
  BY <1>1, <1>2
<1> HIDE DEF QueueRows, EditionRows
<1> QED BY <1>1, <1>2, <1>3, <1>4, <1>5, <1>6, <1>7

\* What a kept version rests on stays, whatever sources and knowledge do.
LEMMA EditionStands ==
    ASSUME GroundKept, KnowledgeKept, NEW x \in EditionRows, EditionSound(x) PROVE EditionSound(x)'
<1>1. /\ x.facts \in DOMAIN facts' \cup {0} /\ x.rights \subseteq Versions'
      /\ x.facts # 0 => facts'[x.facts].status = "verified"
  BY DEF EditionSound, GroundKept, KnowledgeKept, Versions
<1>2. x.evidence \subseteq Evidences
  BY DEF EditionRows
<1>3. x.high => /\ Once(claim'[x.claim].status) /\ \A v \in x.rights : Once(rights'[v].status)
                /\ \A e \in x.evidence : snapshot'[SnapshotOf[e]] # "none"
  BY <1>2, KnowledgeBounds DEF EditionSound, GroundKept, KnowledgeKept
<1> QED BY <1>1, <1>3 DEF EditionSound

LEMMA CanonStays ==
    ASSUME CanonInv, GroundKept, KnowledgeKept, UNCHANGED canonVars PROVE CanonInv'
<1>1. CanonTyped' /\ RefreshQueued'
  BY DEF CanonInv, CanonTyped, RefreshQueued, Editions, canonVars
<1>2. \A n \in Editions' : EditionSound(editions[n])'
  <2>1. \A n \in Editions : EditionSound(editions[n])'
    BY EditionsTyped, EditionStands DEF canonVars
  <2> QED BY <2>1 DEF Editions, canonVars
<1> QED BY <1>1, <1>2 DEF CanonInv, Editions, canonVars

\* Steps that leave the versions alone.
LEMMA ItemsMove ==
    ASSUME CanonInv, UNCHANGED <<provVars, knowVars, editions>>, QueueSound', ItemsStay,
           brief' \in {"draft", "locked", "approved"},
           content' \in [status : {"none", "draft", "in_review"}, current : Nat],
           content'.status = "none" => content.status = "none", content'.current = content.current,
           checks' \in [1 .. MaxEditions -> [at : Nat, found : SUBSET (Reasons \cup {"fresh"})]],
           \A i \in DOMAIN queue' : queue'[i].edition \in Editions,
           \A n \in 1 .. MaxEditions : \A r \in checks'[n].found :
              \/ r \in checks[n].found
              \/ n \in Editions /\ r = "fresh"
              \/ n \in Editions /\ \E i \in DOMAIN queue' : queue'[i].edition = n /\ queue'[i].reason = r
    PROVE  CanonInv'
<1>1. CanonTyped'
  BY DEF CanonInv, CanonTyped, QueueSound, OwnersSound, Editions
<1>2. \A n \in Editions' : EditionSound(editions[n])'
  BY DEF CanonInv, EditionSound, provVars, knowVars, Versions, Editions
<1>3. \A n \in 1 .. MaxEditions \ Editions' : checks'[n].found = {}
  BY DEF CanonInv, Editions
<1>4. RefreshQueued'
  <2>1. ASSUME NEW n \in Editions, NEW r \in Reasons, r \in checks'[n].found \/ r = editions[n].freshness
        PROVE  \E i \in DOMAIN queue' : queue'[i].edition = n /\ queue'[i].reason = r
    <3>1. r # "fresh" /\ n \in 1 .. MaxEditions
      BY EditionsTyped DEF Reasons
    <3>2. CASE r \in checks[n].found \/ r = editions[n].freshness
      BY <3>2 DEF CanonInv, RefreshQueued, ItemsStay
    <3> QED BY <2>1, <3>1, <3>2
  <2>2. OpenOnce' /\ content'.current = Len(editions')
    BY DEF CanonInv, RefreshQueued, QueueSound
  <2> QED BY <2>1, <2>2 DEF RefreshQueued, Editions, OpenOnce
<1> QED BY <1>1, <1>2, <1>3, <1>4 DEF CanonInv, Editions

\* An item is queued unless one is open for the version and the reason.
LEMMA Enqueues ==
    ASSUME CanonInv, NEW n \in Nat, NEW reason \in Reasons, NEW available \in Nat, Enqueue(n, reason, available)
    PROVE  /\ QueueSound' /\ ItemsStay
           /\ \A i \in DOMAIN queue' : queue'[i].edition \in Editions \cup {n}
           /\ \E i \in DOMAIN queue' : queue'[i].edition = n /\ queue'[i].reason = reason
<1>0. QueueSound /\ \A i \in DOMAIN queue : queue[i] \in QueueRows /\ queue[i].edition \in Editions
  BY EditionsTyped
<1>1. CASE \E i \in DOMAIN queue : queue[i].edition = n /\ queue[i].reason = reason /\ queue[i].status \in Open
  BY <1>0, <1>1 DEF Enqueue, QueueSound, OwnersSound, OpenOnce, ItemsStay
<1>2. CASE ~ \E i \in DOMAIN queue : queue[i].edition = n /\ queue[i].reason = reason /\ queue[i].status \in Open
  <2> DEFINE x == [edition |-> n, reason |-> reason, status |-> "queued", attempts |-> 0,
                   available |-> available, owner |-> Nobody, until |-> 0]
             k == Len(queue) + 1
  <2>1. /\ x \in QueueRows /\ x.edition = n /\ x.reason = reason /\ x.status = "queued" /\ x.owner = Nobody
    BY DEF QueueRows, Open
  <2>2. queue' = Append(queue, x)
    BY <1>2 DEF Enqueue
  <2> HIDE DEF x
  <2>3. /\ queue' \in Seq(QueueRows) /\ DOMAIN queue' = DOMAIN queue \cup {k} /\ k \notin DOMAIN queue
        /\ queue'[k] = x /\ \A i \in DOMAIN queue : queue'[i] = queue[i]
    <3> HIDE DEF QueueRows
    <3> QED BY <1>0, <2>1, <2>2, EntryAdded DEF QueueSound
  <2> HIDE DEF k
  <2>4. OwnersSound'
    BY <1>0, <2>1, <2>3 DEF QueueSound, OwnersSound
  <2>5. OpenOnce'
    BY <1>0, <1>2, <2>1, <2>3 DEF QueueSound, OpenOnce
  <2> QED BY <1>0, <2>1, <2>3, <2>4, <2>5 DEF QueueSound, ItemsStay
<1> QED BY <1>1, <1>2

\* A version that is kept, and what it is bound to.
LEMMA BoundSound ==
    ASSUME ProvInv, KnowInv, NEW t \in Texts, NEW f \in DOMAIN facts \cup {0},
           NEW freshness \in GivenFreshness, NEW expires \in Expiries,
           MayBind(BindingOf[t]), FactsUsable(f)
    PROVE  LET x == NewEdition(t, f, freshness, expires)
           IN x \in EditionRows /\ EditionSound(x) /\ x.freshness = freshness
<1> DEFINE b == BindingOf[t]
           kept == Kept(b)
           bound == BoundRights(b)
           x == [text |-> t, claim |-> b.claim, high |-> b.high, evidence |-> kept,
                 rights |-> bound, facts |-> f, freshness |-> freshness, expires |-> expires]
<1>1. b.claim \in Claims \cup {NoClaim} /\ b.high \in BOOLEAN /\ b.evidence \subseteq Evidences /\ b.rights \subseteq Nat
  BY CanonicalBounds
<1> HIDE DEF b
<1>2. \A e \in kept : /\ e \in Evidences /\ evidence[e].status \in {"captured", "valid"}
                      /\ snapshot[SnapshotOf[e]] # "none" /\ RightsOf[e] \in Versions \cup {0}
  BY <1>1, RowsTyped DEF Kept, EvidenceFor, EvidenceSound
<1>3. bound \subseteq Versions /\ \A e \in kept : RightsOf[e] \in bound \cup {0}
  BY <1>2 DEF BoundRights, MayBind, b
<1>4. bound \subseteq Nat /\ f \in Nat
  BY <1>3, VersionsTyped, FactsTyped
<1>5. b.high => /\ b.claim \in Claims /\ Once(claim[b.claim].status) /\ kept # {} /\ bound # {}
                /\ \A v \in bound : Once(rights[v].status)
  BY <1>1 DEF MayBind, RightsCleared, RightsVerified, Once, b
<1>6. f # 0 => facts[f].status = "verified"
  BY DEF FactsUsable
<1>7. x.claim = b.claim /\ x.high = b.high /\ x.evidence = kept /\ x.rights = bound /\ x.facts = f
      /\ x.freshness = freshness
  OBVIOUS
<1> HIDE DEF kept, bound
<1>8. x \in EditionRows
  BY <1>1, <1>2, <1>4 DEF EditionRows
<1> HIDE DEF x
<1>9. EditionSound(x)
  BY <1>2, <1>3, <1>5, <1>6, <1>7 DEF EditionSound
<1> QED BY <1>7, <1>8, <1>9 DEF NewEdition, x, kept, bound, b

\* A version is kept, and if it is not fresh its refresh is queued.
LEMMA EditionMoves ==
    ASSUME CanonInv, UNCHANGED <<provVars, knowVars, brief, checks>>, NEW x \in EditionRows, EditionSound(x),
           Len(editions) < MaxEditions, editions' = Append(editions, x),
           IF x.freshness = "fresh" THEN UNCHANGED queue ELSE Enqueue(Len(editions'), x.freshness, 0),
           content' \in [status : {"draft", "in_review"}, current : {Len(editions')}]
    PROVE  CanonInv'
<1> DEFINE n == Len(editions) + 1
<1>1. /\ editions' \in Seq(EditionRows) /\ Len(editions') = n /\ DOMAIN editions' = Editions \cup {n} /\ n \notin Editions
      /\ Len(editions) \in Nat /\ editions'[n] = x /\ \A m \in Editions : editions'[m] = editions[m]
  <2> HIDE DEF EditionRows
  <2> QED BY EditionsTyped, EntryAdded DEF Editions
<1>2. n \in 1 .. MaxEditions /\ n <= MaxEditions /\ n \in Nat
  BY <1>1, CanonicalBounds
<1> HIDE DEF n
<1>3. x.freshness # "fresh" => x.freshness \in Reasons
  BY CanonicalBounds DEF EditionRows
<1>4. /\ QueueSound' /\ ItemsStay
      /\ \A i \in DOMAIN queue' : queue'[i].edition \in Editions \cup {n}
      /\ x.freshness # "fresh" => \E i \in DOMAIN queue' : queue'[i].edition = n /\ queue'[i].reason = x.freshness
  <2>1. CASE x.freshness = "fresh"
    BY <2>1, EditionsTyped DEF QueueSound, OwnersSound, OpenOnce, ItemsStay
  <2>2. CASE x.freshness # "fresh"
    BY <1>1, <1>2, <1>3, <2>2, Enqueues
  <2> QED BY <2>1, <2>2
<1>5. content' \in [status : {"none", "draft", "in_review"}, current : Nat] /\ content'.status # "none" /\ content'.current = n
  BY <1>1, <1>2
<1>6. CanonTyped'
  BY <1>1, <1>2, <1>4, <1>5 DEF CanonInv, CanonTyped, QueueSound, OwnersSound, Editions
<1>7. \A m \in Editions' : EditionSound(editions'[m])
  BY <1>1, EditionsTyped DEF Editions
<1>8. \A m \in Editions' : EditionSound(editions[m])'
  BY <1>7 DEF EditionSound, provVars, knowVars, Versions
<1>9. checks[n].found = {}
  BY <1>1, <1>2 DEF CanonInv
<1>10. \A m \in 1 .. MaxEditions \ Editions' : checks'[m].found = {}
  BY <1>1 DEF CanonInv, Editions
<1>11. RefreshQueued'
  <2>1. ASSUME NEW m \in Editions', NEW r \in Reasons, r \in checks'[m].found \/ r = editions'[m].freshness
        PROVE  \E i \in DOMAIN queue' : queue'[i].edition = m /\ queue'[i].reason = r
    <3>1. CASE m \in Editions
      BY <1>1, <1>4, <2>1, <3>1 DEF CanonInv, RefreshQueued, ItemsStay
    <3>2. CASE m = n
      BY <1>1, <1>4, <1>9, <2>1, <3>2 DEF Reasons
    <3> QED BY <1>1, <3>1, <3>2 DEF Editions
  <2> QED BY <1>1, <1>4, <1>5, <2>1 DEF RefreshQueued, QueueSound, OpenOnce
<1> QED BY <1>5, <1>6, <1>8, <1>10, <1>11 DEF CanonInv

LEMMA EditionKeeps ==
    ASSUME ProvInv, KnowInv, CanonInv, UNCHANGED <<provVars, knowVars>>, EditionNext PROVE CanonInv'
<1>0. /\ content \in [status : {"none", "draft", "in_review"}, current : Nat] /\ brief \in {"draft", "locked", "approved"}
      /\ checks \in [1 .. MaxEditions -> [at : Nat, found : SUBSET (Reasons \cup {"fresh"})]]
      /\ QueueSound /\ content.current = Len(editions) /\ (content.status = "none" => editions = <<>>)
      /\ \A i \in DOMAIN queue : queue[i].edition \in Editions
  BY EditionsTyped DEF CanonInv, CanonTyped, RefreshQueued
<1>1. ASSUME UNCHANGED <<editions, checks, queue>>, brief' \in {"draft", "locked", "approved"},
             content' \in [status : {"none", "draft", "in_review"}, current : Nat],
             content'.status = "none" => content.status = "none", content'.current = content.current
      PROVE  CanonInv'
  <2>1. QueueSound' /\ ItemsStay
    BY <1>0, <1>1 DEF QueueSound, OwnersSound, OpenOnce, ItemsStay
  <2>2. \A n \in 1 .. MaxEditions : \A r \in checks'[n].found : r \in checks[n].found
    BY <1>1
  <2> QED BY <1>0, <1>1, <2>1, <2>2, ItemsMove
<1>2. ASSUME NEW to \in {"draft", "locked", "approved"}, MoveBrief(to) PROVE CanonInv'
  BY <1>0, <1>1, <1>2 DEF MoveBrief
<1>3. CASE CreateContent
  <2>1. Len(editions) = 0 /\ content'.current = 0 /\ content'.status = "draft"
    BY <1>0, <1>3, EmptySeq DEF CreateContent
  <2>2. content' \in [status : {"none", "draft", "in_review"}, current : Nat] /\ brief' = brief
    BY <1>3 DEF CreateContent
  <2> QED BY <1>0, <1>1, <1>3, <2>1, <2>2 DEF CreateContent
<1>4. CASE SubmitReview
  <2>1. /\ content' \in [status : {"none", "draft", "in_review"}, current : Nat] /\ content'.status = "in_review"
        /\ content'.current = content.current
    BY <1>0, <1>4 DEF SubmitReview
  <2> QED BY <1>0, <1>1, <1>4, <2>1 DEF SubmitReview
<1>5. ASSUME NEW t \in Texts, NEW f \in DOMAIN facts \cup {0}, NEW freshness \in GivenFreshness, NEW expires \in Expiries,
             CreateWithVersion(t, f, freshness, expires) \/ CreateVersion(t, f, freshness, expires)
      PROVE  CanonInv'
  <2>1. AddEdition(t, f, freshness, expires)
    BY <1>5 DEF CreateWithVersion, CreateVersion
  <2>2. PICK x \in EditionRows : /\ EditionSound(x) /\ x.freshness = freshness /\ editions' = Append(editions, x)
                                 /\ Len(editions) < MaxEditions
    BY <2>1, BoundSound DEF AddEdition
  <2>3. IF x.freshness = "fresh" THEN UNCHANGED queue ELSE Enqueue(Len(editions'), x.freshness, 0)
    BY <2>1, <2>2 DEF AddEdition
  <2>4. Len(editions') = Len(editions) + 1
    <3> HIDE DEF EditionRows
    <3> QED BY <2>2, EditionsTyped, EntryAdded
  <2>5. content' \in [status : {"draft", "in_review"}, current : {Len(editions')}]
    <3>1. CASE CreateWithVersion(t, f, freshness, expires)
      BY <1>0, <2>4, <3>1, EmptySeq DEF CreateWithVersion
    <3>2. CASE CreateVersion(t, f, freshness, expires)
      BY <1>0, <3>2 DEF CreateVersion
    <3> QED BY <1>5, <3>1, <3>2
  <2>6. UNCHANGED <<brief, checks>>
    BY <2>1 DEF AddEdition
  <2> QED BY <2>2, <2>3, <2>5, <2>6, EditionMoves
<1> QED BY <1>2, <1>3, <1>4, <1>5 DEF EditionNext

\* What the checks of one date found, and no more.
LEMMA LatestTyped ==
    ASSUME NEW x \in [at : Nat, found : SUBSET (Reasons \cup {"fresh"})], NEW at \in Nat,
           NEW found \in Reasons \cup {"fresh"}
    PROVE  /\ LatestCheck(x, at, found) \in [at : Nat, found : SUBSET (Reasons \cup {"fresh"})]
           /\ LatestCheck(x, at, found).found \subseteq x.found \cup {found}
BY DEF LatestCheck

LEMMA ItemWritten ==
    ASSUME NEW x \in QueueRows, NEW w \in Refreshers, NEW at \in Nat
    PROVE  /\ ClaimedBy(x, w, at) \in QueueRows /\ ClaimedBy(x, w, at).status = "claimed" /\ ClaimedBy(x, w, at).owner = w
           /\ ClaimedBy(x, w, at).edition = x.edition /\ ClaimedBy(x, w, at).reason = x.reason
           /\ Completed(x) \in QueueRows /\ Completed(x).status = "completed" /\ Completed(x).owner = Nobody
           /\ Completed(x).edition = x.edition /\ Completed(x).reason = x.reason
<1>0. \A y \in QueueRows, k, until \in Nat :
         LET e == [y EXCEPT !.status = "claimed", !.attempts = k, !.owner = w, !.until = until]
         IN e \in QueueRows /\ e.status = "claimed" /\ e.owner = w
  BY DEF QueueRows, Open
<1>1. \A y \in QueueRows : LET e == ClaimedBy(y, w, at)
                          IN e \in QueueRows /\ e.status = "claimed" /\ e.owner = w
  <2> SUFFICES ASSUME NEW y \in QueueRows
               PROVE  LET e == ClaimedBy(y, w, at)
                      IN e \in QueueRows /\ e.status = "claimed" /\ e.owner = w
    OBVIOUS
  <2>1. y.attempts \in Nat
    BY DEF QueueRows
  <2>2. y.attempts + 1 \in Nat /\ at + 1 \in Nat
    BY <2>1
  <2> HIDE DEF QueueRows
  <2> QED BY <1>0, <2>2 DEF ClaimedBy
<1>2. \A y \in QueueRows : LET e == ClaimedBy(y, w, at)
                          IN e.edition = y.edition /\ e.reason = y.reason
  BY DEF ClaimedBy, QueueRows
<1>3. \A y \in QueueRows : LET e == Completed(y)
                          IN e \in QueueRows /\ e.status = "completed" /\ e.owner = Nobody
  BY DEF Completed, QueueRows, Open
<1>4. \A y \in QueueRows : LET e == Completed(y)
                          IN e.edition = y.edition /\ e.reason = y.reason
  BY DEF Completed, QueueRows
<1> HIDE DEF QueueRows
<1> QED BY <1>1, <1>2, <1>3, <1>4

\* One item is written: it stays the version's and the reason's, and is not opened again.
LEMMA ItemMoves ==
    ASSUME CanonInv, NEW i \in DOMAIN queue, NEW x \in QueueRows, queue' = [queue EXCEPT ![i] = x],
           x.edition = queue[i].edition, x.reason = queue[i].reason,
           x.owner # Nobody <=> x.status = "claimed", x.status \in Open => queue[i].status \in Open,
           UNCHANGED <<provVars, knowVars, brief, content, editions, checks>>
    PROVE  CanonInv'
<1>0. QueueSound /\ \A j \in DOMAIN queue : queue[j].edition \in Editions
  BY EditionsTyped
<1>1. /\ queue' \in Seq(QueueRows) /\ DOMAIN queue' = DOMAIN queue /\ queue'[i] = x
      /\ \A j \in DOMAIN queue \ {i} : queue'[j] = queue[j]
  <2> HIDE DEF QueueRows
  <2> QED BY <1>0, EntryWritten DEF QueueSound
<1>2. OwnersSound'
  BY <1>0, <1>1 DEF QueueSound, OwnersSound
<1>3. \A j \in DOMAIN queue : /\ queue'[j].edition = queue[j].edition /\ queue'[j].reason = queue[j].reason
                              /\ queue'[j].status \in Open => queue[j].status \in Open
  BY <1>1
<1>4. OpenOnce'
  BY <1>0, <1>1, <1>3 DEF QueueSound, OpenOnce
<1>5. ItemsStay /\ \A j \in DOMAIN queue' : queue'[j].edition \in Editions
  BY <1>0, <1>1, <1>3 DEF ItemsStay
<1>6. /\ content' \in [status : {"none", "draft", "in_review"}, current : Nat] /\ brief' \in {"draft", "locked", "approved"}
      /\ checks' \in [1 .. MaxEditions -> [at : Nat, found : SUBSET (Reasons \cup {"fresh"})]]
      /\ content' = content /\ checks' = checks
  BY DEF CanonInv, CanonTyped
<1> QED BY <1>1, <1>2, <1>4, <1>5, <1>6, ItemsMove DEF QueueSound

LEMMA AssessKeeps ==
    ASSUME CanonInv, UNCHANGED <<provVars, knowVars>>, NEW n \in Editions, NEW at \in CanonTimes,
           NEW force \in BOOLEAN, NEW conflict \in BOOLEAN, AssessFreshness(n, at, force, conflict)
    PROVE  CanonInv'
<1> DEFINE found == Assessed(n, at, force, conflict)
<1>1. found \in Reasons \cup {"fresh"}
  BY DEF Assessed, Reasons
<1>2. /\ checks' = [checks EXCEPT ![n] = LatestCheck(@, at, found)]
      /\ IF found = "fresh" THEN UNCHANGED queue ELSE Enqueue(n, found, 0)
      /\ UNCHANGED <<brief, content, editions>>
  BY DEF AssessFreshness
<1> HIDE DEF found
<1>3. /\ content \in [status : {"none", "draft", "in_review"}, current : Nat] /\ brief \in {"draft", "locked", "approved"}
      /\ checks \in [1 .. MaxEditions -> [at : Nat, found : SUBSET (Reasons \cup {"fresh"})]]
      /\ n \in 1 .. MaxEditions /\ n \in Nat /\ at \in Nat
      /\ QueueSound /\ \A j \in DOMAIN queue : queue[j].edition \in Editions
  BY EditionsTyped, CanonicalBounds DEF CanonInv, CanonTyped
<1>4. /\ QueueSound' /\ ItemsStay /\ \A i \in DOMAIN queue' : queue'[i].edition \in Editions
      /\ found # "fresh" => \E i \in DOMAIN queue' : queue'[i].edition = n /\ queue'[i].reason = found
  <2>1. CASE found = "fresh"
    BY <1>2, <1>3, <2>1 DEF QueueSound, OwnersSound, OpenOnce, ItemsStay
  <2>2. CASE found # "fresh"
    BY <1>1, <1>2, <1>3, <2>2, Enqueues
  <2> QED BY <2>1, <2>2
<1>5. /\ checks[n] \in [at : Nat, found : SUBSET (Reasons \cup {"fresh"})]
      /\ checks'[n] = LatestCheck(checks[n], at, found) /\ \A m \in 1 .. MaxEditions \ {n} : checks'[m] = checks[m]
  BY <1>2, <1>3
<1>6. /\ LatestCheck(checks[n], at, found) \in [at : Nat, found : SUBSET (Reasons \cup {"fresh"})]
      /\ LatestCheck(checks[n], at, found).found \subseteq checks[n].found \cup {found}
  BY <1>1, <1>3, <1>5, LatestTyped
<1>7. checks' \in [1 .. MaxEditions -> [at : Nat, found : SUBSET (Reasons \cup {"fresh"})]]
  BY <1>2, <1>3, <1>6
<1>8. \A m \in 1 .. MaxEditions : \A r \in checks'[m].found :
         \/ r \in checks[m].found
         \/ m \in Editions /\ r = "fresh"
         \/ m \in Editions /\ \E i \in DOMAIN queue' : queue'[i].edition = m /\ queue'[i].reason = r
  BY <1>4, <1>5, <1>6
<1> QED BY <1>2, <1>3, <1>4, <1>7, <1>8, ItemsMove

LEMMA RefreshKeeps ==
    ASSUME CanonInv, UNCHANGED <<provVars, knowVars>>, RefreshNext PROVE CanonInv'
<1>0. /\ content \in [status : {"none", "draft", "in_review"}, current : Nat] /\ brief \in {"draft", "locked", "approved"}
      /\ checks \in [1 .. MaxEditions -> [at : Nat, found : SUBSET (Reasons \cup {"fresh"})]]
  BY DEF CanonInv, CanonTyped
<1>1. ASSUME NEW n \in Editions, NEW available \in CanonTimes, EnqueueRefresh(n, "manual", available) PROVE CanonInv'
  <2>1. n \in Nat /\ available \in Nat /\ "manual" \in Reasons
    BY EditionsTyped, CanonicalBounds DEF Reasons
  <2>2. /\ QueueSound' /\ ItemsStay /\ \A i \in DOMAIN queue' : queue'[i].edition \in Editions
    BY <1>1, <2>1, Enqueues DEF EnqueueRefresh
  <2>3. brief' = brief /\ content' = content /\ editions' = editions /\ checks' = checks
    BY <1>1 DEF EnqueueRefresh
  <2> QED BY <1>0, <2>2, <2>3, ItemsMove
<1>2. ASSUME NEW i \in DOMAIN queue, NEW w \in Refreshers, NEW at \in CanonTimes, ClaimRefresh(i, w, at) PROVE CanonInv'
  <2> DEFINE x == ClaimedBy(queue[i], w, at)
  <2>1. queue[i] \in QueueRows /\ at \in Nat /\ w # Nobody
    BY EditionsTyped, CanonicalBounds
  <2>2. x \in QueueRows /\ x.status = "claimed" /\ x.owner = w /\ x.edition = queue[i].edition /\ x.reason = queue[i].reason
    BY <2>1, ItemWritten
  <2>3. queue' = [queue EXCEPT ![i] = x] /\ queue[i].status \in Open /\ UNCHANGED <<brief, content, editions, checks>>
    BY <1>2 DEF ClaimRefresh, RefreshClaimable
  <2> HIDE DEF x
  <2> QED BY <2>1, <2>2, <2>3, ItemMoves
<1>3. ASSUME NEW i \in DOMAIN queue, NEW w \in Refreshers, NEW at \in CanonTimes, NEW attempts \in 0 .. 2,
             CompleteRefresh(i, w, at, attempts)
      PROVE  CanonInv'
  <2> DEFINE x == Completed(queue[i])
  <2>1. queue[i] \in QueueRows /\ at \in Nat
    BY EditionsTyped, CanonicalBounds
  <2>2. /\ x \in QueueRows /\ x.status = "completed" /\ x.owner = Nobody
        /\ x.edition = queue[i].edition /\ x.reason = queue[i].reason
    BY <2>1, ItemWritten
  <2>3. queue' = [queue EXCEPT ![i] = x] /\ UNCHANGED <<brief, content, editions, checks>>
    BY <1>3 DEF CompleteRefresh
  <2>4. x.status \notin Open /\ x.status # "claimed"
    BY <2>2 DEF Open
  <2> HIDE DEF x
  <2> QED BY <2>2, <2>3, <2>4, ItemMoves
<1> QED BY <1>1, <1>2, <1>3, AssessKeeps DEF RefreshNext

-----------------------------------------------------------------------------
(* The pipeline *)

LEMMA PipelineKeeps ==
    PipelineInv /\ [PipelineNext]_<<provVars, knowVars, canonVars>> => PipelineInv'
<1> SUFFICES ASSUME PipelineInv, [PipelineNext]_<<provVars, knowVars, canonVars>> PROVE PipelineInv'
  OBVIOUS
<1>0. ProvInv /\ KnowInv /\ CanonInv
  BY DEF PipelineInv
<1>1. UNCHANGED provVars => ProvInv' /\ GroundKept
  BY <1>0 DEF provVars, ProvInv, ProvTyped, FreezeSound, RightsHold, FrozenBlocked, RecordPoints, GroundKept, Versions
<1>2. GroundKept /\ UNCHANGED knowVars => KnowInv' /\ KnowledgeKept
  BY <1>0, KnowStays
<1>3. CASE ProvNext /\ UNCHANGED <<knowVars, canonVars>>
  BY <1>0, <1>2, <1>3, ProvKeeps, CanonStays DEF PipelineInv
<1>4. CASE KnowNext /\ UNCHANGED <<provVars, canonVars>>
  BY <1>0, <1>1, <1>4, KnowKeeps, CanonStays DEF PipelineInv
<1>5. CASE (EditionNext \/ RefreshNext) /\ UNCHANGED <<provVars, knowVars>>
  BY <1>0, <1>1, <1>2, <1>5, EditionKeeps, RefreshKeeps DEF PipelineInv
<1>6. CASE UNCHANGED <<provVars, knowVars, canonVars>>
  BY <1>0, <1>1, <1>2, <1>6, CanonStays DEF PipelineInv
<1> QED BY <1>3, <1>4, <1>5, <1>6 DEF PipelineNext

(***************************************************************************)
(* The strengthened invariant of sources, knowledge and content together:  *)
(* what content is bound to was cleared when it was kept, and what it was  *)
(* cleared by is never taken back, only ended.                             *)
(***************************************************************************)
THEOREM PipelineSound == PipelineSpec => []PipelineInv
<1>1. PipelineInit => PipelineInv
  BY ProvStarts, KnowStarts, CanonStarts DEF PipelineInit, PipelineInv
<1> QED BY <1>1, PipelineKeeps, PTL DEF PipelineSpec

(***************************************************************************)
(* Every table keeps its type: what a row names exists (the current        *)
(* version of the rights, the facts and rights of a version of content,    *)
(* the version of a queued refresh).                                       *)
(***************************************************************************)
THEOREM PipelineTyped == PipelineSpec => [](ProvTypeOK /\ KnowTypeOK /\ CanonTypeOK)
<1>1. PipelineInv => ProvTypeOK
  BY VersionsTyped DEF PipelineInv, ProvInv, ProvTyped, ProvTypeOK, RightsRows, SnapshotStates, Freezes
<1>2. PipelineInv => KnowTypeOK
  BY FactsTyped DEF PipelineInv, KnowInv, KnowTyped, KnowTypeOK, ClaimRows, EvidenceRows, FactRows
<1>3. PipelineInv => CanonTypeOK
  <2> SUFFICES ASSUME PipelineInv PROVE CanonTypeOK
    OBVIOUS
  <2>1. \A n \in Editions : /\ editions[n].text \in Texts /\ editions[n].facts \in DOMAIN facts \cup {0}
                            /\ editions[n].evidence \subseteq Evidences /\ editions[n].rights \subseteq Versions
    BY EditionsTyped DEF PipelineInv, EditionRows, EditionSound
  <2>2. content.status \in {"none", "draft", "in_review"} /\ content.current \in Editions \cup {0}
    BY EditionsTyped DEF PipelineInv, CanonInv, CanonTyped, RefreshQueued
  <2>3. \A i \in DOMAIN queue :
          /\ queue[i].edition \in Editions /\ queue[i].reason \in Reasons
          /\ queue[i].status \in Open \cup {"completed"}
          /\ queue[i].owner \in Refreshers \cup {Nobody} /\ (queue[i].owner # Nobody <=> queue[i].status = "claimed")
    BY EditionsTyped DEF PipelineInv, QueueRows, QueueSound, OwnersSound
  <2> QED BY <2>1, <2>2, <2>3 DEF PipelineInv, CanonInv, CanonTyped, CanonTypeOK
<1> QED BY <1>1, <1>2, <1>3, PipelineSound, PTL

(***************************************************************************)
(* What a complaint froze is blocked, the record points at the verified    *)
(* version only, and every right that was verified rests on snapshots that *)
(* had been made usable, for any number of versions, snapshots and         *)
(* derived objects.                                                        *)
(***************************************************************************)
THEOREM RightsHoldAlways == PipelineSpec => []RightsHold
<1>1. PipelineInv => RightsHold
  BY DEF PipelineInv, ProvInv
<1> QED BY <1>1, PipelineSound, PTL

(***************************************************************************)
(* Verified knowledge and kept versions of content are grounded: what they *)
(* were bound to had been valid, verified and free of contradictions,      *)
(* whatever has been withdrawn, expired or frozen since.                   *)
(***************************************************************************)
THEOREM GroundedAlways == PipelineSpec => []Grounded
<1>1. PipelineInv => FactsGrounded
  <2> SUFFICES ASSUME PipelineInv PROVE FactsGrounded
    OBVIOUS
  <2>1. \A n \in DOMAIN facts : FactsSound(facts[n])
    BY FactsTyped DEF PipelineInv
  <2>2. \A e \in Evidences : Once(evidence[e].status) =>
          /\ snapshot[SnapshotOf[e]] \in {"usable"} \cup Terminal
          /\ RightsOf[e] # 0 => Once(rights[RightsOf[e]].status)
    BY DEF PipelineInv, KnowInv, EvidenceSound, Settled
  <2> QED BY <2>1, <2>2 DEF PipelineInv, KnowInv, ClaimSound, FactsSound, Consistent, FactsGrounded
<1>2. PipelineInv => EditionsGrounded
  BY EditionsTyped, FactsTyped DEF PipelineInv, EditionSound, FactsSound, Consistent, EditionsGrounded
<1> QED BY <1>1, <1>2, PipelineSound, PTL DEF Grounded

(***************************************************************************)
(* A version that was not fresh when it was kept, or when it was last      *)
(* checked, has its refresh in the queue, and never two open ones for one  *)
(* reason, for any number of workers, versions and dates.                  *)
(***************************************************************************)
THEOREM RefreshQueuedAlways == PipelineSpec => []RefreshQueued
<1>1. PipelineInv => RefreshQueued
  BY DEF PipelineInv, CanonInv
<1> QED BY <1>1, PipelineSound, PTL
=============================================================================

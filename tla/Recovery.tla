------------------------------ MODULE Recovery ------------------------------
(***************************************************************************)
(* The recovery drill: RecoveryService (modules/audit/recovery.py), whose  *)
(* commands hold its lock, and LocalRecoveryDrill over it                  *)
(* (modules/audit/infrastructure/local_recovery.py), which holds none: a   *)
(* backup copies the database, then the objects, then registers the        *)
(* snapshot and then writes its files; a restore looks for its command and *)
(* fills an object store before the service may refuse it.                 *)
(*                                                                         *)
(* The source stores an object before the row that names it, and goes on   *)
(* while it is backed up. Every driller restores into a store of his own.  *)
(* A drill lives in one process and forgets everything with it. RPO and    *)
(* RTO are one condition: whether the targets are met. Left out: tenants,  *)
(* audit entries, and the versions of a queue's pause.                     *)
(***************************************************************************)
EXTENDS Integers, Sequences, FiniteSets

CONSTANTS
    Things,       \* objects of the source, each with its row
    Drillers,     \* threads that run a drill
    DrillKeys,    \* idempotency keys
    DrillQueues,  \* queues that a restore may pause
    MaxBackups,   \* bound on the snapshots
    MaxRestores   \* bound on the restores

ASSUME RecoveryBounds == MaxBackups \in Nat /\ MaxRestores \in Nat

VARIABLES
    source,       \* objects and rows of the source
    backups,      \* snapshots, in order: image, objects and how far their files got
    restores,     \* restores, in order
    pausedBy,     \* queue_states: the restore that paused a queue last, and whether it is paused
    filled,       \* what the object store of each driller holds
    drilled,      \* _commands by key
    drill         \* the call a driller is in

recoveryVars == <<source, backups, restores, pausedBy, filled, drilled, drill>>

NotDrilling == [at |-> "idle"]
NotDrilled == [kind |-> "none"]

RecoveryTypeOK ==
    /\ source \in [objects : SUBSET Things, rows : SUBSET Things]
    /\ Len(backups) <= MaxBackups /\ Len(restores) <= MaxRestores
    /\ pausedBy \in [DrillQueues -> [restore : 0 .. Len(restores), paused : BOOLEAN]]
    /\ filled \in [Drillers -> SUBSET Things]
    /\ \A k \in DrillKeys : drilled[k].kind \in {"none", "backup", "restore", "release"}

RecoveryInit ==
    /\ source = [objects |-> {}, rows |-> {}]
    /\ backups = <<>> /\ restores = <<>>
    /\ pausedBy = [q \in DrillQueues |-> [restore |-> 0, paused |-> FALSE]]
    /\ filled = [t \in Drillers |-> {}]
    /\ drilled = [k \in DrillKeys |-> NotDrilled]
    /\ drill = [t \in Drillers |-> NotDrilling]

PutSource(x) ==
    /\ source' = IF x \in source.objects THEN [source EXCEPT !.rows = @ \cup {x}]
                 ELSE [source EXCEPT !.objects = @ \cup {x}]
    /\ UNCHANGED <<backups, restores, pausedBy, filled, drilled, drill>>

Step(t, c) == drill' = [drill EXCEPT ![t] = c]

\* the image of the database ...
BeginBackup(t, k) ==
    /\ drill[t] = NotDrilling
    /\ Step(t, [at |-> "objects", key |-> k, image |-> source.rows])
    /\ UNCHANGED <<source, backups, restores, pausedBy, filled, drilled>>

\* ... and then the objects
ReadObjects(t) ==
    LET c == drill[t] IN
    /\ c.at = "objects"
    /\ Step(t, [at |-> "create", key |-> c.key, body |-> [image |-> c.image, objects |-> source.objects]])
    /\ UNCHANGED <<source, backups, restores, pausedBy, filled, drilled>>

\* create_backup(): the snapshot of the key, if its payload was the same
CreateBackup(t) ==
    LET c == drill[t]
        prior == drilled[c.key]
        n == IF prior = NotDrilled THEN Len(backups) + 1 ELSE prior.of
    IN  /\ c.at = "create"
        /\ IF prior = NotDrilled
           THEN /\ Len(backups) < MaxBackups
                /\ backups' = Append(backups, [body |-> c.body, files |-> "none"])
                /\ drilled' = [drilled EXCEPT ![c.key] = [kind |-> "backup", hash |-> c.body, of |-> n]]
                /\ Step(t, [at |-> "files", of |-> n])
           ELSE /\ UNCHANGED <<backups, drilled>>
                /\ Step(t, IF prior.kind = "backup" /\ prior.hash = c.body THEN [at |-> "files", of |-> n]
                           ELSE NotDrilling)
        /\ UNCHANGED <<source, restores, pausedBy, filled>>

\* files that are there are verified, never written again
WriteFiles(t, fails) ==
    LET c == drill[t] IN
    /\ c.at = "files"
    /\ backups' = IF backups[c.of].files # "none" THEN backups
                  ELSE [backups EXCEPT ![c.of].files = IF fails THEN "torn" ELSE "whole"]
    /\ Step(t, NotDrilling)
    /\ UNCHANGED <<source, restores, pausedBy, filled, drilled>>

\* a key that restored or released replays, whatever is asked
BeginRestore(t, k, n, queues, met) ==
    /\ drill[t] = NotDrilling
    /\ drilled[k].kind \notin {"restore", "release"}
    /\ filled[t] = {} /\ backups[n].files = "whole"
    /\ Step(t, [at |-> "put", key |-> k, request |-> [of |-> n, queues |-> queues, met |-> met]])
    /\ UNCHANGED <<source, backups, restores, pausedBy, filled, drilled>>

\* one object after the other: a store that raises keeps those before
PutObjects(t, put) ==
    LET c == drill[t]
        objects == backups[c.request.of].body.objects
    IN  /\ c.at = "put" /\ put \subseteq objects
        /\ filled' = [filled EXCEPT ![t] = put]
        /\ Step(t, IF put = objects THEN [c EXCEPT !.at = "restore"] ELSE NotDrilling)
        /\ UNCHANGED <<source, backups, restores, pausedBy, drilled>>

\* _pause_queues() takes a queue over from the restore that paused it before
Pause(queues, r) ==
    [q \in DrillQueues |-> IF q \in queues THEN [restore |-> r, paused |-> TRUE] ELSE pausedBy[q]]

\* restore() of the service, which refuses a timeline that is not ordered
RunRestore(t, ordered) ==
    LET c == drill[t]
        r == Len(restores) + 1
    IN  /\ c.at = "restore"
        /\ IF drilled[c.key] = NotDrilled /\ ordered
           THEN /\ Len(restores) < MaxRestores
                /\ restores' = Append(restores,
                     [of |-> c.request.of, into |-> t, met |-> c.request.met, queues |-> c.request.queues,
                      released |-> FALSE, version |-> 1, pauses |-> {}, registered |-> FALSE])
                /\ pausedBy' = Pause(c.request.queues, r)
                /\ drilled' = [drilled EXCEPT ![c.key] = [kind |-> "restore", hash |-> c.request, of |-> r]]
                /\ Step(t, [at |-> "rows", of |-> r])
           ELSE /\ UNCHANGED <<restores, pausedBy, drilled>>
                /\ Step(t, IF drilled[c.key].kind = "restore" /\ drilled[c.key].hash = c.request
                           THEN [at |-> "rows", of |-> drilled[c.key].of] ELSE NotDrilling)
        /\ UNCHANGED <<source, backups, filled>>

\* the pauses are written into the restored database, and only now is the restore known to release()
WritePauses(t) ==
    LET c == drill[t] IN
    /\ c.at = "rows"
    /\ restores' = [restores EXCEPT ![c.of].pauses = restores[c.of].queues, ![c.of].registered = TRUE, ![c.of].into = t]
    /\ Step(t, NotDrilling)
    /\ UNCHANGED <<source, backups, pausedBy, filled, drilled>>

\* release_queues() reads the restore before the lock ...
BeginRelease(t, k, r, expected) ==
    /\ drill[t] = NotDrilling
    /\ restores[r].registered
    /\ Step(t, [at |-> "release", key |-> k, of |-> r, expected |-> expected, version |-> restores[r].version])
    /\ UNCHANGED <<source, backups, restores, pausedBy, filled, drilled>>

\* ... and writes its copy under it
ReleaseQueues(t) ==
    LET c == drill[t]
        request == [of |-> c.of, expected |-> c.expected]
        fresh == drilled[c.key] = NotDrilled
    IN  /\ c.at = "release"
        /\ IF fresh /\ c.version = c.expected /\ restores[c.of].met
           THEN /\ restores' = [restores EXCEPT ![c.of].released = TRUE, ![c.of].version = c.version + 1]
                /\ pausedBy' = [q \in DrillQueues |->
                     IF pausedBy[q].restore = c.of THEN [pausedBy[q] EXCEPT !.paused = FALSE] ELSE pausedBy[q]]
                /\ drilled' = [drilled EXCEPT ![c.key] = [kind |-> "release", hash |-> request, of |-> c.of]]
                /\ Step(t, [at |-> "unpause", of |-> c.of])
           ELSE /\ UNCHANGED <<restores, pausedBy, drilled>>
                /\ Step(t, IF drilled[c.key].kind = "release" /\ drilled[c.key].hash = request
                           THEN [at |-> "unpause", of |-> c.of] ELSE NotDrilling)
        /\ UNCHANGED <<source, backups, filled>>

WriteRelease(t) ==
    LET c == drill[t] IN
    /\ c.at = "unpause"
    /\ restores' = [restores EXCEPT ![c.of].pauses = {}]
    /\ Step(t, NotDrilling)
    /\ UNCHANGED <<source, backups, pausedBy, filled, drilled>>

RecoveryNext ==
    \/ \E x \in Things : PutSource(x)
    \/ \E t \in Drillers :
         \/ ReadObjects(t) \/ CreateBackup(t) \/ WritePauses(t) \/ ReleaseQueues(t) \/ WriteRelease(t)
         \/ \E fails \in BOOLEAN : WriteFiles(t, fails)
         \/ \E put \in SUBSET Things : PutObjects(t, put)
         \/ \E ordered \in BOOLEAN : RunRestore(t, ordered)
         \/ \E k \in DrillKeys :
              \/ BeginBackup(t, k)
              \/ \E n \in DOMAIN backups, queues \in SUBSET DrillQueues \ {{}}, met \in BOOLEAN :
                    BeginRestore(t, k, n, queues, met)
              \/ \E r \in DOMAIN restores, expected \in 1 .. 2 : BeginRelease(t, k, r, expected)

-----------------------------------------------------------------------------
(* A queue is paused exactly as long as the restore that paused it last is *)
(* not released, however restores over the same queues and releases of     *)
(* them overlap, and no queue is let go before the targets are met, in the *)
(* service or in the restored database; and what was restored is whole:    *)
(* the store has the objects of the snapshot, and every row its object.    *)
DrillTold ==
    /\ \A q \in DrillQueues : pausedBy[q].restore # 0 =>
          (pausedBy[q].paused <=> ~restores[pausedBy[q].restore].released)
    /\ \A r \in DOMAIN restores :
          /\ restores[r].released => restores[r].met
          /\ restores[r].registered /\ ~restores[r].released => restores[r].pauses = restores[r].queues
          /\ restores[r].registered =>
                LET body == backups[restores[r].of].body
                IN body.image \subseteq body.objects /\ body.objects \subseteq filled[restores[r].into]
=============================================================================

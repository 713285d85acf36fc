------------------------------ MODULE Handover ------------------------------
(***************************************************************************)
(* What is handed over by hand or comes in from outside                    *)
(* (src/modules/distribution): the export of an intent as a package        *)
(* (manual.py), the storage packages are downloaded from                   *)
(* (package_storage.py), the events a platform delivers (webhook.py) and   *)
(* the matrix that names the fields of a platform (matrix.py).             *)
(*                                                                         *)
(* Each service has a lock of its own that its commands are executed       *)
(* under, but whether a package may be opened is looked at before the lock *)
(* is taken, and the moment a command is about is given by its caller.     *)
(*                                                                         *)
(* Left out: the making of the files of a package and the copies of their  *)
(* bytes in the private store, which nothing reads back; the hash of a     *)
(* package, which never changes; the signature of a link, which stands for *)
(* the package and the end of the link; the audit and the events.          *)
(***************************************************************************)
EXTENDS Integers, Sequences, FiniteSets, Functions, SequencesExt

CONSTANTS
    HandKeys,     \* idempotency keys
    Exports,      \* [intent, body, generated, expires]: what is exported
    Fetchers,     \* threads that fetch packages
    Ttl,          \* ttl_seconds of the links
    LastHandMoment, \* bound
    MaxExports,   \* bound
    Deliveries,   \* [event, body, signed, fits]: signed with the secret of its platform,
                  \* fits the schema and the organization
    MaxHandlings, \* max_attempts
    MaxReplays,   \* bound
    Mappings,     \* [version, fields]: canonical field -> field of the platform
    Payloads      \* canonical field -> value

ASSUME HandBounds ==
    /\ IsFiniteSet(HandKeys)
    /\ Ttl \in Nat /\ LastHandMoment \in Nat /\ MaxExports \in Nat
    /\ MaxHandlings \in Nat \ {0} /\ MaxReplays \in Nat
    /\ \A request \in Exports : request.expires \in Int

VARIABLES
    exported,   \* the packages made so far
    shelf,      \* package -> its status and download_count in the storage
    fetching,   \* thread -> what it found before it has the lock
    links,      \* download URLs issued
    lastOpened, \* history: the last package opened
    everShut,   \* history: packages that were revoked or expired once
    receipts,   \* external event -> its receipt
    handlings,  \* history: external event -> calls of the handler, those that returned
    matrices,   \* version -> its field mapping
    lastMapped, \* history: the last payload mapped
    handKey     \* key -> the command it was used with

packageVars == <<exported, shelf, fetching, links, lastOpened, everShut>>
ingressVars == <<receipts, handlings, matrices, lastMapped>>
handVars == <<packageVars, ingressVars, handKey>>

Packages == 1 .. MaxExports
HandMoments == 0 .. LastHandMoment
NoCommand == [command |-> "none"]
Fetched == [at |-> "idle"]
NotOpened == [package |-> 0]
NoReceipt == [status |-> "none", attempts |-> 0]
NotMapped == [version |-> 0]
ExternalEvents == {d.event : d \in Deliveries}

PortInit ==
    /\ receipts = [e \in ExternalEvents |-> NoReceipt]
    /\ handlings = [e \in ExternalEvents |-> [called |-> 0, done |-> 0]]

HandInit ==
    /\ exported = <<>> /\ links = {} /\ everShut = {}
    /\ shelf = [p \in Packages |-> [status |-> "none", count |-> 0]]
    /\ fetching = [f \in Fetchers |-> Fetched]
    /\ lastOpened = NotOpened
    /\ PortInit
    /\ matrices = [v \in {m.version : m \in Mappings} |-> <<>>]
    /\ lastMapped = NotMapped
    /\ handKey = [k \in HandKeys |-> NoCommand]

Remember(k, command, about) ==
    /\ handKey[k] = NoCommand
    /\ handKey' = [handKey EXCEPT ![k] = [command |-> command, about |-> about]]

-----------------------------------------------------------------------------
(* ManualAdapter.export(): each key makes a package of its own.            *)
Export(k, request) ==
    /\ Remember(k, "export", request)
    /\ request.generated < request.expires /\ Len(exported) < MaxExports
    /\ exported' = Append(exported, request)
    /\ UNCHANGED <<shelf, fetching, links, lastOpened, everShut, ingressVars>>

Ends(p) == exported[p].expires

(* register_package(): the package is on the shelf before its bytes are in *)
(* the store, which may refuse them, and stays there; and a package that   *)
(* is there is answered as it is.                                          *)
RegisterPackage(k, p) ==
    /\ Remember(k, "register", p)
    /\ IF shelf[p].status = "none"
       THEN shelf' = [shelf EXCEPT ![p].status = "available"]
       ELSE UNCHANGED shelf
    /\ UNCHANGED <<exported, fetching, links, lastOpened, everShut, ingressVars>>

StoreRefuses(p) ==
    /\ shelf[p].status = "none"
    /\ shelf' = [shelf EXCEPT ![p].status = "available"]
    /\ UNCHANGED <<exported, fetching, links, lastOpened, everShut, ingressVars, handKey>>

(* _check_available(): without the lock; a package found past its end is   *)
(* marked as expired, whatever it has become.                              *)
Opens(p, now) == shelf[p].status = "available" /\ now < Ends(p)
FindsExpired(f, p, now) ==
    /\ fetching[f] = Fetched
    /\ shelf[p].status = "available" /\ now >= Ends(p)
    /\ fetching' = [fetching EXCEPT ![f] = [at |-> "mark", package |-> p]]
    /\ UNCHANGED <<exported, shelf, links, lastOpened, everShut, ingressVars, handKey>>

MarksExpired(f) ==
    /\ fetching[f].at = "mark"
    /\ shelf' = [shelf EXCEPT ![fetching[f].package].status = "expired"]
    /\ everShut' = everShut \cup {fetching[f].package}
    /\ fetching' = [fetching EXCEPT ![f] = Fetched]
    /\ UNCHANGED <<exported, links, lastOpened, ingressVars, handKey>>

(* issue_download_url()                                                    *)
AsksLink(f, k, p, now) ==
    /\ fetching[f] = Fetched /\ Opens(p, now)
    /\ fetching' = [fetching EXCEPT ![f] =
          [at |-> "link", key |-> k,
           link |-> [package |-> p, issued |-> now, until |-> IF now + Ttl < Ends(p) THEN now + Ttl ELSE Ends(p)]]]
    /\ UNCHANGED <<exported, shelf, links, lastOpened, everShut, ingressVars, handKey>>

IssuesLink(f) ==
    LET k == fetching[f].key
        link == fetching[f].link IN
    /\ fetching[f].at = "link"
    /\ IF handKey[k] = NoCommand
       THEN /\ shelf' = [shelf EXCEPT ![link.package].count = @ + 1]
            /\ links' = links \cup {link}
            /\ handKey' = [handKey EXCEPT ![k] = [command |-> "link", about |-> link]]
       ELSE UNCHANGED <<shelf, links, handKey>>
    /\ fetching' = [fetching EXCEPT ![f] = Fetched]
    /\ UNCHANGED <<exported, lastOpened, everShut, ingressVars>>

(* verify_download_url() and read_file(), which needs no link.             *)
Opened(p, now, until) ==
    /\ Opens(p, now) /\ now < until
    /\ lastOpened' = [package |-> p, at |-> now, until |-> until, shut |-> everShut]
    /\ UNCHANGED <<exported, shelf, fetching, links, everShut, ingressVars, handKey>>
VerifyLink(link, now) == Opened(link.package, now, link.until)
ReadFile(p, now) == Opened(p, now, Ends(p))

(* revoke_package() and expire_package()                                   *)
RevokePackage(k, p) ==
    /\ shelf[p].status # "none"
    /\ Remember(k, "revoke", p)
    /\ shelf' = [shelf EXCEPT ![p].status = "revoked"]
    /\ everShut' = everShut \cup {p}
    /\ UNCHANGED <<exported, fetching, links, lastOpened, ingressVars>>

ExpirePackage(k, p, now) ==
    /\ shelf[p].status # "none" /\ now >= Ends(p)
    /\ Remember(k, "expire", p)
    /\ shelf' = [shelf EXCEPT ![p].status = IF @ = "available" THEN "expired" ELSE @]
    /\ everShut' = everShut \cup {p}
    /\ UNCHANGED <<exported, fetching, links, lastOpened, ingressVars>>

-----------------------------------------------------------------------------
(* FakeWebhookPort._process(): the handler, if there is one, is called     *)
(* with the payload that was kept.                                         *)
Handled(r, handler) ==
    [r EXCEPT !.attempts = @ + 1,
              !.status = IF handler # "raises" THEN "processed"
                         ELSE IF r.attempts + 1 >= MaxHandlings THEN "dead_letter" ELSE "received"]
CallHandler(e, handler) ==
    handlings' = [handlings EXCEPT ![e].called = @ + (IF handler = "none" THEN 0 ELSE 1),
                                   ![e].done = @ + (IF handler = "returns" THEN 1 ELSE 0)]

(* _save(): the receipt and its payload, which it is handled with again.   *)
SaveReceipt(e, receipt) == receipts' = [receipts EXCEPT ![e] = receipt]

(* The platform has a secret, and the payload is signed with that one.     *)
SignatureValid(d) == d.signed

(* receive(): a duplicate is answered; a payload that is not signed or     *)
(* does not fit is rejected, and its receipt kept.                         *)
Receive(k, d, handler) ==
    LET fresh == [status |-> "rejected", body |-> d.body, signed |-> SignatureValid(d), attempts |-> 0, replays |-> 0] IN
    /\ receipts[d.event] # NoReceipt => receipts[d.event].body = d.body
    /\ Remember(k, "receive", d)
    /\ IF receipts[d.event] # NoReceipt THEN UNCHANGED <<receipts, handlings>>
       ELSE IF SignatureValid(d) /\ d.fits
       THEN SaveReceipt(d.event, Handled(fresh, handler)) /\ CallHandler(d.event, handler)
       ELSE SaveReceipt(d.event, fresh) /\ UNCHANGED handlings
    /\ UNCHANGED <<packageVars, matrices, lastMapped>>

(* replay(), confirmed by a person                                         *)
Replay(k, e, handler) ==
    /\ receipts[e].status \in {"received", "dead_letter"} /\ receipts[e].signed
    /\ receipts[e].replays < MaxReplays
    /\ Remember(k, "replay", e)
    /\ SaveReceipt(e, Handled([receipts[e] EXCEPT !.replays = @ + 1], handler))
    /\ CallHandler(e, handler)
    /\ UNCHANGED <<packageVars, matrices, lastMapped>>

-----------------------------------------------------------------------------
(* CapabilityMatrixRegistry.register(): a version once put is answered.    *)
RegisterMatrix(k, m) ==
    /\ IsInjective(m.fields)
    /\ matrices[m.version] # <<>> => matrices[m.version] = m.fields
    /\ Remember(k, "matrix", m)
    /\ matrices' = [matrices EXCEPT ![m.version] = m.fields]
    /\ UNCHANGED <<packageVars, receipts, handlings, lastMapped>>

(* CapabilityMatrix.map_payload()                                          *)
MapPayload(fields, payload) ==
    [name \in Range(fields) |-> payload[CHOOSE field \in DOMAIN fields : fields[field] = name]]
MapWith(version, payload) ==
    /\ matrices[version] # <<>> /\ DOMAIN matrices[version] \subseteq DOMAIN payload
    /\ lastMapped' = [version |-> version, payload |-> payload, sent |-> MapPayload(matrices[version], payload)]
    /\ UNCHANGED <<packageVars, receipts, handlings, matrices, handKey>>

PackageNext ==
    \/ \E k \in HandKeys, request \in Exports : Export(k, request)
    \/ \E p \in DOMAIN exported :
          \/ StoreRefuses(p)
          \/ \E k \in HandKeys : RegisterPackage(k, p) \/ RevokePackage(k, p)
          \/ \E now \in HandMoments :
                \/ ReadFile(p, now)
                \/ \E k \in HandKeys : ExpirePackage(k, p, now)
                \/ \E f \in Fetchers : FindsExpired(f, p, now)
                \/ \E f \in Fetchers, k \in HandKeys : AsksLink(f, k, p, now)
    \/ \E link \in links, now \in HandMoments : VerifyLink(link, now)
    \/ \E f \in Fetchers : MarksExpired(f) \/ IssuesLink(f)
WebhookNext ==
    \E k \in HandKeys, handler \in {"none", "returns", "raises"} :
        (\E d \in Deliveries : Receive(k, d, handler)) \/ (\E e \in ExternalEvents : Replay(k, e, handler))
MatrixNext ==
    \/ \E k \in HandKeys, m \in Mappings : RegisterMatrix(k, m)
    \/ \E v \in DOMAIN matrices, payload \in Payloads : MapWith(v, payload)

-----------------------------------------------------------------------------
HandTypeOK ==
    /\ Len(exported) <= MaxExports
    /\ \A p \in Packages : shelf[p].status \in {"none", "available", "expired", "revoked"}
    /\ \A e \in ExternalEvents :
          receipts[e].status \in {"none", "rejected", "received", "dead_letter", "processed"}

(* A package that was revoked or expired is never opened again, though a   *)
(* link to it may still be issued; none is opened past its end or past the *)
(* end of its link, and each link is counted once.                         *)
StaysShut ==
    /\ lastOpened # NotOpened =>
          /\ lastOpened.package \notin lastOpened.shut
          /\ lastOpened.at < lastOpened.until /\ lastOpened.until <= Ends(lastOpened.package)
    /\ \A p \in DOMAIN exported :
          shelf[p].count = Cardinality({k \in HandKeys : handKey[k].command = "link" /\ handKey[k].about.package = p})

(* An event is handled to its end once at most, however often it is        *)
(* delivered and replayed, and only if it was signed and fits; what is     *)
(* left to replay never came to its end.                                   *)
HandledOnce ==
    \A e \in ExternalEvents :
        LET r == receipts[e]
            calls == handlings[e] IN
        /\ calls.done <= 1 /\ calls.called <= r.attempts
        /\ calls.called > 0 => \E d \in Deliveries : d.event = e /\ d.body = r.body /\ d.signed /\ d.fits
        /\ r.status \in {"received", "dead_letter"} =>
             calls.done = 0 /\ (r.attempts >= MaxHandlings <=> r.status = "dead_letter")

(* A payload is sent by the fields of its version as they are registered,  *)
(* and what the platform is sent tells each mapped field of it.            *)
MappedWhole ==
    lastMapped # NotMapped =>
        LET fields == matrices[lastMapped.version] IN
        \A field \in DOMAIN fields : lastMapped.sent[fields[field]] = lastMapped.payload[field]
=============================================================================

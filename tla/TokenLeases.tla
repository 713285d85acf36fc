----------------------------- MODULE TokenLeases -----------------------------
(***************************************************************************)
(* OAuth authorization sessions, the connections and secrets they yield    *)
(* and the token leases of a connection (modules/distribution/oauth). A    *)
(* command takes the lock of its service only after it has read the        *)
(* session, the connection or the active lease it works on, so callbacks,  *)
(* revocations and the closing of a lease are two steps each. Issuing and  *)
(* rotating a lease read under the lock.                                   *)
(*                                                                         *)
(* Left out: organizations, provider names, scopes and PKCE values (a code *)
(* either fits its session or not), and the replay of a command under its  *)
(* idempotency key, which changes nothing.                                 *)
(***************************************************************************)
EXTENDS Integers, Sequences

CONSTANTS
    AuthSessions,   \* authorization sessions; a connection has the id of its own
    AuthCodes,      \* codes the provider may issue
    AuthThreads,    \* threads that call the services
    SessionTicks,   \* ttl_seconds
    LeaseTerms,     \* how long leases are asked for
    LastAuthTick,   \* bound of the clock
    MaxLeases       \* bound on the leases of a connection

ASSUME TokenLeaseBounds ==
    /\ {SessionTicks, LastAuthTick, MaxLeases} \cup LeaseTerms \subseteq Nat \ {0}

VARIABLES
    authTick,    \* the clock
    authSession, \* sessions of OAuthService
    issuedCode,  \* _codes of the provider: the codes not exchanged yet
    connection,  \* connections of OAuthService, told apart by generation
    secrets,     \* references with a value in the secret manager
    lease,       \* leases of TokenLeaseService, by connection, in order
    activeLease, \* active: the number of the lease a connection has
    authCall     \* what a thread has read before it takes a lock

authVars == <<authTick, authSession, issuedCode, connection, secrets, lease, activeLease, authCall>>

NoSession == [status |-> "none", until |-> 0]
NoConnection == [generation |-> 0, status |-> "none"]
NoAuthCall == [at |-> "idle"]
NoActiveLease == [status |-> "none", until |-> 0]

AuthTypeOK ==
    /\ authTick \in 0 .. LastAuthTick
    /\ \A s \in AuthSessions :
         /\ authSession[s].status \in {"none", "created", "expired", "verified"}
         /\ connection[s].status \in {"none", "authorized", "revoked"}
         /\ Len(lease[s]) <= MaxLeases
         /\ \A n \in DOMAIN lease[s] : lease[s][n].status \in {"active", "expired", "revoked"}
         /\ activeLease[s] \in 0 .. Len(lease[s])
    /\ secrets \subseteq AuthSessions
    /\ \A c \in AuthCodes : issuedCode[c].status \in {"unissued", "issued", "exchanged"}

LeaseInit ==
    /\ lease = [s \in AuthSessions |-> <<>>]
    /\ activeLease = [s \in AuthSessions |-> 0]

AuthInit ==
    /\ authTick = 0
    /\ authSession = [s \in AuthSessions |-> NoSession]
    /\ issuedCode = [c \in AuthCodes |-> [status |-> "unissued"]]
    /\ connection = [s \in AuthSessions |-> NoConnection]
    /\ secrets = {}
    /\ LeaseInit
    /\ authCall = [t \in AuthThreads |-> NoAuthCall]

leaseState == <<lease, activeLease>>

CreateSession(s) ==
    /\ authSession[s] = NoSession
    /\ authSession' = [authSession EXCEPT ![s] = [status |-> "created", until |-> authTick + SessionTicks]]
    /\ UNCHANGED <<authTick, issuedCode, connection, secrets, leaseState, authCall>>

(* What a code is good for: another redirect, challenge or scopes than its *)
(* session asked for; an account that the schema of the evidence refuses,  *)
(* such as one without a name; or a connection.                            *)
Grants == {"unfit", "refused", "good"}

(* issue_code()                                                            *)
IssueCode(c, s, grant) ==
    /\ authSession[s] # NoSession
    /\ issuedCode[c].status = "unissued"
    /\ issuedCode' = [issuedCode EXCEPT ![c] = [status |-> "issued", session |-> s, grant |-> grant]]
    /\ UNCHANGED <<authTick, authSession, connection, secrets, leaseState, authCall>>

(* handle_callback() reads the clock and its session, ...                  *)
CallbackReads(t, s) ==
    /\ authCall[t] = NoAuthCall
    /\ authSession[s] # NoSession
    /\ authCall' = [authCall EXCEPT ![t] =
         [at |-> "callback", session |-> s, copy |-> authSession[s], now |-> authTick]]
    /\ UNCHANGED <<authTick, authSession, issuedCode, connection, secrets, leaseState>>

(* exchange_code(): a code is gone once it is asked for, whether or not    *)
(* the exchange succeeds.                                                  *)
TakeCode(c) == [issuedCode EXCEPT ![c].status = IF @ = "issued" THEN "exchanged" ELSE @]

Fits(c, s) == issuedCode[c].status = "issued" /\ issuedCode[c].session = s /\ issuedCode[c].grant # "unfit"

(* ... and under the lock judges the session it read: one too old expires, *)
(* one that received a callback is refused, and for a code that fits the   *)
(* secret is stored and the session verified. Only then is the evidence    *)
(* looked at, and where it is refused there is no new connection. A state  *)
(* of another session is refused before the code is asked for.             *)
CallbackWrites(t, c, stateFits) ==
    LET call == authCall[t]
        s == call.session
        open == call.copy.status = "created"
        late == call.now >= call.copy.until
        asks == open /\ ~late /\ stateFits
        grants == asks /\ Fits(c, s)
        connects == grants /\ issuedCode[c].grant = "good"
    IN  /\ call.at = "callback"
        /\ authSession' = [authSession EXCEPT ![s] =
             IF open /\ late THEN [call.copy EXCEPT !.status = "expired"]
             ELSE IF grants THEN [call.copy EXCEPT !.status = "verified"] ELSE @]
        /\ issuedCode' = IF asks THEN TakeCode(c) ELSE issuedCode
        /\ secrets' = IF grants THEN secrets \cup {s} ELSE secrets
        /\ connection' = IF connects
             THEN [connection EXCEPT ![s] = [generation |-> @.generation + 1, status |-> "authorized"]]
             ELSE connection
        /\ authCall' = [authCall EXCEPT ![t] = NoAuthCall]
        /\ UNCHANGED <<authTick, leaseState>>

(* OAuthService.revoke() reads the connection, ...                         *)
RevokeReads(t, s) ==
    /\ authCall[t] = NoAuthCall
    /\ connection[s] # NoConnection
    /\ authCall' = [authCall EXCEPT ![t] =
         [at |-> "revoke", session |-> s, generation |-> connection[s].generation]]
    /\ UNCHANGED <<authTick, authSession, issuedCode, connection, secrets, leaseState>>

(* ... and under the lock deletes its secret and marks what it read, which *)
(* is no longer the stored connection if a callback replaced it.           *)
RevokeWrites(t) ==
    LET call == authCall[t] IN
    /\ call.at = "revoke"
    /\ secrets' = secrets \ {call.session}
    /\ connection' = [connection EXCEPT ![call.session].status =
         IF connection[call.session].generation = call.generation THEN "revoked" ELSE @]
    /\ authCall' = [authCall EXCEPT ![t] = NoAuthCall]
    /\ UNCHANGED <<authTick, authSession, issuedCode, leaseState>>

(* _transition() ends the lease that is active, if there is one, and opens *)
(* the next version.                                                       *)
LeaseTransition(s, term) ==
    LET was == activeLease[s]
        ended(l) == [l EXCEPT !.status = IF l.until <= authTick THEN "expired" ELSE "revoked"]
        before == [n \in DOMAIN lease[s] |-> IF n = was THEN ended(lease[s][n]) ELSE lease[s][n]]
    IN  /\ Len(lease[s]) < MaxLeases
        /\ lease' = [lease EXCEPT ![s] = Append(before, [status |-> "active", until |-> authTick + term])]
        /\ activeLease' = [activeLease EXCEPT ![s] = Len(before) + 1]
        /\ UNCHANGED <<authTick, authSession, issuedCode, connection, secrets, authCall>>

(* issue() and rotate() are one transition: a first lease may be rotated   *)
(* in and a second one issued.                                             *)
IssueLease(s, term) == LeaseTransition(s, term)

(* What expire() and revoke() make of a lease.                             *)
ClosingStatuses == {"expired", "revoked"}

(* _close() finds the active lease, ...                                    *)
CloseReads(t, s, status) ==
    /\ authCall[t] = NoAuthCall
    /\ activeLease[s] # 0
    /\ authCall' = [authCall EXCEPT ![t] =
         [at |-> "close", session |-> s, lease |-> activeLease[s], status |-> status]]
    /\ UNCHANGED <<authTick, authSession, issuedCode, connection, secrets, leaseState>>

(* Mutant: the connection keeps the lease it had.                          *)
WithoutLeaseKept(s) == activeLease

WithoutLease(s) == [activeLease EXCEPT ![s] = 0]

(* ... and under the lock end it and whatever lease is active by then.     *)
CloseWrites(t) ==
    LET call == authCall[t] IN
    /\ call.at = "close"
    /\ lease' = [lease EXCEPT ![call.session][call.lease].status = call.status]
    /\ activeLease' = WithoutLease(call.session)
    /\ authCall' = [authCall EXCEPT ![t] = NoAuthCall]
    /\ UNCHANGED <<authTick, authSession, issuedCode, connection, secrets>>

(* get_active(): the lease a connection has, if it has one.                *)
GetActive(s) == IF activeLease[s] = 0 THEN NoActiveLease ELSE lease[s][activeLease[s]]

NextAuthTick ==
    /\ authTick < LastAuthTick
    /\ authTick' = authTick + 1
    /\ UNCHANGED <<authSession, issuedCode, connection, secrets, leaseState, authCall>>

AuthNext ==
    \/ NextAuthTick
    \/ \E s \in AuthSessions :
         \/ CreateSession(s)
         \/ \E c \in AuthCodes, grant \in Grants : IssueCode(c, s, grant)
         \/ \E term \in LeaseTerms : IssueLease(s, term)
    \/ \E t \in AuthThreads :
         \/ RevokeWrites(t) \/ CloseWrites(t)
         \/ \E c \in AuthCodes, fits \in BOOLEAN : CallbackWrites(t, c, fits)
         \/ \E s \in AuthSessions :
              \/ CallbackReads(t, s) \/ RevokeReads(t, s)
              \/ \E status \in ClosingStatuses : CloseReads(t, s, status)

-----------------------------------------------------------------------------

(* A code of the session was exchanged for an account without evidence.    *)
LeftBehind(s) ==
    \E c \in AuthCodes :
        issuedCode[c].status = "exchanged" /\ issuedCode[c].session = s /\ issuedCode[c].grant = "refused"

(* What get_active() serves is the newest lease of the connection and has  *)
(* not been ended, although expire() and revoke() end the lease they found *)
(* before they had the lock; and nothing is left in the secret manager of  *)
(* a connection that is revoked, although callbacks that read their        *)
(* session earlier may still arrive: except by such a callback whose       *)
(* account is refused after its secret was stored.                         *)
TokensServed ==
    \A s \in AuthSessions :
        /\ GetActive(s) # NoActiveLease =>
             activeLease[s] = Len(lease[s]) /\ GetActive(s).status = "active"
        /\ connection[s].status = "revoked" /\ s \in secrets => LeftBehind(s)
=============================================================================

--------------------------- MODULE OutboxContract ---------------------------
(***************************************************************************)
(* What the transactional outbox promises about an event: it comes into    *)
(* being with the state change it reports, is handed out in numbered       *)
(* attempts while it is open, each attempt sends it at most once, and it   *)
(* ends as published only if some attempt has sent it.                     *)
(***************************************************************************)
EXTENDS Naturals

CONSTANT Events

VARIABLES
    phase,      \* [Events -> Phases]
    tries,      \* [Events -> attempts handed out]
    sent        \* [Events -> the attempts that reached the receiver]

Phases == {"none", "open", "published", "dead"}

Init ==
    /\ phase = [e \in Events |-> "none"]
    /\ tries = [e \in Events |-> 0]
    /\ sent = [e \in Events |-> {}]

Commit(e) ==
    /\ phase[e] = "none"
    /\ phase' = [phase EXCEPT ![e] = "open"]
    /\ UNCHANGED <<tries, sent>>

Try(S) ==
    /\ \A e \in S : phase[e] = "open"
    /\ tries' = [e \in Events |-> IF e \in S THEN tries[e] + 1 ELSE tries[e]]
    /\ UNCHANGED <<phase, sent>>

\* A slow sender may still send when another has ended the event.
Send(e, n) ==
    /\ n \in 1..tries[e]
    /\ n \notin sent[e]
    /\ sent' = [sent EXCEPT ![e] = @ \cup {n}]
    /\ UNCHANGED <<phase, tries>>

End(e, p) ==
    /\ phase[e] = "open"
    /\ tries[e] > 0
    /\ p \in {"published", "dead"}
    /\ p = "published" => sent[e] # {}
    /\ phase' = [phase EXCEPT ![e] = p]
    /\ UNCHANGED <<tries, sent>>

Next ==
    \/ \E e \in Events : Commit(e)
    \/ \E S \in SUBSET Events : Try(S)
    \/ \E e \in Events : \E n \in 1..tries[e] : Send(e, n)
    \/ \E e \in Events, p \in Phases : End(e, p)

Spec == Init /\ [][Next]_<<phase, tries, sent>>

=============================================================================

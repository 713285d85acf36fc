---------------------------- MODULE JobContract ----------------------------
(***************************************************************************)
(* What the task queue promises about a piece of work, whatever leases,    *)
(* delays, failure classes and human reviews do meanwhile: it is handed    *)
(* out at most MaxRuns times, each hand-out is a step of its own, and once *)
(* it is done nothing touches it again.                                    *)
(***************************************************************************)
EXTENDS Naturals

CONSTANTS
    Keys,       \* pieces of work
    MaxRuns     \* how often one may be handed out

VARIABLES
    phase,      \* [Keys -> Phases]
    runs        \* [Keys -> hand-outs so far]

Phases == {"new", "waiting", "held", "failed", "done"}

Init ==
    /\ phase = [k \in Keys |-> "new"]
    /\ runs = [k \in Keys |-> 0]

Create(k) ==
    /\ phase[k] = "new"
    /\ phase' = [phase EXCEPT ![k] = "waiting"]
    /\ UNCHANGED runs

\* Some waiting or abandoned work is handed out; other abandoned work, whose
\* hand-outs are used up, is given up in the same step.
HandOut(S, D) ==
    /\ \A k \in S : phase[k] \in {"waiting", "held"} /\ runs[k] < MaxRuns
    /\ \A k \in D : phase[k] = "held"
    /\ S \cap D = {}
    /\ phase' = [k \in Keys |-> IF k \in D THEN "done"
                                ELSE IF k \in S THEN "held" ELSE phase[k]]
    /\ runs' = [k \in Keys |-> IF k \in S THEN runs[k] + 1 ELSE runs[k]]

\* A holder or an operator reports an outcome; only work with a hand-out left
\* goes back to waiting.
Settle(k, p) ==
    /\ phase[k] \in {"waiting", "held", "failed"}
    /\ p \in {"waiting", "failed", "done"}
    /\ p = "waiting" => runs[k] < MaxRuns
    /\ phase' = [phase EXCEPT ![k] = p]
    /\ UNCHANGED runs

Next ==
    \/ \E k \in Keys : Create(k)
    \/ \E S, D \in SUBSET Keys : HandOut(S, D)
    \/ \E k \in Keys, p \in Phases : Settle(k, p)

Spec == Init /\ [][Next]_<<phase, runs>>

=============================================================================

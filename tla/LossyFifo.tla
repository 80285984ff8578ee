----------------------------- MODULE LossyFifo -----------------------------
(***************************************************************************)
(* What BaseLoop makes of the line: the frames come in the order they were *)
(* sent, whole, at most once, and some do not come.  A frame that nobody   *)
(* sent comes only while the line is disturbed.                            *)
(* (The client's modules read the line as one that is not disturbed but    *)
(* for frames that do not come.  SerialLink drops such a frame when it is  *)
(* read; dropping those before the one delivered comes to the same.)       *)
(***************************************************************************)
EXTENDS Naturals, Sequences

VARIABLES
    sent,      \* how many frames were sent; they are numbered in order
    delivered, \* the frames delivered, in order; 0 is a forged one
    disturbed  \* bytes were lost, spoilt or late, with no silence since

vars == <<sent, delivered, disturbed>>

Init == sent = 0 /\ delivered = << >> /\ ~disturbed

Send == sent' = sent + 1 /\ UNCHANGED <<delivered, disturbed>>

\* The line is disturbed, or silence ends that.
Disturb == disturbed' \in BOOLEAN /\ UNCHANGED <<sent, delivered>>

Deliver(f) ==
    /\ \A i \in DOMAIN delivered : delivered[i] < f
    /\ delivered' = Append(delivered, f)
    /\ UNCHANGED <<sent, disturbed>>

Forge ==
    /\ disturbed
    /\ delivered' = Append(delivered, 0)
    /\ UNCHANGED <<sent, disturbed>>

Next == Send \/ Disturb \/ (\E f \in 1..sent : Deliver(f)) \/ Forge

Spec == Init /\ [][Next]_vars
=============================================================================

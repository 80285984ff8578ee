------------------------------- MODULE Outbox -------------------------------
(***************************************************************************)
(* What a BoardClient promises about the packets it accepts, without       *)
(* threads, frames or link states: they are numbered as they are accepted, *)
(* leave in that order, reach the radio no earlier than their turn, none   *)
(* is accepted once the client is being stopped, and the client closes     *)
(* only when it holds none.  It does not promise that a packet that leaves *)
(* has reached the radio: see PoppedWereAired in MCBoardClient.            *)
(***************************************************************************)
EXTENDS Naturals, Sequences

VARIABLES
    waiting,   \* accepted packets still held, oldest first
    accepted,  \* how many packets have been accepted
    aired,     \* the packets the radio has transmitted
    stopping,  \* Stop has been called
    closed     \* stopping, and nothing runs any more

vars == <<waiting, accepted, aired, stopping, closed>>

Init ==
    /\ waiting = << >>
    /\ accepted = 0
    /\ aired = {}
    /\ stopping = FALSE
    /\ closed = FALSE

Accept ==
    /\ ~stopping
    /\ accepted' = accepted + 1
    /\ waiting' = Append(waiting, accepted + 1)
    /\ UNCHANGED <<aired, stopping, closed>>

Leave ==
    /\ ~closed
    /\ waiting # << >>
    /\ waiting' = Tail(waiting)
    /\ UNCHANGED <<accepted, aired, stopping, closed>>

\* A packet that has left or is the oldest held; transmitted before or not.
Air(p) ==
    /\ p \in 1..accepted
    /\ \A i \in DOMAIN waiting : p <= waiting[i]
    /\ aired' = aired \cup {p}
    /\ UNCHANGED <<waiting, accepted, stopping, closed>>

\* A client that was never run closes in the same step.
StopCall ==
    /\ stopping' = TRUE
    /\ closed' \in BOOLEAN
    /\ closed' => waiting = << >>
    /\ UNCHANGED <<waiting, accepted, aired>>

Close ==
    /\ stopping
    /\ waiting = << >>
    /\ closed' = TRUE
    /\ UNCHANGED <<waiting, accepted, aired, stopping>>

\* Run may start a stopped client's thread again; it has nothing to do.
Rerun ==
    /\ closed
    /\ closed' = FALSE
    /\ UNCHANGED <<waiting, accepted, aired, stopping>>

Next ==
    \/ Accept
    \/ Leave
    \/ \E p \in 1..accepted : Air(p)
    \/ StopCall
    \/ Close
    \/ Rerun

Spec == Init /\ [][Next]_vars
=============================================================================

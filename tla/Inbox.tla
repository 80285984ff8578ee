------------------------------- MODULE Inbox -------------------------------
(***************************************************************************)
(* What a client in reception promises, without threads, locks or          *)
(* callbacks: the packets heard on the radio are offered one by one, a     *)
(* call of ReceivePacket returns the last one offered while it was open,   *)
(* a packet offered while no call is open is never returned, and only a    *)
(* call with a time limit returns empty-handed.                            *)
(***************************************************************************)
EXTENDS Naturals

VARIABLES
    offered,  \* packets offered so far; the last has this number
    open,     \* a call is waiting for a packet
    patient,  \* the call has no time limit
    got,      \* what the open call will return, 0 for nothing
    returned  \* what the last call returned

vars == <<offered, open, patient, got, returned>>

Init ==
    /\ offered = 0
    /\ open = FALSE
    /\ patient \in BOOLEAN
    /\ got = 0
    /\ returned = 0

Open ==
    /\ ~open
    /\ open' = TRUE
    /\ got' = 0
    /\ UNCHANGED <<offered, patient, returned>>

\* The kind of call is settled while none is open.
Choose ==
    /\ ~open
    /\ patient' \in BOOLEAN
    /\ UNCHANGED <<offered, open, got, returned>>

Offer ==
    /\ offered' = offered + 1
    /\ got' = IF open THEN offered + 1 ELSE 0
    /\ UNCHANGED <<open, patient, returned>>

Return ==
    /\ open
    /\ patient => got # 0
    /\ open' = FALSE
    /\ returned' = got
    /\ got' = 0
    /\ UNCHANGED <<offered, patient>>

Next == Open \/ Choose \/ Offer \/ Return

Spec == Init /\ [][Next]_vars
=============================================================================

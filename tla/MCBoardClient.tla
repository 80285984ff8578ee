--------------------------- MODULE MCBoardClient ---------------------------
(***************************************************************************)
(* What the runs check of BoardClient beyond its invariants: that it       *)
(* implements Outbox, and what the repository's examples say of it.        *)
(***************************************************************************)
EXTENDS BoardClient

\* BoardClient seen as an Outbox.
Promise == INSTANCE Outbox WITH
    waiting  <- [i \in DOMAIN m_packets |-> m_packets[i].id],
    accepted <- queued,
    stopping <- terminate,
    closed   <- terminate /\ ~LoopRuns

\* Every step of the client, the line and the board is a step of the outbox,
\* or changes nothing the outbox shows.
ImplementsOutbox == Promise!Spec
-----------------------------------------------------------------------------
(* example_tx.cpp:87, client.SendPacket(msg, 4); //Send message 4 times.   *)

\* A packet leaves the list, and SendPacket returns, only when the radio has
\* transmitted it.
PoppedWereAired == 1..Popped \subseteq aired
-----------------------------------------------------------------------------
(* main.cpp:257, "The program successfully completed!".                    *)

\* The client's own two threads never bring the process down.
SurvivesItsThreads == fault \notin {"null_front", "dangling", "empty_pop"}
=============================================================================

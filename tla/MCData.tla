------------------------------- MODULE MCData -------------------------------
(***************************************************************************)
(* The data of the library, enumerated in one run: the packets and the     *)
(* settings that are encoded, and the dump files that are written and      *)
(* parsed.  Each enumeration starts where the other has not: they add up.  *)
(***************************************************************************)
EXTENDS Settings, DumpFile

\* What is left behind a frame in the buffer: nothing, or two bytes of an earlier
\* one.
MCLeftovers == {<< >>, <<Byte(7), Byte(255)>>}

\* A message of two bytes, and what may be received for it: right and wrong, at
\* three signal strengths; shorter; and too long for the size of a record.
Msg(n) == <<Byte(1), Byte(n)>>
MCMessages == {Msg(2), Msg(255)}
MCMessage == Msg(2)
MCPackets ==
    {m \o <<Byte(rssi), {}>> : m \in MCMessages, rssi \in {10, 200}}
        \cup {<<Byte(1), Byte(30), {}>>, [i \in 1..257 |-> Byte(i)]}
MCGarbage == {m \o m : m \in MCMessages}

DataInit == SetupInit /\ DumpInit

DataNext ==
    \/ phase = "record" /\ sent = << >> /\ SetupNext /\ UNCHANGED dumpVars
    \/ packet = << >> /\ ~IsEnabled /\ DumpNext /\ UNCHANGED vars

DataSpec == DataInit /\ [][DataNext]_<<vars, dumpVars>>
=============================================================================

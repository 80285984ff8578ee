----------------------------- MODULE ByteStream -----------------------------
(***************************************************************************)
(* What a program is promised of the input of a serial stream: the bytes   *)
(* come in the order in which they arrived, each once; one can be put      *)
(* back; only flushing, closing or a device that fails discards any, and a *)
(* read that fails may lose the byte that was looked at or put back.       *)
(***************************************************************************)
EXTENDS Integers, Sequences, SequencesExt

VARIABLES
    isOpen,
    line,       \* the bytes the program has still to get
    held,       \* the first of them was looked at, or put back
    got,        \* those it has got
    failed,     \* the stream says that a call failed
    discards    \* how often bytes were discarded

vars == <<isOpen, line, held, got, failed, discards>>

Init ==
    /\ isOpen = FALSE
    /\ line = << >>
    /\ held = FALSE
    /\ got = << >>
    /\ failed = FALSE
    /\ discards = 0

Open ==
    /\ ~isOpen
    /\ isOpen' = TRUE
    /\ UNCHANGED <<line, held, got, discards>>

\* What was not read is gone.
Close ==
    /\ isOpen
    /\ isOpen' = FALSE
    /\ line' = << >>
    /\ held' = FALSE
    /\ UNCHANGED <<got, discards>>

Arrive ==
    /\ isOpen
    /\ line' # << >>
    /\ Front(line') = line
    /\ UNCHANGED <<isOpen, held, got, discards>>

Look ==
    /\ line # << >>
    /\ held' = TRUE
    /\ UNCHANGED <<isOpen, line, got, discards>>

Take ==
    /\ \E k \in 1..Len(line) :
          /\ got' = got \o SubSeq(line, 1, k)
          /\ line' = SubSeq(line, k + 1, Len(line))
    /\ held' = FALSE
    /\ UNCHANGED <<isOpen, discards>>

\* The byte got last is the next one again.
PutBack ==
    /\ isOpen
    /\ got # << >>
    /\ line' = <<Last(got)>> \o line
    /\ held' = TRUE
    /\ got' = Front(got)
    /\ UNCHANGED <<isOpen, discards>>

\* All is discarded, but a byte held is out of the reach of a flush.
Discard ==
    /\ line' = IF held THEN <<Head(line)>> ELSE << >>
    /\ discards' = discards + 1
    /\ UNCHANGED <<isOpen, held, got>>

\* The byte held is lost, and the stream, which was good, says so.
Lose ==
    /\ held /\ ~failed
    /\ line' = Tail(line)
    /\ held' = FALSE
    /\ failed' = TRUE
    /\ UNCHANGED <<isOpen, got, discards>>

\* Nothing happens to the bytes.
Status == UNCHANGED <<isOpen, line, held, got, discards>>

\* Any call may fail.
Next ==
    /\ failed' \in BOOLEAN
    /\ \/ Open \/ Close \/ Arrive \/ Look \/ Take \/ PutBack \/ Discard \/ Lose
       \/ Status

Spec == Init /\ [][Next]_vars
=============================================================================

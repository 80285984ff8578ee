---------------------------- MODULE FrameReader ----------------------------
(***************************************************************************)
(* How BaseLoop finds frames in a stream of bytes: it reads a header, then *)
(* as many bytes as the header says, then checks the CRC.  There is no     *)
(* start mark, so a byte that is lost puts it out of step until a read     *)
(* times out.                                                              *)
(*                                                                         *)
(* A byte on the line is a cell: its frame's number and its place in it.   *)
(* A whole frame passes decode.  Bytes that are none may pass it too: the  *)
(* CRC of zeros is zero, and the data of a frame may hold another frame.   *)
(* Such a forged frame is a choice of the model; MsgFormat checks what the *)
(* CRC does tell.                                                          *)
(***************************************************************************)
EXTENDS Integers, Sequences, SequencesExt

CONSTANTS
    BufferSize,    \* rx_buffer_size, 512 in the code
    Sizes,         \* data sizes of the frames the board sends
    GarbageSizes,  \* what two bytes that are no size field may be read as
    SlowBytes,     \* a read may time out in the middle of a frame
    MaxFrames,     \* bound: frames sent
    MaxNoise       \* bound: bytes lost or spoilt on the line

ASSUME FrameReaderAssumption ==
    /\ BufferSize \in Nat
    /\ Sizes \subseteq 0..BufferSize
    /\ GarbageSizes \subseteq Nat
    /\ SlowBytes \in BOOLEAN
    /\ MaxFrames \in Nat
    /\ MaxNoise \in Nat

VARIABLES
    line,       \* the cells on their way to the host
    sizes,      \* the data sizes of the frames sent so far
    noise,      \* how many bytes were lost or spoilt
    pc,         \* "header" or "body": the read BaseLoop is in
    got,        \* the cells of the header read
    size,       \* msg_header.size
    delivered,  \* the frames passed to OnMessage; 0 is a forged one
    overrun,    \* a frame was written past the end of the buffer
    inStep      \* history: the reader has been in step since before the frames
                \* after this one were sent; -1 while it may be out of step

sendVars == <<sizes, noise>>
readVars == <<pc, got, size>>
vars == <<line, sendVars, readVars, delivered, overrun, inStep>>

HeaderSize == 4
CrcSize == 2

FrameLen(n) == HeaderSize + n + CrcSize
Cells(f, n) == [i \in 1..FrameLen(n) |-> [frame |-> f, place |-> i]]
Spoilt == [frame |-> 0, place |-> 0]
sent == Len(sizes)

Init ==
    /\ line = << >>
    /\ sizes = << >>
    /\ noise = 0
    /\ pc = "header"
    /\ got = << >>
    /\ size = 0
    /\ delivered = << >>
    /\ overrun = FALSE
    /\ inStep = 0
-----------------------------------------------------------------------------
(* The line.                                                               *)

Send(n) ==
    /\ sent < MaxFrames
    /\ sizes' = Append(sizes, n)
    /\ line' = line \o Cells(sent + 1, n)
    /\ UNCHANGED <<noise, readVars, delivered, overrun, inStep>>

Lose(i) ==
    /\ noise < MaxNoise
    /\ noise' = noise + 1
    /\ line' = RemoveAt(line, i)
    /\ inStep' = -1
    /\ UNCHANGED <<sizes, readVars, delivered, overrun>>

Spoil(i) ==
    /\ noise < MaxNoise
    /\ noise' = noise + 1
    /\ line' = [line EXCEPT ![i] = Spoilt]
    /\ inStep' = -1
    /\ UNCHANGED <<sizes, readVars, delivered, overrun>>
-----------------------------------------------------------------------------
(* BaseLoop.                                                               *)

\* The size field of a header: bytes 3 and 4 if they are one frame's.
SizesRead(header) ==
    LET f == header[3].frame
    IN  IF f # 0 /\ header[3].place = 3
                 /\ header[4] = [frame |-> f, place |-> 4]
          THEN {sizes[f]}
          ELSE GarbageSizes

\* Slip: a frame as long as the buffer and longer is let through.
ReadHeaderAny ==
    /\ pc = "header"
    /\ Len(line) >= HeaderSize
    /\ pc' = "body"
    /\ got' = SubSeq(line, 1, HeaderSize)
    /\ size' \in SizesRead(got')
    /\ line' = SubSeq(line, HeaderSize + 1, Len(line))
    /\ UNCHANGED <<sendVars, delivered, overrun, inStep>>

\* A header arrives; one that announces too much is dropped (continue).
ReadHeader ==
    /\ pc = "header"
    /\ Len(line) >= HeaderSize
    /\ \E n \in SizesRead(SubSeq(line, 1, HeaderSize)) :
          \/ /\ n > BufferSize
             /\ UNCHANGED readVars
          \/ /\ n <= BufferSize
             /\ pc' = "body"
             /\ got' = SubSeq(line, 1, HeaderSize)
             /\ size' = n
    /\ line' = SubSeq(line, HeaderSize + 1, Len(line))
    /\ UNCHANGED <<sendVars, delivered, overrun, inStep>>

BodyLen == size + CrcSize

\* Whose frame are these bytes?  0: nobody's.
FrameOf(bytes) ==
    IF \E f \in 1..sent : bytes = Cells(f, sizes[f])
      THEN bytes[1].frame
      ELSE 0

\* The next k bytes are taken off the line and a new header is awaited.
LeaveBody(k) ==
    /\ line' = SubSeq(line, k + 1, Len(line))
    /\ pc' = "header"
    /\ got' = << >>
    /\ size' = 0

\* Header and body have room in the buffer.
FitsBuffer == HeaderSize + BodyLen <= BufferSize

BodyFrame == FrameOf(got \o SubSeq(line, 1, BodyLen))

\* Slip: a frame that decode refuses leaves the last packet where it was.
ReadBodyStale ==
    /\ pc = "body"
    /\ Len(line) >= BodyLen
    /\ FitsBuffer
    /\ delivered' = IF BodyFrame # 0 THEN Append(delivered, BodyFrame)
                     ELSE IF delivered = << >> THEN << >>
                     ELSE Append(delivered, delivered[Len(delivered)])
    /\ LeaveBody(BodyLen)
    /\ UNCHANGED <<sendVars, overrun, inStep>>

\* The rest arrives and goes through decode; OnMessage gets what passes: a whole
\* frame, or one that is none but has its CRC right.
ReadBody ==
    /\ pc = "body"
    /\ Len(line) >= BodyLen
    /\ FitsBuffer
    /\ \/ delivered' = Append(delivered, BodyFrame)
       \/ BodyFrame = 0 /\ UNCHANGED delivered
    /\ LeaveBody(BodyLen)
    /\ UNCHANGED <<sendVars, overrun, inStep>>

\* std::copy behind the header writes past the end of the buffer: from here on
\* the program may do anything, and the model stops.
ReadBodyOverrun ==
    /\ pc = "body"
    /\ Len(line) >= BodyLen
    /\ ~FitsBuffer
    /\ overrun' = TRUE
    /\ UNCHANGED <<line, sendVars, readVars, delivered, inStep>>

\* How many bytes the read in progress waits for.
Wanted == IF pc = "header" THEN HeaderSize ELSE BodyLen

\* A read that gives up has taken k bytes off the line.  In step it was waiting
\* for a header with nothing taken; with nothing left on the line it will be.
StepAfter(k) ==
    inStep' = IF inStep = -1 /\ k = Len(line) THEN sent
              ELSE IF k = Len(line) \/ (k = 0 /\ pc = "header") THEN inStep
              ELSE -1

GivesUp(k) == k < Wanted /\ (SlowBytes \/ k = Len(line))

\* Slip: the loop resumes the read it was in.
TimeoutResumes(k) ==
    /\ GivesUp(k)
    /\ line' = SubSeq(line, k + 1, Len(line))
    /\ StepAfter(k)
    /\ UNCHANGED <<sendVars, readVars, delivered, overrun>>

\* ReadTimeout leaves both reads: the k bytes that came, and the header, go.
Timeout(k) ==
    /\ GivesUp(k)
    /\ LeaveBody(k)
    /\ StepAfter(k)
    /\ UNCHANGED <<sendVars, delivered, overrun>>
-----------------------------------------------------------------------------
Timeouts == \E k \in 0..Len(line) : Timeout(k)

Next ==
    /\ ~overrun
    /\ \/ \E n \in Sizes : Send(n)
       \/ \E i \in DOMAIN line : Lose(i)
       \/ \E i \in DOMAIN line : Spoil(i)
       \/ ReadHeader
       \/ ReadBody
       \/ ReadBodyOverrun
       \/ Timeouts

Spec == Init /\ [][Next]_vars

\* The loop thread reads what has come and times out when nothing more does.
FairSpec ==
    /\ Spec
    /\ WF_vars(~overrun /\ (ReadHeader \/ ReadBody \/ ReadBodyOverrun))
    /\ WF_vars(~overrun /\ Timeouts)
-----------------------------------------------------------------------------
(* Correctness.                                                            *)

\* Every variable keeps its type.
FrameTypeOK ==
    /\ line \in Seq([frame : 0..sent, place : Nat])
    /\ sizes \in Seq(Sizes)
    /\ noise \in 0..MaxNoise
    /\ pc \in {"header", "body"}
    /\ Len(got) = IF pc = "body" THEN HeaderSize ELSE 0
    /\ size \in 0..BufferSize
    /\ delivered \in Seq(0..sent)
    /\ overrun \in BOOLEAN
    /\ inStep \in -1..sent

Fifo == INSTANCE LossyFifo WITH disturbed <- inStep = -1

\* A reader that silence has put back in step loses nothing: as long as it is
\* not disturbed again, each frame sent since has been delivered or is whole
\* before the reader.
Unread == got \o line
WholeAhead(f) ==
    \E i \in 0..(Len(Unread) - FrameLen(sizes[f])) :
        SubSeq(Unread, i + 1, i + FrameLen(sizes[f])) = Cells(f, sizes[f])
InStepLosesNothing ==
    inStep >= 0 =>
        \A f \in inStep + 1 .. sent : WholeAhead(f) \/ Contains(delivered, f)

\* The board's frames are delivered whole, in order and once, and none is forged
\* by a reader that has been in step since the line was last disturbed.
ImplementsLossyFifo == Fifo!Spec

\* After any disturbance one silent read timeout puts the reader back in step: a
\* frame sent to it then is delivered, unless the line is disturbed again.
FrameArrives ==
    \A f \in 1..MaxFrames :
        (inStep \in 0..(f - 1) /\ sent >= f)
            ~> (inStep = -1 \/ Contains(delivered, f) \/ overrun)

\* msg_format.hpp:39, MAX_DATA_SIZE = 512: a frame with as many data bytes as a
\* packet may have can be read.
LargestPacketFits == ~overrun
=============================================================================

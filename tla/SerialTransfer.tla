--------------------------- MODULE SerialTransfer ---------------------------
(***************************************************************************)
(* The loops of SerialPort's Write, WriteByte, Read, ReadByte and ReadLine *)
(* around the system calls of a port that does not block.  write() takes   *)
(* as many bytes as the driver has room for, read() gives as many as have  *)
(* come; either may be none.                                               *)
(*                                                                         *)
(* Two threads write, as in a client; one of them also reads.  A byte      *)
(* written is its call's number and its place in that call's data, a byte  *)
(* received is its place on the line.                                      *)
(***************************************************************************)
EXTENDS Integers, Sequences, SequencesExt

CONSTANTS
    Room,       \* bytes the driver's output queue holds
    Lengths,    \* lengths of the data written
    Wants,      \* numbers of bytes asked for
    Terminators,\* lineTerminator
    Limit,      \* msTimeout, in ticks, of the reads that have a limit
    Characters, \* bound: the bytes that come
    MaxWrites   \* bound: calls of Write

ASSUME SerialTransferAssumption ==
    /\ Room \in Nat \ {0}
    /\ Lengths \subseteq Nat \ {0}
    /\ Wants \subseteq Nat
    /\ Terminators \subseteq 0..255
    /\ Limit \in Nat \ {0}
    /\ Characters \in Seq(0..255)
    /\ MaxWrites \in Nat

Threads == {"app", "loop"}

VARIABLES
    sizes,      \* the length of each Write so far
    writing,    \* the number of each thread's Write, 0 for none
    written,    \* number_of_bytes_written of each thread's Write
    outQueue,   \* bytes in the driver
    wire,       \* bytes sent
    received,   \* how many bytes have come
    inQueue,    \* those not read yet
    pc,         \* where the reader is: "idle", "read", "check" or "line"
    line,       \* it is in a ReadLine
    terminator, \* to this byte
    atLimit,    \* whose ReadByte began with no time left
    raw,        \* the Read is into plain memory and has no limit
    want,       \* numberOfBytes of the Read
    limited,    \* whether it has a limit
    buffer,     \* the bytes in its data buffer
    elapsed,    \* ticks since a read with a limit began, at most Limit + 1
    wouldBlock, \* the reader's errno is EWOULDBLOCK
    ended,      \* how the last Read ended
    hungUp      \* the device is gone

writeVars == <<sizes, writing, written>>
lineVars == <<line, terminator, atLimit>>
callVars == <<raw, want, limited>>
readVars == <<pc, lineVars, callVars, buffer, elapsed, wouldBlock, ended>>
inVars == <<received, inQueue>>
outVars == <<outQueue, wire>>
vars == <<writeVars, outVars, inVars, readVars, hungUp>>

Cell(c, i) == [call |-> c, place |-> i]

Init ==
    /\ sizes = << >>
    /\ writing = [t \in Threads |-> 0]
    /\ written = [t \in Threads |-> 0]
    /\ outQueue = << >>
    /\ wire = << >>
    /\ received = 0
    /\ inQueue = << >>
    /\ pc = "idle"
    /\ line = FALSE /\ terminator = 0
    /\ atLimit = FALSE
    /\ raw = FALSE /\ want = 0 /\ limited = FALSE
    /\ buffer = << >>
    /\ elapsed = 0
    /\ wouldBlock \in BOOLEAN
    /\ ended = "none"
    /\ hungUp = FALSE

Free(t) == writing[t] = 0 /\ (t = "loop" => pc = "idle")
-----------------------------------------------------------------------------
(* Write.                                                                  *)

StartWrite(t, n) ==
    /\ Free(t)
    /\ Len(sizes) < MaxWrites
    /\ sizes' = Append(sizes, n)
    /\ writing' = [writing EXCEPT ![t] = Len(sizes) + 1]
    /\ written' = [written EXCEPT ![t] = 0]
    /\ UNCHANGED <<outVars, inVars, readVars, hungUp>>

Remaining(t) == sizes[writing[t]] - written[t]

\* Slip: the loop starts from the first byte again.
ChunkFromStart(t, k) == [i \in 1..k |-> Cell(writing[t], i)]

\* The bytes write() is given, when it takes k of them.
Chunk(t, k) == [i \in 1..k |-> Cell(writing[t], written[t] + i)]

EndWrite(t) == writing' = [writing EXCEPT ![t] = 0]

\* write() takes k bytes; if it has no room the loop calls it again.
WriteSome(t, k) ==
    /\ writing[t] # 0
    /\ ~hungUp
    /\ k <= Remaining(t)
    /\ k <= Room - Len(outQueue)
    /\ outQueue' = outQueue \o Chunk(t, k)
    /\ written' = [written EXCEPT ![t] = @ + k]
    /\ IF k = Remaining(t) THEN EndWrite(t) ELSE UNCHANGED writing
    /\ UNCHANGED <<sizes, wire, inVars, readVars, hungUp>>

\* Slip: any failure is taken for a lack of room, and tried again.
WriteFailsRetries(t) ==
    /\ writing[t] # 0
    /\ hungUp
    /\ UNCHANGED vars

\* write() fails for another reason than a lack of room: runtime_error.
WriteFails(t) ==
    /\ writing[t] # 0
    /\ hungUp
    /\ EndWrite(t)
    /\ UNCHANGED <<sizes, written, outVars, inVars, readVars, hungUp>>

Transmit ==
    /\ outQueue # << >>
    /\ ~hungUp
    /\ wire' = Append(wire, Head(outQueue))
    /\ outQueue' = Tail(outQueue)
    /\ UNCHANGED <<writeVars, inVars, readVars, hungUp>>
-----------------------------------------------------------------------------
(* Read, by the loop thread.                                               *)

Begins ==
    /\ Free("loop")
    /\ atLimit' = FALSE
    /\ buffer' = << >>
    /\ elapsed' = 0
    /\ UNCHANGED <<writeVars, outVars, inVars, wouldBlock, hungUp>>

\* Nothing is read: no byte is asked for and there is no limit, or the memory is
\* plain and one of the two is so.
ReturnsAtOnce(n, lim, plain) == IF plain THEN n = 0 \/ ~lim ELSE n = 0 /\ ~lim

\* Read into a DataBuffer, a string or plain memory; ReadByte is Read of one byte.
StartRead(n, lim, plain) ==
    /\ Begins
    /\ IF ReturnsAtOnce(n, lim, plain)
         THEN ended' = "done" /\ UNCHANGED pc
         ELSE ended' = "none" /\ pc' = "read"
    /\ want' = n
    /\ limited' = lim
    /\ raw' = (plain /\ ~lim)
    /\ line' = FALSE /\ terminator' = 0

\* ReadLine, whose bytes are read one by one.
StartReadLine(char, lim) ==
    /\ Begins
    /\ ended' = "none"
    /\ pc' = "line"
    /\ want' = 0
    /\ limited' = lim
    /\ raw' = FALSE
    /\ line' = TRUE /\ terminator' = char

EndRead(how) == pc' = "idle" /\ ended' = how /\ elapsed' = 0 /\ atLimit' = FALSE
GoesOn(next) == pc' = next /\ UNCHANGED <<ended, elapsed, atLimit>>
readerUnchanged == UNCHANGED <<writeVars, outVars, line, terminator, callVars, hungUp>>

\* What a char is compared as: it has a sign, on a PC.
AsInt(char) == IF char < 128 THEN char ELSE char - 256

\* An unsigned char, zero to begin with.
next_char == IF buffer = << >> THEN 0 ELSE Characters[Last(buffer)]

\* The line is whole, or the limit is past, or ReadByte is called with the time
\* that remains; none remaining is no limit.
NextOfLine ==
    /\ pc = "line"
    /\ IF next_char = AsInt(terminator)
         THEN EndRead("done")
       ELSE IF limited /\ elapsed > Limit
         THEN EndRead("ReadTimeout")
       ELSE /\ pc' = "read"
            /\ atLimit' = (limited /\ elapsed = Limit)
            /\ UNCHANGED <<ended, elapsed>>
    /\ UNCHANGED <<inVars, buffer, wouldBlock>>
    /\ readerUnchanged

\* Slip: as many as in the first place.
AskedAgain == IF want = 0 THEN 1 ELSE want

\* How many bytes read() is asked for: one at a time if no number was given.
Asked == IF want = 0 THEN 1 ELSE want - Len(buffer)
Least(a, b) == IF a <= b THEN a ELSE b

\* read() gives what has come, up to the number asked for.
ReadSome ==
    /\ pc = "read"
    /\ inQueue # << >>
    /\ LET k == Least(Asked, Len(inQueue)) IN
       /\ buffer' = buffer \o SubSeq(inQueue, 1, k)
       /\ inQueue' = SubSeq(inQueue, k + 1, Len(inQueue))
       /\ IF want # 0 /\ k = Asked
            THEN EndRead("done")
            ELSE GoesOn(IF line THEN "line" ELSE "check")
    /\ UNCHANGED <<received, wouldBlock>>
    /\ readerUnchanged

\* read() finds nothing: EWOULDBLOCK.
ReadEmpty ==
    /\ pc = "read"
    /\ inQueue = << >>
    /\ ~hungUp
    /\ wouldBlock' = TRUE
    /\ GoesOn("check")
    /\ UNCHANGED <<inVars, buffer>>
    /\ readerUnchanged

\* The device is gone: read() returns 0 and leaves errno as it is.
ReadGone ==
    /\ pc = "read"
    /\ inQueue = << >>
    /\ hungUp
    /\ IF wouldBlock THEN GoesOn("check") ELSE EndRead("runtime_error")
    /\ UNCHANGED <<inVars, buffer, wouldBlock>>
    /\ readerUnchanged

\* Slip: only a read() that finds nothing counts towards the limit.
CheckLimitIfEmpty ==
    /\ pc = "check"
    /\ IF limited /\ ~atLimit /\ elapsed > Limit /\ buffer = << >>
         THEN EndRead("ReadTimeout")
         ELSE GoesOn("read")
    /\ UNCHANGED <<inVars, buffer, wouldBlock>>
    /\ readerUnchanged

\* The limit is looked at, then the loop sleeps for a byte's time.
CheckLimit ==
    /\ pc = "check"
    /\ IF limited /\ ~atLimit /\ elapsed > Limit
         THEN EndRead("ReadTimeout")
         ELSE GoesOn("read")
    /\ UNCHANGED <<inVars, buffer, wouldBlock>>
    /\ readerUnchanged
-----------------------------------------------------------------------------
(* Time, the line and the device.                                          *)

Tick ==
    /\ pc # "idle"
    /\ limited
    /\ elapsed <= Limit
    /\ elapsed' = elapsed + 1
    /\ UNCHANGED <<writeVars, outVars, inVars, pc, lineVars, callVars, buffer, wouldBlock, ended, hungUp>>

Arrive ==
    /\ ~hungUp
    /\ received < Len(Characters)
    /\ received' = received + 1
    /\ inQueue' = Append(inQueue, received + 1)
    /\ UNCHANGED <<writeVars, outVars, readVars, hungUp>>

HangUp ==
    /\ ~hungUp
    /\ hungUp' = TRUE
    /\ UNCHANGED <<writeVars, outVars, inVars, readVars>>

\* errno is what the last failing call of the thread left there.
OtherErrno ==
    /\ pc = "idle"
    /\ wouldBlock' = FALSE
    /\ UNCHANGED <<writeVars, outVars, inVars, pc, lineVars, callVars, buffer, elapsed, ended, hungUp>>

Reading == NextOfLine \/ ReadSome \/ ReadEmpty \/ ReadGone \/ CheckLimit
Writing(t) == (\E k \in 1..Room : WriteSome(t, k)) \/ WriteFails(t)

Next ==
    \/ \E t \in Threads, n \in Lengths : StartWrite(t, n)
    \/ \E t \in Threads : Writing(t)
    \/ Transmit
    \/ \E n \in Wants, lim, plain \in BOOLEAN : StartRead(n, lim, plain)
    \/ \E char \in Terminators, lim \in BOOLEAN : StartReadLine(char, lim)
    \/ Reading
    \/ Tick \/ Arrive \/ HangUp \/ OtherErrno

Spec == Init /\ [][Next]_vars

\* Both threads run, time passes, and the driver transmits.  A thread that
\* finds no room tries again, and room it has been offered again and again it
\* takes at last.
Fairness ==
    /\ \A t \in Threads : SF_vars(Writing(t))
    /\ WF_vars(Transmit)
    /\ WF_vars(Reading)
    /\ WF_vars(Tick)

FairSpec == Spec /\ Fairness
-----------------------------------------------------------------------------
(* Properties.                                                             *)

\* What the driver has taken, in order, and which of it is of Write c.
Line == wire \o outQueue
Places(c) == {Line[i].place : i \in {i \in DOMAIN Line : Line[i].call = c}}

\* However the driver splits the data of a Write, and whatever the other thread
\* writes meanwhile, the line gets its bytes in order and each once; all of
\* them once Write has returned, unless the device went.
WritesAreWhole ==
    /\ \A i, j \in DOMAIN Line :
          i < j /\ Line[i].call = Line[j].call => Line[i].place < Line[j].place
    /\ \A c \in DOMAIN sizes :
          /\ \E n \in 0..sizes[c] : Places(c) = 1..n
          /\ (\A t \in Threads : writing[t] # c) /\ ~hungUp => Places(c) = 1..sizes[c]

\* A Read that returns has exactly the bytes asked for, the next ones on the
\* line, in order, but for one into plain memory without a limit, which has none;
\* a ReadLine those up to the first terminator, if that is neither the zero byte,
\* at which it returns an empty line, nor negative as a char, which it reads on
\* past.  One that throws has lost none but those it returns.
ReadsAreWhole ==
    /\ buffer \o inQueue =
          [i \in 1..(Len(buffer) + Len(inQueue)) |->
              received - Len(buffer) - Len(inQueue) + i]
    /\ ended = "done" /\ ~line => Len(buffer) = IF raw THEN 0 ELSE want
    /\ ended = "done" /\ line /\ terminator # 0 => buffer # << >>
    /\ ended = "done" /\ line =>
          \A i \in DOMAIN buffer : Characters[buffer[i]] = terminator <=> i = Len(buffer)
    /\ ended = "ReadTimeout" /\ want # 0 => Len(buffer) < want
    /\ ended = "ReadTimeout" /\ line /\ terminator < 128 =>
          \A i \in DOMAIN buffer : Characters[buffer[i]] # terminator

\* A Read with a limit ends, whether bytes come, stop coming or the device goes,
\* unless it is a ReadLine that asks for a byte when exactly its limit has passed:
\* that byte is waited for without a limit.
ReadEnds == pc # "idle" /\ limited ~> pc = "idle" \/ atLimit

\* A Write ends: the driver takes its bytes in the end, or the device has gone.
WriteEnds == \A t \in Threads : writing[t] # 0 ~> writing[t] = 0
=============================================================================

--------------------------- MODULE SerialStreamBuf ---------------------------
(***************************************************************************)
(* The unbuffered streambuf of a serial port: what each of its virtual     *)
(* functions does with the line and with the one character it can hold.    *)
(* A byte received is its number, and so is a byte sent.                   *)
(***************************************************************************)
EXTENDS Integers, Sequences

VARIABLES
    mPutbackAvailable,
    mPutbackChar,
    waits,      \* a read of an empty line waits for a byte
    inQueue,    \* bytes in the driver, not read yet
    outQueue,   \* bytes in the driver, not transmitted yet
    wire,       \* bytes transmitted
    hungUp      \* the device is gone

putback == <<mPutbackAvailable, mPutbackChar>>
outVars == <<outQueue, wire>>
bufVars == <<putback, waits, inQueue, outVars, hungUp>>

BufInit ==
    /\ mPutbackAvailable = FALSE
    /\ mPutbackChar = 0
    /\ waits = FALSE
    /\ inQueue = << >>
    /\ outQueue = << >>
    /\ wire = << >>
    /\ hungUp = FALSE

Least(a, b) == IF a <= b THEN a ELSE b

\* What read() of n bytes may return; nothing while it waits.
Failed == -1
ReadResults(n) ==
    IF inQueue # << >> THEN {Least(n, Len(inQueue))}
    ELSE IF hungUp \/ ~waits THEN {0, Failed} ELSE {}

\* The bytes that a read() which returned k has taken, and those it has left.
Taken(k) == SubSeq(inQueue, 1, k)
Left(k)  == IF k > 0 THEN SubSeq(inQueue, k + 1, Len(inQueue)) ELSE inQueue

\* Slip: the end of the input is held like a character.
UnderflowHoldsEnd(found) ==
    \/ /\ mPutbackAvailable
       /\ found
       /\ UNCHANGED <<putback, inQueue>>
    \/ /\ ~mPutbackAvailable
       /\ \E k \in ReadResults(1) :
             /\ found = (k = 1)
             /\ inQueue' = Left(k)
             /\ mPutbackChar' = IF k = 1 THEN Head(inQueue) ELSE Failed
             /\ mPutbackAvailable' = TRUE

\* underflow: the next character becomes the one held, if it is not yet.
\* There is none if there is nothing to read.
Underflow(found) ==
    \/ /\ mPutbackAvailable
       /\ found
       /\ UNCHANGED <<putback, inQueue>>
    \/ /\ ~mPutbackAvailable
       /\ \E k \in ReadResults(1) :
             /\ found = (k = 1)
             /\ inQueue' = Left(k)
             /\ IF k = 1 THEN /\ mPutbackChar' = Head(inQueue)
                              /\ mPutbackAvailable' = TRUE
                         ELSE UNCHANGED putback

\* Slip: the character stays held.
UflowKeeps(found) == Underflow(found)

\* uflow: underflow, and the character is held no longer.
Uflow(found) ==
    /\ mPutbackAvailable' = FALSE
    /\ \/ /\ mPutbackAvailable
          /\ found
          /\ UNCHANGED <<mPutbackChar, inQueue>>
       \/ /\ ~mPutbackAvailable
          /\ \E k \in ReadResults(1) :
                /\ found = (k = 1)
                /\ inQueue' = Left(k)
                /\ mPutbackChar' = IF k = 1 THEN Head(inQueue) ELSE mPutbackChar

\* xsgetn: what it may give for n bytes asked for, and what it leaves on the
\* line.  The character held comes first and does not count by itself: if it
\* is all that is asked for, or if read() fails, nothing is given.
Gives(bytes, k) == [bytes |-> bytes, left |-> Left(k)]
Xsgetn(n) ==
    IF ~mPutbackAvailable THEN {Gives(Taken(k), k) : k \in ReadResults(n)}
    ELSE IF n = 1 THEN {Gives(<< >>, 0)}
    ELSE {Gives(IF k = Failed THEN << >> ELSE <<mPutbackChar>> \o Taken(k), k) :
              k \in ReadResults(n - 1)}

\* pbackfail: there is room for one character.
Pbackfail(char, done) ==
    /\ done = ~mPutbackAvailable
    /\ mPutbackAvailable' = TRUE
    /\ mPutbackChar' = IF done THEN char ELSE mPutbackChar
    /\ UNCHANGED inQueue

\* showmanyc: counts the bytes in the driver, and marks a character as held
\* without having read one.
Showmanyc ==
    /\ mPutbackAvailable' = (mPutbackAvailable \/ inQueue # << >>)
    /\ UNCHANGED <<mPutbackChar, inQueue>>

\* What write() of n bytes may return; what it has taken is on its way.
WriteResults(n) == {Failed} \cup (IF hungUp THEN {} ELSE 0..n)
Writes(bytes, k) ==
    /\ outQueue' = outQueue \o SubSeq(bytes, 1, k)
    /\ UNCHANGED wire

\* Slip: a write that has taken some is taken for one that has taken all.
XsputnAll(n, k) == IF k > 0 THEN n ELSE 0

\* xsputn, and overflow of one character: what they say was written.
Xsputn(n, k) == IF k > 0 THEN k ELSE 0

\* tcflush of the driver's queues.
FlushQueues(input, output) ==
    /\ inQueue'  = IF input THEN << >> ELSE inQueue
    /\ outQueue' = IF output THEN << >> ELSE outQueue
    /\ UNCHANGED <<putback, waits, wire, hungUp>>
=============================================================================

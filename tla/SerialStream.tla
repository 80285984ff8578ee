---------------------------- MODULE SerialStream ----------------------------
(***************************************************************************)
(* SerialStream: an iostream over a SerialStreamBuf, used by one thread.   *)
(* A call on a stream that is not good sets failbit and does nothing else. *)
(*                                                                         *)
(* Close destroys the buffer but leaves the stream pointing to it; what a  *)
(* call then does is undefined, and the program's behaviour ends there.    *)
(***************************************************************************)
EXTENDS SerialStreamBuf, SequencesExt

CONSTANTS
    ReadSizes,  \* the sizes the program reads
    WriteSizes, \* the sizes it writes
    Careful,    \* it calls in_avail only when it has peeked
    MaxBytes,   \* bound: bytes received
    MaxSent,    \* bound: bytes given to the stream
    MaxDiscards \* bound: flushes and hang-ups

ASSUME SerialStreamAssumption ==
    /\ ReadSizes \subseteq Nat \ {0}
    /\ WriteSizes \subseteq Nat \ {0}
    /\ Careful \in BOOLEAN
    /\ {MaxBytes, MaxSent, MaxDiscards} \subseteq Nat

VARIABLES
    mIOBuffer,  \* "null", or its port: "open" or "closed"
    rdbuf,      \* the streambuf the stream uses; "used" once a destroyed one was
    iostate,    \* the bits set of badbit, failbit and eofbit
    received,   \* how many bytes have come
    got,        \* history: the bytes the program has got
    given,      \* history: how many bytes it has given to the stream
    unsure,     \* history: a call set badbit for them, or some were dropped since
    discards    \* history: how often the input was discarded

streamVars == <<mIOBuffer, rdbuf, iostate>>
history == <<received, got, given, unsure, discards>>
vars == <<bufVars, streamVars, history>>

Init ==
    /\ BufInit
    /\ mIOBuffer = "null"
    /\ rdbuf = "null"
    /\ iostate = {"badbit"}
    /\ received = 0
    /\ got = << >>
    /\ given = 0
    /\ unsure = FALSE
    /\ discards = 0

Sets(bits) == iostate' = iostate \cup bits
-----------------------------------------------------------------------------
(* Opening and closing.                                                    *)

\* A new buffer holds nothing and clears the stream's state; a buffer left by
\* an Open that failed is used as it is.
NewBuffer ==
    /\ rdbuf' = "mIOBuffer"
    /\ IF mIOBuffer = "null" THEN mPutbackAvailable' = FALSE /\ mPutbackChar' = 0
                             ELSE UNCHANGED putback

Cleared == IF mIOBuffer = "null" THEN {} ELSE iostate

Open ==
    /\ mIOBuffer # "open"
    /\ rdbuf # "used"
    /\ ~hungUp
    /\ NewBuffer
    /\ mIOBuffer' = "open"
    /\ waits' = TRUE
    /\ iostate' = Cleared
    /\ UNCHANGED <<inQueue, outVars, hungUp, history>>

\* The port cannot be opened; or it can, but not be set up, and stays open.
OpenFails ==
    /\ mIOBuffer # "open"
    /\ rdbuf # "used"
    /\ NewBuffer
    /\ mIOBuffer' \in {"closed"} \cup (IF hungUp THEN {} ELSE {"open"})
    /\ waits' = FALSE
    /\ iostate' = Cleared \cup {"failbit"}
    /\ UNCHANGED <<inQueue, outVars, hungUp, history>>

OpenTwice ==
    /\ mIOBuffer = "open"
    /\ Sets({"failbit"})
    /\ UNCHANGED <<bufVars, mIOBuffer, rdbuf, history>>

\* Close, and the destructor.
Close ==
    /\ mIOBuffer # "null"
    /\ mIOBuffer' = "null"
    /\ rdbuf' = "dangling"
    /\ mPutbackAvailable' = FALSE
    /\ inQueue' = << >>
    /\ outQueue' = << >>
    /\ unsure' = (unsure \/ outQueue # << >>)
    /\ UNCHANGED <<iostate, mPutbackChar, waits, wire, hungUp,
                   received, got, given, discards>>

UseAfterClose ==
    /\ rdbuf = "dangling"
    /\ rdbuf' = "used"
    /\ UNCHANGED <<bufVars, mIOBuffer, iostate, history>>
-----------------------------------------------------------------------------
(* The functions SerialStream adds: each hands its call to the buffer.     *)

Usable == rdbuf = "mIOBuffer" /\ mIOBuffer = "open"

\* There is no buffer; its port is not open; or a system call fails.
CallFails ==
    /\ rdbuf \in {"null", "mIOBuffer"}
    /\ Sets(IF rdbuf = "null" THEN {"badbit"} ELSE {"failbit"})
    /\ UNCHANGED <<bufVars, mIOBuffer, rdbuf, history>>

Flush(input, output) ==
    /\ Usable
    /\ input => discards < MaxDiscards
    /\ FlushQueues(input, output)
    /\ discards' = IF input THEN discards + 1 ELSE discards
    /\ unsure' = (unsure \/ (output /\ outQueue # << >>))
    /\ UNCHANGED <<streamVars, received, got, given>>

\* SetVMin, with VTIME 0.
SetVMin(vmin) ==
    /\ Usable
    /\ waits' = (vmin > 0)
    /\ UNCHANGED <<putback, inQueue, outVars, hungUp, streamVars, history>>

\* DrainWriteBuffer waits until all is transmitted; the getters, the other
\* setters and IsDataAvailable change nothing here.
DrainWriteBuffer ==
    /\ Usable
    /\ outQueue = << >>
    /\ UNCHANGED vars

PassedOn ==
    /\ Usable
    /\ UNCHANGED vars
-----------------------------------------------------------------------------
(* The functions of istream and ostream, as the standard library defines   *)
(* them.                                                                   *)

Ready == iostate = {} /\ Usable

\* The stream is not good; or its port is not open, and the buffer throws.
\* putback and unget forget first that the input had ended.
NotReady ==
    /\ rdbuf \in {"null", "mIOBuffer"}
    /\ \/ iostate # {} /\ Sets({"failbit"})
       \/ ~(iostate \subseteq {"eofbit"}) /\ iostate' = (iostate \ {"eofbit"}) \cup {"failbit"}
       \/ iostate = {} /\ ~Usable /\ Sets({"badbit"})
    /\ UNCHANGED <<bufVars, mIOBuffer, rdbuf, history>>

Clear ==
    /\ rdbuf # "used"
    /\ iostate' = IF rdbuf = "null" THEN {"badbit"} ELSE {}
    /\ UNCHANGED <<bufVars, mIOBuffer, rdbuf, history>>

inputUnchanged ==
    UNCHANGED <<waits, outVars, hungUp, mIOBuffer, rdbuf,
                received, given, unsure>>

NextChar == IF mPutbackAvailable THEN mPutbackChar ELSE Head(inQueue)

Get ==
    /\ Ready
    /\ \E found \in BOOLEAN :
          /\ Uflow(found)
          /\ got' = IF found THEN Append(got, NextChar) ELSE got
          /\ IF found THEN UNCHANGED iostate ELSE Sets({"eofbit", "failbit"})
    /\ UNCHANGED discards
    /\ inputUnchanged

Peek ==
    /\ Ready
    /\ \E found \in BOOLEAN :
          /\ Underflow(found)
          /\ IF found THEN UNCHANGED iostate ELSE Sets({"eofbit"})
    /\ UNCHANGED <<got, discards>>
    /\ inputUnchanged

\* A read that gets fewer bytes than it asked for sets eofbit and failbit, even
\* if more are to come.  The character held is held no longer, given or not.
Read(n) ==
    /\ Ready
    /\ \E r \in Xsgetn(n) :
          /\ inQueue' = r.left
          /\ got' = got \o r.bytes
          /\ IF Len(r.bytes) = n THEN UNCHANGED iostate
                                 ELSE Sets({"eofbit", "failbit"})
    /\ mPutbackAvailable' = FALSE
    /\ UNCHANGED <<mPutbackChar, discards>>
    /\ inputUnchanged

\* rdbuf()->in_avail()
InAvail ==
    /\ Usable
    /\ Careful => mPutbackAvailable
    /\ Showmanyc
    /\ UNCHANGED <<iostate, got, discards>>
    /\ inputUnchanged

\* putback of the character got last; unget has no character to put back.
PutBack ==
    /\ iostate \subseteq {"eofbit"}
    /\ Usable
    /\ got # << >>
    /\ \E done \in BOOLEAN :
          /\ Pbackfail(Last(got), done)
          /\ got' = IF done THEN Front(got) ELSE got
          /\ iostate' = IF done THEN {} ELSE {"badbit"}
    /\ UNCHANGED discards
    /\ inputUnchanged

Unget ==
    /\ iostate \subseteq {"eofbit"}
    /\ Usable
    /\ iostate' = {"badbit"}
    /\ UNCHANGED <<putback, inQueue, got, discards>>
    /\ inputUnchanged

\* write of n bytes, or put of one.
Write(n) ==
    /\ Ready
    /\ given + n <= MaxSent
    /\ \E k \in WriteResults(n) :
          /\ Writes([i \in 1..n |-> given + i], k)
          /\ iostate' = IF Xsputn(n, k) = n THEN {} ELSE {"badbit"}
    /\ unsure' = (unsure \/ iostate' # {})
    /\ given' = given + n
    /\ UNCHANGED <<putback, waits, inQueue, hungUp, mIOBuffer, rdbuf,
                   received, got, discards>>
-----------------------------------------------------------------------------
(* The device.                                                             *)

Arrive ==
    /\ mIOBuffer = "open"
    /\ ~hungUp
    /\ received < MaxBytes
    /\ received' = received + 1
    /\ inQueue' = Append(inQueue, received + 1)
    /\ UNCHANGED <<putback, waits, outVars, hungUp, streamVars, got, given,
                   unsure, discards>>

Transmit ==
    /\ outQueue # << >>
    /\ wire' = Append(wire, Head(outQueue))
    /\ outQueue' = Tail(outQueue)
    /\ UNCHANGED <<putback, waits, inQueue, hungUp, streamVars, history>>

HangUp ==
    /\ ~hungUp
    /\ discards < MaxDiscards
    /\ hungUp' = TRUE
    /\ inQueue' = << >>
    /\ outQueue' = << >>
    /\ discards' = discards + 1
    /\ unsure' = TRUE
    /\ UNCHANGED <<putback, waits, wire, streamVars, received, got, given>>

Next ==
    \/ Open \/ OpenFails \/ OpenTwice \/ Close \/ UseAfterClose
    \/ CallFails \/ DrainWriteBuffer \/ PassedOn
    \/ Flush(TRUE, FALSE) \/ Flush(FALSE, TRUE) \/ Flush(TRUE, TRUE)
    \/ \E vmin \in {0, 1} : SetVMin(vmin)
    \/ NotReady \/ Clear
    \/ Get \/ Peek \/ InAvail \/ PutBack \/ Unget
    \/ \E n \in ReadSizes : Read(n)
    \/ \E n \in WriteSizes : Write(n)
    \/ Arrive \/ Transmit \/ HangUp

Spec == Init /\ [][Next]_vars
-----------------------------------------------------------------------------
(* Properties.                                                             *)

\* The types of the variables.  Only an open port holds anything, and the
\* stream never points to a live buffer other than its own.
StreamTypeOK ==
    /\ mIOBuffer \in {"null", "open", "closed"}
    /\ rdbuf \in {"null", "mIOBuffer", "dangling", "used"}
    /\ mIOBuffer = "null" <=> rdbuf # "mIOBuffer"
    /\ iostate \subseteq {"badbit", "failbit", "eofbit"}
    /\ rdbuf = "null" => iostate # {}
    /\ mPutbackAvailable \in BOOLEAN /\ waits \in BOOLEAN
    /\ hungUp \in BOOLEAN /\ unsure \in BOOLEAN
    /\ mPutbackChar \in Nat
    /\ inQueue \in Seq(Nat) /\ outQueue \in Seq(Nat) /\ wire \in Seq(Nat)
    /\ received \in Nat /\ given \in Nat /\ discards \in Nat
    /\ got \in Seq(Nat)
    /\ mIOBuffer # "open" => /\ ~mPutbackAvailable
                             /\ inQueue = << >> /\ outQueue = << >>

\* The bytes the program has still to get.
Line == IF mPutbackAvailable THEN <<mPutbackChar>> \o inQueue ELSE inQueue

Promise == INSTANCE ByteStream WITH
    isOpen <- mIOBuffer = "open", line <- Line, held <- mPutbackAvailable,
    failed <- "failbit" \in iostate

\* However peeks, reads of any size, put-backs, flushes and closings follow each
\* other, the program gets the bytes in order and each once, and none that came
\* before the port was opened.  A byte that was peeked at or put back may be
\* lost, but only by a read that sets failbit: one of one byte, or one whose
\* read() fails.
ImplementsByteStream == Promise!Spec

\* As long as no call has set badbit, everything the program gave to the stream
\* is on its way: the driver may take a part of the data only.
GoodMeansSent == ~unsure => wire \o outQueue = [i \in 1..given |-> i]

\* SerialStreamBuf.h:397-401, while(serial_port.rdbuf()->in_avail() > 0)
\* { serial_port.get(ch) ; }: what get then returns are bytes that were
\* received, each once.
GotWereReceived ==
    \A i \in DOMAIN got :
        /\ got[i] \in 1..received
        /\ \A j \in 1..(i - 1) : got[j] < got[i]
=============================================================================

---------------------------- MODULE StreamProofs ----------------------------
(***************************************************************************)
(* Proofs for SerialStream, for any sizes and any number of bytes and      *)
(* calls: its type invariant; that a good stream has sent what it was      *)
(* given; and, if in_avail is not trusted, that it implements ByteStream.  *)
(***************************************************************************)
EXTENDS SerialStream, SequenceTheorems, TLAPS

USE DEF putback, outVars, bufVars, streamVars, history, vars
-----------------------------------------------------------------------------
(* Sequences of bytes.                                                     *)

LEMMA SubSeqType ==
    ASSUME NEW s \in Seq(Nat), NEW a \in 1..(Len(s) + 1), NEW b \in 0..Len(s)
    PROVE  SubSeq(s, a, b) \in Seq(Nat)
  OBVIOUS

LEMMA Associative ==
    \A s, t, u \in Seq(Nat) : (s \o t) \o u = s \o (t \o u)
  BY SMTT(30)

\* A sequence is what was taken from its front and what was left.
LEMMA TakenAndLeft ==
    ASSUME NEW s \in Seq(Nat), NEW k \in 0..Len(s)
    PROVE  SubSeq(s, 1, k) \o SubSeq(s, k + 1, Len(s)) = s
  <1>1. 1 \in 1..(Len(s) + 1) /\ k \in (1 - 1)..Len(s) /\ Len(s) \in k..Len(s)
    OBVIOUS
  <1>2. SubSeq(s, 1, k) \o SubSeq(s, k + 1, Len(s)) = SubSeq(s, 1, Len(s))
    BY <1>1, ConcatAdjacentSubSeq, ZenonT(30)
  <1>. QED  BY <1>2, SubSeqFull, Zenon

LEMMA HeadAndTail ==
    ASSUME NEW s \in Seq(Nat), s # << >>
    PROVE  /\ Head(s) \in Nat
           /\ SubSeq(s, 2, Len(s)) \in Seq(Nat)
           /\ <<Head(s)>> \o SubSeq(s, 2, Len(s)) = s
  <1>1. 1 \in 1..Len(s) /\ Len(s) \in 1..Len(s) /\ Head(s) = s[1]
    OBVIOUS
  <1>2. SubSeq(s, 1, Len(s)) = <<s[1]>> \o SubSeq(s, 1 + 1, Len(s))
    BY <1>1, SubSeqRecursiveFirst, ZenonT(30)
  <1>3. SubSeq(s, 1, Len(s)) = s
    BY SubSeqFull, Zenon
  <1>. QED  BY <1>1, <1>2, <1>3, SubSeqType

LEMMA FirstOfConcat ==
    ASSUME NEW s \in Seq(Nat), NEW c \in Nat, NEW g \in Seq(Nat)
    PROVE  /\ 1 \in 1..Len(<<c>> \o s)
           /\ g \o SubSeq(<<c>> \o s, 1, 1) = Append(g, c)
           /\ SubSeq(<<c>> \o s, 1 + 1, Len(<<c>> \o s)) = s
  OBVIOUS

LEMMA TailOfConcat ==
    ASSUME NEW s \in Seq(Nat), NEW c \in Nat
    PROVE  Tail(<<c>> \o s) = s
  OBVIOUS

LEMMA PartsOfConcat ==
    ASSUME NEW s \in Seq(Nat), NEW t \in Seq(Nat), s # << >>
    PROVE  /\ Len(s) \in 1..Len(s \o t)
           /\ SubSeq(s \o t, 1, Len(s)) = s
           /\ SubSeq(s \o t, Len(s) + 1, Len(s \o t)) = t
  OBVIOUS

LEMMA AppendToConcat ==
    ASSUME NEW s \in Seq(Nat), NEW c \in Nat, NEW d \in Nat
    PROVE  <<c>> \o Append(s, d) = Append(<<c>> \o s, d)
  OBVIOUS

LEMMA FrontOfAppend ==
    ASSUME NEW s \in Seq(Nat), NEW c \in Nat
    PROVE  Append(s, c) # << >> /\ Front(Append(s, c)) = s
  BY DEF Front

\* What read() may have returned.
LEMMA ReadRange ==
    ASSUME inQueue \in Seq(Nat), NEW n \in Nat \ {0}, NEW k \in ReadResults(n)
    PROVE  /\ k \in -1..Len(inQueue)
           /\ k <= n
           /\ k <= 0 => inQueue = << >>
  BY DEF ReadResults, Least, Failed

\* What it has left on the line.
LEMMA LeftType ==
    ASSUME inQueue \in Seq(Nat), NEW k \in -1..Len(inQueue)
    PROVE  /\ Left(k) \in Seq(Nat)
           /\ Taken(k) \in Seq(Nat)
           /\ k <= 0 => Left(k) = inQueue /\ Taken(k) = << >>
           /\ k > 0 => Taken(k) = SubSeq(inQueue, 1, k) /\ Len(Taken(k)) = k
  BY SMTT(30) DEF Left, Taken
-----------------------------------------------------------------------------
(* What the functions of the buffer do with the bytes still to get.        *)

LEMMA LineType == StreamTypeOK => Line \in Seq(Nat)
  BY DEF StreamTypeOK, Line

\* read() of one byte gives the first one on the line, or nothing.
LEMMA ReadOne ==
    ASSUME StreamTypeOK, NEW k \in ReadResults(1)
    PROVE  /\ Left(k) \in Seq(Nat)
           /\ k = 1 => /\ Head(inQueue) \in Nat
                       /\ <<Head(inQueue)>> \o Left(k) = inQueue
           /\ k # 1 => Left(k) = inQueue
  <1>1. inQueue \in Seq(Nat) /\ 1 \in Nat \ {0}
    BY DEF StreamTypeOK
  <1>2. k \in -1..Len(inQueue) /\ k <= 1
    BY <1>1, ReadRange
  <1>3. Left(k) \in Seq(Nat) /\ (k <= 0 => Left(k) = inQueue)
    BY <1>1, <1>2, LeftType
  <1>4. CASE k = 1
    <2>1. inQueue # << >>
      BY <1>1, <1>2, <1>4
    <2>2. Left(k) = SubSeq(inQueue, 2, Len(inQueue))
      BY <1>4 DEF Left
    <2>. QED  BY <1>1, <1>3, <1>4, <2>1, <2>2, HeadAndTail
  <1>5. CASE k # 1
    BY <1>2, <1>3, <1>5
  <1>. QED  BY <1>4, <1>5

LEMMA UnderflowKeepsLine ==
    ASSUME StreamTypeOK, NEW found \in BOOLEAN, Underflow(found)
    PROVE  /\ inQueue' \in Seq(Nat) /\ mPutbackChar' \in Nat
           /\ mPutbackAvailable' \in BOOLEAN
           /\ Line' = Line
           /\ mPutbackAvailable => mPutbackAvailable'
           /\ mPutbackAvailable' => Line # << >>
  <1>1. CASE mPutbackAvailable
    BY <1>1 DEF Underflow, StreamTypeOK, Line
  <1>2. CASE ~mPutbackAvailable
    <2>1. PICK k \in ReadResults(1) :
             /\ inQueue' = Left(k)
             /\ IF k = 1 THEN /\ mPutbackChar' = Head(inQueue)
                              /\ mPutbackAvailable' = TRUE
                         ELSE UNCHANGED putback
      BY <1>2 DEF Underflow
    <2>2. CASE k = 1
      <3>1. /\ mPutbackAvailable' = TRUE /\ mPutbackChar' = Head(inQueue)
            /\ Line = inQueue
        BY <1>2, <2>1, <2>2 DEF Line
      <3>2. /\ inQueue' \in Seq(Nat) /\ Head(inQueue) \in Nat
            /\ <<Head(inQueue)>> \o inQueue' = inQueue
        BY <2>1, <2>2, ReadOne
      <3>3. inQueue # << >>
        BY <3>2
      <3>. QED  BY <1>2, <3>1, <3>2, <3>3 DEF Line
    <2>3. CASE k # 1
      <3>1. inQueue' = inQueue /\ inQueue' \in Seq(Nat)
        BY <2>1, <2>3, ReadOne
      <3>. QED  BY <1>2, <2>1, <2>3, <3>1 DEF StreamTypeOK, Line
    <2>. QED  BY <2>2, <2>3
  <1>. QED  BY <1>1, <1>2

LEMMA UflowTakesFirst ==
    ASSUME StreamTypeOK, NEW found \in BOOLEAN, Uflow(found)
    PROVE  /\ inQueue' \in Seq(Nat) /\ mPutbackChar' \in Nat
           /\ mPutbackAvailable' = FALSE
           /\ found => NextChar \in Nat /\ Line = <<NextChar>> \o inQueue'
           /\ ~found => Line = inQueue' /\ mPutbackAvailable = FALSE
  <1>1. CASE mPutbackAvailable
    BY <1>1 DEF Uflow, StreamTypeOK, Line, NextChar
  <1>2. CASE ~mPutbackAvailable
    <2>1. PICK k \in ReadResults(1) :
             /\ found = (k = 1)
             /\ inQueue' = Left(k)
             /\ mPutbackChar' = IF k = 1 THEN Head(inQueue) ELSE mPutbackChar
      BY <1>2 DEF Uflow
    <2>2. mPutbackAvailable' = FALSE
      BY DEF Uflow
    <2>. QED  BY <1>2, <2>1, <2>2, ReadOne DEF StreamTypeOK, Line, NextChar
  <1>. QED  BY <1>1, <1>2

\* xsgetn gives the first bytes; or nothing, and the character held is lost.
LEMMA XsgetnGivesFirst ==
    ASSUME StreamTypeOK, NEW n \in Nat \ {0}, NEW r \in Xsgetn(n)
    PROVE  /\ r.bytes \in Seq(Nat) /\ r.left \in Seq(Nat)
           /\ IF mPutbackAvailable /\ r.bytes = << >>
                THEN r.left = inQueue ELSE Line = r.bytes \o r.left
  <1>1. inQueue \in Seq(Nat) /\ mPutbackChar \in Nat
    BY DEF StreamTypeOK
  <1>2. ASSUME NEW m \in Nat \ {0}, NEW k \in ReadResults(m)
        PROVE  /\ Left(k) \in Seq(Nat) /\ Taken(k) \in Seq(Nat)
               /\ Taken(k) \o Left(k) = inQueue
               /\ k = Failed => Left(k) = inQueue
    <2>1. k \in -1..Len(inQueue) /\ (k <= 0 => inQueue = << >>)
      BY <1>1, ReadRange
    <2>2. CASE k <= 0
      BY <1>1, <2>1, <2>2, LeftType
    <2>3. CASE k > 0
      <3>1. k \in 0..Len(inQueue)
        BY <2>1, <2>3
      <3>2. Taken(k) = SubSeq(inQueue, 1, k)
            /\ Left(k) = SubSeq(inQueue, k + 1, Len(inQueue))
        BY <2>3 DEF Taken, Left
      <3>3. Taken(k) \o Left(k) = inQueue
        BY <1>1, <3>1, <3>2, TakenAndLeft
      <3>4. Left(k) \in Seq(Nat) /\ Taken(k) \in Seq(Nat) /\ k # Failed
        BY <1>1, <2>1, <2>3, LeftType DEF Failed
      <3>. QED  BY <3>3, <3>4
    <2>. QED  BY <1>1, <2>1, <2>2, <2>3
  <1>3. CASE ~mPutbackAvailable
    <2>1. PICK k \in ReadResults(n) : r = Gives(Taken(k), k)
      BY <1>3 DEF Xsgetn
    <2>2. r.bytes = Taken(k) /\ r.left = Left(k)
      BY <2>1 DEF Gives
    <2>. QED  BY <1>2, <1>3, <2>2 DEF Line
  <1>4. CASE mPutbackAvailable /\ n = 1
    <2>1. r.bytes = << >> /\ r.left = inQueue
      BY <1>4 DEF Xsgetn, Gives, Left
    <2>. QED  BY <1>1, <1>4, <2>1
  <1>5. CASE mPutbackAvailable /\ n > 1
    <2>1. n - 1 \in Nat \ {0}
      BY <1>5
    <2>2. PICK k \in ReadResults(n - 1) :
             r = Gives(IF k = Failed THEN << >> ELSE <<mPutbackChar>> \o Taken(k), k)
      BY <1>5 DEF Xsgetn
    <2>3. CASE k = Failed
      BY <1>2, <1>5, <2>1, <2>2, <2>3 DEF Gives
    <2>4. CASE k # Failed
      <3>1. r.bytes = <<mPutbackChar>> \o Taken(k) /\ r.left = Left(k)
        BY <2>2, <2>4 DEF Gives
      <3>2. Line = <<mPutbackChar>> \o inQueue
        BY <1>5 DEF Line
      <3>3. Left(k) \in Seq(Nat) /\ Taken(k) \in Seq(Nat)
            /\ Taken(k) \o Left(k) = inQueue
        BY <1>2, <2>1
      <3>4. <<mPutbackChar>> \in Seq(Nat)
        BY <1>1
      <3>5. Line = r.bytes \o r.left
        <4>1. (<<mPutbackChar>> \o Taken(k)) \o Left(k)
                 = <<mPutbackChar>> \o (Taken(k) \o Left(k))
          BY <3>3, <3>4, Associative
        <4>. QED  BY <3>1, <3>2, <3>3, <4>1
      <3>6. r.bytes \in Seq(Nat) /\ r.bytes # << >>
        BY <3>1, <3>3, <3>4, ConcatProperties, ConcatEqualIffEmpty
      <3>. QED  BY <3>1, <3>3, <3>5, <3>6
    <2>. QED  BY <2>3, <2>4
  <1>6. n = 1 \/ n > 1
    OBVIOUS
  <1>. QED  BY <1>3, <1>4, <1>5, <1>6, Zenon

\* The data of a write: the numbers of its bytes.
LEMMA WrittenType ==
    ASSUME StreamTypeOK, NEW n \in Nat \ {0}, NEW k \in WriteResults(n)
    PROVE  /\ SubSeq([i \in 1..n |-> given + i], 1, k) \in Seq(Nat)
           /\ outQueue \o SubSeq([i \in 1..n |-> given + i], 1, k) \in Seq(Nat)
  <1>. DEFINE d == [i \in 1..n |-> given + i]
  <1>1. k \in Int /\ k <= n
    BY DEF WriteResults, Failed
  <1>2. \A i \in 1..k : d[i] \in Nat
    BY <1>1 DEF StreamTypeOK
  <1>3. SubSeq(d, 1, k) \in Seq(Nat)
    BY <1>1, <1>2, SubSeqProperties
  <1>. QED  BY <1>3, ConcatProperties DEF StreamTypeOK
-----------------------------------------------------------------------------
(* The type invariant.                                                     *)

FlagsOK ==
    /\ mPutbackAvailable \in BOOLEAN /\ waits \in BOOLEAN
    /\ hungUp \in BOOLEAN /\ unsure \in BOOLEAN

LEMMA TypeInit == Init => StreamTypeOK
  <1>1. Init => FlagsOK
    BY Zenon DEF Init, BufInit, FlagsOK
  <1>2. Init => ~mPutbackAvailable
    BY Zenon DEF Init, BufInit
  <1>. QED  BY <1>1, <1>2 DEF Init, BufInit, FlagsOK, StreamTypeOK

LEMMA TypeStep == StreamTypeOK /\ [Next]_vars => StreamTypeOK'
  <1>. SUFFICES ASSUME StreamTypeOK, [Next]_vars  PROVE StreamTypeOK'
    OBVIOUS
  <1>1. CASE Open
    <2>1. FlagsOK'
      BY <1>1, Zenon DEF Open, NewBuffer, FlagsOK, StreamTypeOK
    <2>2. rdbuf' = "mIOBuffer" /\ mPutbackChar' \in Nat
      BY <1>1 DEF Open, NewBuffer, StreamTypeOK
    <2>3. iostate' \subseteq {"badbit", "failbit", "eofbit"}
      BY <1>1 DEF Open, Cleared, StreamTypeOK
    <2>. QED  BY <1>1, <2>1, <2>2, <2>3 DEF Open, FlagsOK, StreamTypeOK
  <1>2. CASE OpenFails
    <2>1. FlagsOK' /\ ~mPutbackAvailable'
      BY <1>2, Zenon DEF OpenFails, NewBuffer, FlagsOK, StreamTypeOK
    <2>2. rdbuf' = "mIOBuffer" /\ mPutbackChar' \in Nat
      BY <1>2 DEF OpenFails, NewBuffer, StreamTypeOK
    <2>3. iostate' \subseteq {"badbit", "failbit", "eofbit"}
      BY <1>2 DEF OpenFails, Cleared, StreamTypeOK
    <2>. QED  BY <1>2, <2>1, <2>2, <2>3 DEF OpenFails, FlagsOK, StreamTypeOK
  <1>3. CASE OpenTwice
    BY <1>3 DEF OpenTwice, Sets, StreamTypeOK
  <1>4. CASE Close
    <2>1. FlagsOK' /\ ~mPutbackAvailable'
      BY <1>4, Zenon DEF Close, FlagsOK, StreamTypeOK
    <2>. QED  BY <1>4, <2>1 DEF Close, FlagsOK, StreamTypeOK
  <1>5. CASE UseAfterClose
    BY <1>5 DEF UseAfterClose, StreamTypeOK
  <1>6. CASE CallFails
    BY <1>6 DEF CallFails, Sets, StreamTypeOK
  <1>7. CASE DrainWriteBuffer \/ PassedOn
    <2>1. UNCHANGED vars
      BY <1>7, Zenon DEF DrainWriteBuffer, PassedOn
    <2>. QED  BY <2>1 DEF StreamTypeOK
  <1>8. ASSUME NEW i \in BOOLEAN, NEW o \in BOOLEAN, Flush(i, o)
        PROVE  StreamTypeOK'
    BY <1>8 DEF Flush, FlushQueues, Usable, StreamTypeOK
  <1>9. ASSUME NEW v \in {0, 1}, SetVMin(v)
        PROVE  StreamTypeOK'
    BY <1>9 DEF SetVMin, Usable, StreamTypeOK
  <1>10. CASE NotReady
    BY <1>10 DEF NotReady, Sets, StreamTypeOK
  <1>11. CASE Clear
    BY <1>11 DEF Clear, StreamTypeOK
  <1>12. CASE Get
    <2>1. PICK found \in BOOLEAN :
             /\ Uflow(found)
             /\ got' = IF found THEN Append(got, NextChar) ELSE got
             /\ IF found THEN UNCHANGED iostate ELSE Sets({"eofbit", "failbit"})
      BY <1>12 DEF Get
    <2>2. got' \in Seq(Nat)
      BY <2>1, UflowTakesFirst, AppendProperties DEF StreamTypeOK
    <2>3. iostate' \subseteq {"badbit", "failbit", "eofbit"}
      BY <2>1 DEF Sets, StreamTypeOK
    <2>. QED  BY <1>12, <2>1, <2>2, <2>3, UflowTakesFirst
              DEF Get, Ready, Usable, inputUnchanged, StreamTypeOK
  <1>13. CASE Peek
    <2>1. PICK found \in BOOLEAN :
             /\ Underflow(found)
             /\ IF found THEN UNCHANGED iostate ELSE Sets({"eofbit"})
      BY <1>13 DEF Peek
    <2>2. iostate' \subseteq {"badbit", "failbit", "eofbit"}
      BY <2>1 DEF Sets, StreamTypeOK
    <2>. QED  BY <1>13, <2>1, <2>2, UnderflowKeepsLine
              DEF Peek, Ready, Usable, inputUnchanged, StreamTypeOK
  <1>14. ASSUME NEW n \in ReadSizes, Read(n)
         PROVE  StreamTypeOK'
    <2>1. n \in Nat \ {0}
      BY SerialStreamAssumption
    <2>2. PICK r \in Xsgetn(n) :
             /\ inQueue' = r.left
             /\ got' = got \o r.bytes
             /\ IF Len(r.bytes) = n THEN UNCHANGED iostate
                                    ELSE Sets({"eofbit", "failbit"})
      BY <1>14 DEF Read
    <2>3. got' \in Seq(Nat) /\ inQueue' \in Seq(Nat)
      BY <2>1, <2>2, XsgetnGivesFirst, ConcatProperties DEF StreamTypeOK
    <2>4. iostate' \subseteq {"badbit", "failbit", "eofbit"}
      BY <2>2 DEF Sets, StreamTypeOK
    <2>. QED  BY <1>14, <2>3, <2>4
              DEF Read, Ready, Usable, inputUnchanged, StreamTypeOK
  <1>15. CASE InAvail
    BY <1>15 DEF InAvail, Showmanyc, Usable, inputUnchanged, StreamTypeOK
  <1>16. CASE PutBack
    <2>1. PICK done \in BOOLEAN :
             /\ Pbackfail(Last(got), done)
             /\ got' = IF done THEN Front(got) ELSE got
             /\ iostate' = IF done THEN {} ELSE {"badbit"}
      BY <1>16 DEF PutBack
    <2>2. Last(got) \in Nat /\ Front(got) \in Seq(Nat)
      BY <1>16, SubSeqType DEF PutBack, Last, Front, StreamTypeOK
    <2>. QED  BY <1>16, <2>1, <2>2
              DEF PutBack, Pbackfail, Usable, inputUnchanged, StreamTypeOK
  <1>17. CASE Unget
    BY <1>17 DEF Unget, Usable, inputUnchanged, StreamTypeOK
  <1>18. ASSUME NEW n \in WriteSizes, Write(n)
         PROVE  StreamTypeOK'
    <2>1. n \in Nat \ {0}
      BY SerialStreamAssumption
    <2>2. PICK k \in WriteResults(n) :
             /\ Writes([i \in 1..n |-> given + i], k)
             /\ iostate' = IF Xsputn(n, k) = n THEN {} ELSE {"badbit"}
      BY <1>18 DEF Write
    <2>3. given' \in Nat /\ unsure' \in BOOLEAN
      BY <1>18, <2>1 DEF Write, StreamTypeOK
    <2>4. outQueue' \in Seq(Nat) /\ wire' = wire
      BY <2>1, <2>2, WrittenType DEF Writes, StreamTypeOK
    <2>. QED  BY <1>18, <2>2, <2>3, <2>4 DEF Write, Ready, Usable, StreamTypeOK
  <1>19. CASE Arrive
    BY <1>19, AppendProperties DEF Arrive, StreamTypeOK
  <1>20. CASE Transmit
    BY <1>20, AppendProperties, HeadTailProperties DEF Transmit, StreamTypeOK
  <1>21. CASE HangUp
    BY <1>21 DEF HangUp, StreamTypeOK
  <1>22. CASE UNCHANGED vars
    BY <1>22 DEF StreamTypeOK
  <1>. QED
    BY <1>1, <1>2, <1>3, <1>4, <1>5, <1>6, <1>7, <1>8, <1>9, <1>10, <1>11, <1>12,
       <1>13, <1>14, <1>15, <1>16, <1>17, <1>18, <1>19, <1>20, <1>21, <1>22, Zenon
    DEF Next

\* Every variable keeps its type, only an open port holds bytes, and the stream
\* never points to a buffer that is not its own: for any sizes and bounds.
THEOREM StreamTypes == Spec => []StreamTypeOK
  BY TypeInit, TypeStep, PTL DEF Spec
-----------------------------------------------------------------------------
(* A good stream has sent what it was given.                               *)

\* What the program gives is numbered on.
LEMMA NumbersGoOn ==
    ASSUME NEW m \in Nat, NEW n \in Nat
    PROVE  [i \in 1..m |-> i] \o [i \in 1..n |-> m + i] = [i \in 1..(m + n) |-> i]
  OBVIOUS

LEMMA HeadMovesOver ==
    ASSUME NEW s \in Seq(Nat), NEW t \in Seq(Nat), t # << >>
    PROVE  Append(s, Head(t)) \o Tail(t) = s \o t
  OBVIOUS

LEMMA SentInit == Init => GoodMeansSent
  BY DEF Init, BufInit, GoodMeansSent

LEMMA SentStep == StreamTypeOK /\ GoodMeansSent /\ [Next]_vars => GoodMeansSent'
  <1>. SUFFICES ASSUME StreamTypeOK, GoodMeansSent, [Next]_vars
                PROVE  GoodMeansSent'
    OBVIOUS
  <1>. DEFINE Same == /\ outQueue' = outQueue /\ wire' = wire /\ given' = given
                      /\ unsure => unsure'
  <1>1. CASE Same
    BY <1>1 DEF GoodMeansSent
  <1>2. CASE Close \/ HangUp \/ \E i, o \in BOOLEAN : Flush(i, o)
    <2>1. CASE unsure'
      BY <2>1 DEF GoodMeansSent
    <2>2. CASE ~unsure'
      <3>1. Same
        BY <1>2, <2>2 DEF Close, HangUp, Flush, FlushQueues
      <3>. QED  BY <1>1, <3>1
    <2>. QED  BY <2>1, <2>2
  <1>3. CASE Transmit
    BY <1>3, HeadMovesOver DEF Transmit, GoodMeansSent, StreamTypeOK
  <1>4. ASSUME NEW n \in WriteSizes, Write(n)
        PROVE  GoodMeansSent'
    <2>. DEFINE d == [i \in 1..n |-> given + i]
    <2>1. n \in Nat \ {0}
      BY SerialStreamAssumption
    <2>2. PICK k \in WriteResults(n) :
             /\ Writes(d, k)
             /\ iostate' = IF Xsputn(n, k) = n THEN {} ELSE {"badbit"}
      BY <1>4 DEF Write
    <2>3. CASE k = n
      <3>1. d \in Seq(Nat) /\ SubSeq(d, 1, k) = d
        BY <2>1, <2>3 DEF StreamTypeOK
      <3>2. wire' = wire /\ outQueue' = outQueue \o d
        BY <2>2, <3>1 DEF Writes
      <3>3. (wire \o outQueue) \o d = wire \o (outQueue \o d)
        <4>1. wire \in Seq(Nat) /\ outQueue \in Seq(Nat)
          BY DEF StreamTypeOK
        <4>. HIDE DEF d
        <4>. QED  BY <3>1, <4>1, Associative
      <3>4. given' = given + n /\ (unsure => unsure')
        BY <1>4 DEF Write
      <3>. QED  BY <2>1, <3>2, <3>3, <3>4, NumbersGoOn DEF GoodMeansSent, StreamTypeOK
    <2>4. CASE k # n
      <3>1. Xsputn(n, k) # n
        BY <2>1, <2>4 DEF Xsputn
      <3>. QED  BY <1>4, <2>2, <3>1 DEF Write, GoodMeansSent
    <2>. QED  BY <2>3, <2>4
  <1>5. CASE Open \/ OpenFails \/ OpenTwice \/ UseAfterClose \/ CallFails
    BY <1>1, <1>5 DEF Open, OpenFails, OpenTwice, UseAfterClose, CallFails
  <1>6. CASE DrainWriteBuffer \/ PassedOn \/ NotReady \/ Clear \/ Arrive
    BY <1>1, <1>6 DEF DrainWriteBuffer, PassedOn, NotReady, Clear, Arrive
  <1>7. CASE Get \/ Peek \/ InAvail \/ PutBack \/ Unget
    BY <1>1, <1>7 DEF Get, Peek, InAvail, PutBack, Unget, inputUnchanged
  <1>8. ASSUME NEW n \in ReadSizes, Read(n)
        PROVE  GoodMeansSent'
    BY <1>1, <1>8 DEF Read, inputUnchanged
  <1>9. ASSUME NEW v \in {0, 1}, SetVMin(v)
        PROVE  GoodMeansSent'
    BY <1>1, <1>9 DEF SetVMin
  <1>10. CASE UNCHANGED vars
    BY <1>1, <1>10
  <1>. QED
    BY <1>2, <1>3, <1>4, <1>5, <1>6, <1>7, <1>8, <1>9, <1>10, Zenon DEF Next

\* As long as no call has set badbit, everything the program gave to the stream
\* is on the wire or in the driver, in order: for any sizes written and however
\* little the driver takes.
THEOREM GoodStreamSends == Spec => []GoodMeansSent
  BY TypeInit, TypeStep, SentInit, SentStep, PTL DEF Spec
-----------------------------------------------------------------------------
(* The input of the stream implements ByteStream.                          *)

LEMMA StreamInitRefines == Init => Promise!Init
  BY DEF Init, BufInit, Promise!Init, Line

LEMMA StreamStepRefines ==
    Careful /\ StreamTypeOK /\ StreamTypeOK' /\ [Next]_vars
        => Promise!Next
  <1>. SUFFICES ASSUME Careful, StreamTypeOK, StreamTypeOK', [Next]_vars
                PROVE  Promise!Next
    OBVIOUS
  <1>. DEFINE Same == /\ (mIOBuffer' = "open") = (mIOBuffer = "open")
                      /\ Line' = Line /\ got' = got /\ discards' = discards
  <1>. DEFINE Kept == mPutbackAvailable' = mPutbackAvailable
  <1>0. ("failbit" \in iostate)' \in BOOLEAN
    OBVIOUS
  <1>1. ASSUME Same, Kept
        PROVE  Promise!Next
    BY <1>0, <1>1, Zenon DEF Promise!Next, Promise!Status
  <1>2. CASE Open \/ OpenFails
    <2>1. /\ Line = << >> /\ Line' = << >> /\ got' = got /\ discards' = discards
          /\ mIOBuffer # "open"
      BY <1>2 DEF Open, OpenFails, NewBuffer, Line, StreamTypeOK
    <2>2. Kept
      BY <1>2, Zenon DEF Open, OpenFails, NewBuffer, StreamTypeOK
    <2>3. CASE mIOBuffer' = "open"
      BY <1>0, <2>1, <2>2, <2>3, Zenon DEF Promise!Next, Promise!Open
    <2>4. CASE mIOBuffer' # "open"
      BY <1>1, <2>1, <2>2, <2>4
    <2>. QED  BY <2>3, <2>4
  <1>3. CASE Close
    <2>1. /\ Line' = << >> /\ got' = got /\ discards' = discards
          /\ mIOBuffer' = "null" /\ mPutbackAvailable' = FALSE
      BY <1>3 DEF Close, Line
    <2>2. CASE mIOBuffer = "open"
      BY <1>0, <2>1, <2>2 DEF Promise!Next, Promise!Close
    <2>3. CASE mIOBuffer # "open"
      <3>1. Line = << >> /\ Kept
        BY <2>1, <2>3 DEF Line, StreamTypeOK
      <3>. QED  BY <1>1, <2>1, <2>3, <3>1
    <2>. QED  BY <2>2, <2>3
  <1>4. ASSUME inQueue' = << >>, UNCHANGED <<putback, mIOBuffer, got>>,
               discards' = discards + 1
        PROVE  Promise!Discard
    <2>1. CASE mPutbackAvailable
      BY <1>4, <2>1 DEF Line, Promise!Discard, StreamTypeOK
    <2>2. CASE ~mPutbackAvailable
      BY <1>4, <2>2 DEF Line, Promise!Discard, StreamTypeOK
    <2>. QED  BY <2>1, <2>2
  <1>5. ASSUME NEW i \in BOOLEAN, NEW o \in BOOLEAN, Flush(i, o)
        PROVE  Promise!Next
    <2>1. CASE i
      BY <1>0, <1>4, <1>5, <2>1 DEF Flush, FlushQueues, Promise!Next
    <2>2. CASE ~i
      BY <1>1, <1>5, <2>2 DEF Flush, FlushQueues, Line
    <2>. QED  BY <2>1, <2>2
  <1>6. CASE HangUp
    BY <1>0, <1>4, <1>6 DEF HangUp, Promise!Next
  <1>7. CASE Get
    <2>1. PICK found \in BOOLEAN :
             /\ Uflow(found)
             /\ got' = IF found THEN Append(got, NextChar) ELSE got
      BY <1>7 DEF Get
    <2>2. mIOBuffer' = mIOBuffer /\ discards' = discards
      BY <1>7 DEF Get, inputUnchanged
    <2>3. Line' = inQueue' /\ mPutbackAvailable' = FALSE
      BY <2>1, UflowTakesFirst DEF Line
    <2>4. CASE found
      <3>1. NextChar \in Nat /\ Line = <<NextChar>> \o Line' /\ Line' \in Seq(Nat)
        BY <2>1, <2>3, <2>4, UflowTakesFirst
      <3>2. 1 \in 1..Len(Line)
            /\ got \o SubSeq(Line, 1, 1) = Append(got, NextChar)
            /\ SubSeq(Line, 1 + 1, Len(Line)) = Line'
        <4>1. got \in Seq(Nat)
          BY DEF StreamTypeOK
        <4>. QED  BY <3>1, <4>1, FirstOfConcat, Zenon
      <3>3. Promise!Take
        BY <2>1, <2>2, <2>3, <2>4, <3>2 DEF Promise!Take
      <3>. QED  BY <1>0, <3>3 DEF Promise!Next
    <2>5. CASE ~found
      BY <1>1, <2>1, <2>2, <2>3, <2>5, UflowTakesFirst
    <2>. QED  BY <2>4, <2>5
  <1>8. CASE Peek
    <2>1. PICK found \in BOOLEAN : Underflow(found)
      BY <1>8 DEF Peek
    <2>2. Line' = Line /\ mPutbackAvailable' \in BOOLEAN
      BY <2>1, UnderflowKeepsLine
    <2>3. mIOBuffer' = mIOBuffer /\ got' = got /\ discards' = discards
      BY <1>8 DEF Peek, inputUnchanged
    <2>4. CASE mPutbackAvailable'
      <3>1. Line # << >>
        BY <2>1, <2>4, UnderflowKeepsLine
      <3>2. mPutbackAvailable' = TRUE
        BY <2>2, <2>4, Zenon
      <3>. QED  BY <1>0, <2>2, <2>3, <3>1, <3>2, Zenon DEF Promise!Next, Promise!Look
    <2>5. CASE ~mPutbackAvailable'
      <3>1. ~mPutbackAvailable
        BY <2>1, <2>5, UnderflowKeepsLine
      <3>2. Kept
        BY <2>2, <2>5, <3>1, Zenon DEF StreamTypeOK
      <3>. QED  BY <1>1, <2>2, <2>3, <3>2
    <2>. QED  BY <2>4, <2>5
  <1>9. ASSUME NEW n \in ReadSizes, Read(n)
        PROVE  Promise!Next
    <2>1. n \in Nat \ {0}
      BY SerialStreamAssumption
    <2>2. PICK r \in Xsgetn(n) :
             /\ inQueue' = r.left
             /\ got' = got \o r.bytes
             /\ IF Len(r.bytes) = n THEN UNCHANGED iostate
                                    ELSE Sets({"eofbit", "failbit"})
      BY <1>9 DEF Read
    <2>3. /\ mIOBuffer' = mIOBuffer /\ discards' = discards
          /\ mPutbackAvailable' = FALSE /\ Line' = r.left
      BY <1>9, <2>2 DEF Read, inputUnchanged, Line
    <2>4. /\ r.bytes \in Seq(Nat) /\ r.left \in Seq(Nat)
          /\ IF mPutbackAvailable /\ r.bytes = << >>
               THEN r.left = inQueue ELSE Line = r.bytes \o r.left
      BY <2>1, XsgetnGivesFirst
    <2>5. CASE r.bytes = << >>
      <3>1. got' = got
        BY <2>2, <2>5, ConcatEmptySeq DEF StreamTypeOK
      <3>2. CASE mPutbackAvailable
        <4>1. "failbit" \notin iostate /\ ("failbit" \in iostate)' = TRUE
          BY <1>9, <2>1, <2>2, <2>5 DEF Read, Ready, Sets
        <4>2. Line' = Tail(Line)
          BY <2>3, <2>4, <2>5, <3>2, TailOfConcat DEF Line, StreamTypeOK
        <4>3. mPutbackAvailable
          BY <3>2
        <4>. QED  BY <2>3, <3>1, <4>1, <4>2, <4>3, Zenon DEF Promise!Next, Promise!Lose
      <3>3. CASE ~mPutbackAvailable
        <4>1. Line = r.left
          BY <2>4, <2>5, <3>3, ConcatEmptySeq
        <4>2. Kept
          BY <2>3, <3>3, Zenon DEF StreamTypeOK
        <4>. QED  BY <1>1, <2>3, <3>1, <4>1, <4>2
      <3>. QED  BY <3>2, <3>3
    <2>6. CASE r.bytes # << >>
      <3>1. Line = r.bytes \o r.left
        BY <2>4, <2>6
      <3>2. /\ Len(r.bytes) \in 1..Len(Line)
            /\ SubSeq(Line, 1, Len(r.bytes)) = r.bytes
            /\ SubSeq(Line, Len(r.bytes) + 1, Len(Line)) = r.left
        BY <2>4, <2>6, <3>1, PartsOfConcat
      <3>3. Promise!Take
        BY <2>2, <2>3, <3>2 DEF Promise!Take
      <3>. QED  BY <1>0, <3>3 DEF Promise!Next
    <2>. QED  BY <2>5, <2>6
  <1>10. CASE InAvail
    <2>1. mPutbackAvailable /\ mPutbackAvailable' = TRUE
      BY <1>10, Zenon DEF InAvail, Showmanyc
    <2>2. Kept
      BY <2>1, Zenon DEF StreamTypeOK
    <2>3. Same
      BY <1>10, <2>1 DEF InAvail, Showmanyc, inputUnchanged, Line
    <2>. QED  BY <1>1, <2>2, <2>3
  <1>11. CASE PutBack
    <2>1. PICK done \in BOOLEAN :
             /\ Pbackfail(Last(got), done)
             /\ got' = IF done THEN Front(got) ELSE got
      BY <1>11 DEF PutBack
    <2>2. CASE done
      <3>1. mIOBuffer = "open" /\ mIOBuffer' = mIOBuffer /\ got # << >>
            /\ got' = Front(got) /\ discards' = discards
        BY <1>11, <2>1, <2>2 DEF PutBack, Usable, inputUnchanged
      <3>2. Line' = <<Last(got)>> \o Line /\ mPutbackAvailable' = TRUE
        BY <2>1, <2>2, Zenon DEF Pbackfail, Line
      <3>. QED  BY <1>0, <3>1, <3>2, Zenon
                DEF Promise!Next, Promise!PutBack, Promise!Front, Promise!Last, Front, Last
    <2>3. CASE ~done
      <3>1. mPutbackAvailable /\ mPutbackAvailable' = TRUE
        BY <2>1, <2>3, Zenon DEF Pbackfail
      <3>2. Kept
        BY <3>1, Zenon DEF StreamTypeOK
      <3>3. Same
        BY <1>11, <2>1, <2>3, <3>1 DEF PutBack, Pbackfail, inputUnchanged, Line
      <3>. QED  BY <1>1, <3>2, <3>3
    <2>. QED  BY <2>2, <2>3
  <1>12. CASE Arrive
    <2>1. Line' = Append(Line, received + 1)
      BY <1>12, AppendToConcat, SMTT(30) DEF Arrive, Line, StreamTypeOK
    <2>2. Line' # << >> /\ Front(Line') = Line
      <3>1. Line \in Seq(Nat) /\ received + 1 \in Nat
        BY LineType DEF StreamTypeOK
      <3>. QED  BY <2>1, <3>1, FrontOfAppend
    <2>3. mIOBuffer = "open" /\ mIOBuffer' = mIOBuffer /\ got' = got
          /\ discards' = discards /\ Kept
      BY <1>12 DEF Arrive
    <2>. QED  BY <1>0, <2>2, <2>3, Zenon
              DEF Promise!Next, Promise!Arrive, Promise!Front, Front
  <1>13. CASE OpenTwice \/ UseAfterClose \/ CallFails \/ NotReady \/ Clear
    BY <1>1, <1>13 DEF OpenTwice, UseAfterClose, CallFails, NotReady, Clear, Line
  <1>14. CASE DrainWriteBuffer \/ PassedOn \/ Transmit \/ Unget
    BY <1>1, <1>14 DEF DrainWriteBuffer, PassedOn, Transmit, Unget, inputUnchanged, Line
  <1>15. ASSUME NEW n \in WriteSizes, Write(n)
         PROVE  Promise!Next
    BY <1>1, <1>15 DEF Write, Line
  <1>16. ASSUME NEW v \in {0, 1}, SetVMin(v)
         PROVE  Promise!Next
    BY <1>1, <1>16 DEF SetVMin, Line
  <1>17. CASE UNCHANGED vars
    BY <1>1, <1>17 DEF Line
  <1>. QED
    BY <1>2, <1>3, <1>5, <1>6, <1>7, <1>8, <1>9, <1>10, <1>11, <1>12, <1>13, <1>14,
       <1>15, <1>16, <1>17, Zenon DEF Next

\* A program that calls in_avail only after a peek gets the bytes that arrived,
\* in order and once, whatever sizes it reads and whatever is peeked, put back,
\* flushed, closed or failing; only a byte peeked at or put back may be lost, and
\* only by a read that sets failbit: the stream implements ByteStream.
THEOREM StreamRefines == ASSUME Careful PROVE Spec => ImplementsByteStream
  BY StreamInitRefines, StreamStepRefines, TypeInit, TypeStep, PTL
  DEF Spec, ImplementsByteStream, Promise!Spec
=============================================================================

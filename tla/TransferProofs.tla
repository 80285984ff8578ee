--------------------------- MODULE TransferProofs ---------------------------
(***************************************************************************)
(* Write puts its bytes on the line in order and each once, and Read and   *)
(* ReadLine return the bytes asked for, the next ones: for any lengths,    *)
(* any room in the driver, any split of the data by write() and read(),    *)
(* and any interleaving of the two writing threads.                        *)
(***************************************************************************)
EXTENDS SerialTransfer, SequenceTheorems, TLAPS

CellType == [call : Nat, place : Nat]

WriteTypeOK ==
    /\ sizes \in Seq(Nat \ {0})
    /\ writing \in [Threads -> 0..Len(sizes)]
    /\ written \in [Threads -> Nat]
    /\ outQueue \in Seq(CellType) /\ wire \in Seq(CellType)

ReadTypeOK ==
    /\ received \in Nat /\ received <= Len(Characters)
    /\ inQueue \in Seq(Nat) /\ buffer \in Seq(Nat)
    /\ pc \in {"idle", "read", "check", "line"}
    /\ want \in Nat /\ elapsed \in Nat /\ terminator \in 0..255
    /\ ended \in {"none", "done", "ReadTimeout", "runtime_error"}

FlagsOK ==
    /\ line \in BOOLEAN /\ atLimit \in BOOLEAN /\ raw \in BOOLEAN /\ limited \in BOOLEAN
    /\ wouldBlock \in BOOLEAN /\ hungUp \in BOOLEAN

\* The bytes of each Write on the line are in order.
InOrder(l) ==
    \A i, j \in 1..Len(l) : i < j /\ l[i].call = l[j].call => l[i].place < l[j].place

\* The first n bytes of Write c, and no other of it, are on the line.
Reaches(l, c, n) ==
    \A p \in Nat : p \in 1..n <=> \E i \in 1..Len(l) : l[i] = Cell(c, p)

\* What a Write has got onto the line: as much as its thread has counted, or
\* all of it when it has returned, or less when the device went.
Progress(c, n) ==
    /\ n \in 0..sizes[c]
    /\ Reaches(Line, c, n)
    /\ \A t \in Threads : writing[t] = c => n = written[t]
    /\ (\A t \in Threads : writing[t] # c) /\ ~hungUp => n = sizes[c]

\* Nothing is on the line but the bytes of the Writes so far, in order, and no
\* two threads are in one Write.
WriteInv ==
    /\ InOrder(Line)
    /\ \A i \in 1..Len(Line) : Line[i].call \in 1..Len(sizes)
    /\ \A c \in 1..Len(sizes) : \E n \in Nat : Progress(c, n)
    /\ \A t, u \in Threads : writing[t] = writing[u] /\ writing[t] # 0 => t = u

\* The numbers up to r, without a gap.
UpTo(s, r) == Len(s) <= r /\ \A i \in 1..Len(s) : s[i] = r - Len(s) + i

\* The i-th byte in the buffer is what ReadLine takes for its terminator.
Met(i) == Characters[buffer[i]] = AsInt(terminator)

\* Bytes read and not read yet are the last ones received, and a read that goes
\* on has not met what would have ended it.
ReadInv ==
    /\ UpTo(buffer \o inQueue, received)
    /\ pc # "idle" => ended = "none" /\ ~raw
    /\ pc = "line" => line
    /\ line => want = 0
    /\ pc # "idle" /\ want # 0 => Len(buffer) < want
    /\ pc # "idle" /\ line =>
          \A i \in 1..Len(buffer) : i < Len(buffer) \/ pc # "line" => ~Met(i)

\* How the last read ended.
EndInv ==
    /\ ended = "done" /\ line =>
          /\ terminator < 128 /\ (terminator # 0 => buffer # << >>)
          /\ \A i \in 1..Len(buffer) : Met(i) <=> i = Len(buffer)
    /\ ended = "done" /\ ~line => Len(buffer) = IF raw THEN 0 ELSE want
    /\ ended = "ReadTimeout" /\ want # 0 => Len(buffer) < want
    /\ ended = "ReadTimeout" /\ line => \A i \in 1..Len(buffer) : ~Met(i)

TransferInv == WriteTypeOK /\ ReadTypeOK /\ FlagsOK /\ WriteInv /\ ReadInv /\ EndInv
-----------------------------------------------------------------------------
(* Sequences.                                                              *)

LEMMA Joined ==
    ASSUME NEW S, NEW a \in Seq(S), NEW b \in Seq(S)
    PROVE  /\ a \o b \in Seq(S) /\ Len(a \o b) = Len(a) + Len(b)
           /\ \A i \in 1..Len(a) : (a \o b)[i] = a[i]
           /\ \A i \in 1..Len(b) : (a \o b)[i + Len(a)] = b[i]
BY ConcatProperties, LenProperties

LEMMA JoinedCells ==
    \A a, b \in Seq(CellType) :
        /\ a \o b \in Seq(CellType) /\ Len(a \o b) = Len(a) + Len(b)
        /\ \A i \in 1..Len(a) : (a \o b)[i] = a[i]
        /\ \A i \in 1..Len(b) : (a \o b)[i + Len(a)] = b[i]
BY Joined

LEMMA JoinedNumbers ==
    \A a, b \in Seq(Nat) :
        /\ a \o b \in Seq(Nat) /\ Len(a \o b) = Len(a) + Len(b)
        /\ \A i \in 1..Len(a) : (a \o b)[i] = a[i]
        /\ \A i \in 1..Len(b) : (a \o b)[i + Len(a)] = b[i]
BY Joined

LEMMA Taken ==
    ASSUME NEW S, NEW s \in Seq(S), NEW k \in 0..Len(s)
    PROVE  /\ SubSeq(s, 1, k) \in Seq(S)
           /\ Len(SubSeq(s, 1, k)) = k
           /\ \A i \in 1..k : SubSeq(s, 1, k)[i] = s[i]
OBVIOUS

LEMMA Dropped ==
    ASSUME NEW S, NEW s \in Seq(S), NEW k \in 0..Len(s)
    PROVE  /\ SubSeq(s, k + 1, Len(s)) \in Seq(S)
           /\ Len(SubSeq(s, k + 1, Len(s))) = Len(s) - k
           /\ \A i \in 1..(Len(s) - k) : SubSeq(s, k + 1, Len(s))[i] = s[i + k]
OBVIOUS

LEMMA Regrouped ==
    ASSUME NEW S, NEW a \in Seq(S), NEW b \in Seq(S), NEW c \in Seq(S)
    PROVE  (a \o b) \o c = a \o (b \o c)
BY ConcatAssociative, SMTT(30)

LEMMA RegroupedCells ==
    \A x, y, z \in Seq(CellType) : x \o (y \o z) = (x \o y) \o z
BY ConcatAssociative, SMTT(30)

\* Bytes that move from the second of two sequences to the first stay in order.
LEMMA Moved ==
    ASSUME NEW S, NEW a \in Seq(S), NEW b \in Seq(S), NEW k \in 0..Len(b)
    PROVE  (a \o SubSeq(b, 1, k)) \o SubSeq(b, k + 1, Len(b)) = a \o b
<1> DEFINE x == SubSeq(b, 1, k)
           y == SubSeq(b, k + 1, Len(b))
<1>1. x \in Seq(S) /\ y \in Seq(S)
  BY Taken, Dropped
<1>2. x \o y = SubSeq(b, 1, Len(b))
  <2>1. 1 \in 1..Len(b) + 1 /\ k \in 1 - 1..Len(b) /\ Len(b) \in k..Len(b)
    BY LenProperties
  <2> QED
    BY <2>1, ConcatAdjacentSubSeq, Zenon
<1>3. SubSeq(b, 1, Len(b)) = b
  BY SubSeqFull
<1> HIDE DEF x, y
<1>4. (a \o x) \o y = a \o (x \o y)
  BY <1>1, Regrouped, SMTT(30)
<1>5. (a \o x) \o y = a \o b
  BY <1>2, <1>3, <1>4
<1> QED
  BY <1>5 DEF x, y

LEMMA MovedOne ==
    ASSUME NEW S, NEW a \in Seq(S), NEW b \in Seq(S), b # << >>
    PROVE  Append(a, Head(b)) \o Tail(b) = a \o b
<1>1. 1 \in 0..Len(b)
  BY EmptySeq, LenProperties
<1>2. Append(a, Head(b)) = a \o SubSeq(b, 1, 1)
  OBVIOUS
<1>3. Tail(b) = SubSeq(b, 1 + 1, Len(b))
  BY TailIsSubSeq
<1> QED
  BY <1>1, <1>2, <1>3, Moved
-----------------------------------------------------------------------------
(* The cells of the line.                                                  *)

LEMMA CellIs ==
    /\ \A c, p \in Nat : Cell(c, p) \in CellType /\ Cell(c, p).call = c /\ Cell(c, p).place = p
    /\ \A x \in CellType : x.call \in Nat /\ x.place \in Nat /\ x = Cell(x.call, x.place)
BY DEF CellType, Cell

LEMMA Shifted == \A w, k \in Nat : \A x \in 1..k : w + x \in w + 1..w + k
OBVIOUS

\* Line m is line l and more of Write c, as far as n of its bytes.
Extends(m, l, c, n) ==
    /\ InOrder(m)
    /\ Reaches(m, c, n)
    /\ \A d, i \in Nat : d # c /\ Reaches(l, d, i) => Reaches(m, d, i)
    /\ \A i \in 1..Len(m) :
          m[i].call = c \/ \E j \in 1..Len(l) : m[i].call = l[j].call

\* The next k bytes of Write c, behind what is on the line.
NextBytes(more, c, w, k) ==
    Len(more) = k /\ \A i \in 1..k : more[i] = Cell(c, w + i)

LEMMA Extended ==
    ASSUME NEW l \in Seq(CellType), NEW c \in Nat, NEW w \in Nat, NEW k \in Nat,
           Reaches(l, c, w), InOrder(l),
           NEW more \in Seq(CellType), NextBytes(more, c, w, k)
    PROVE  Extends(l \o more, l, c, w + k)
<1>0. Len(more) = k /\ \A i \in 1..k : more[i] = Cell(c, w + i)
  BY DEF NextBytes
<1> DEFINE m == l \o more
<1>1. /\ m \in Seq(CellType) /\ Len(m) = Len(l) + k /\ Len(l) \in Nat
      /\ \A i \in 1..Len(l) : m[i] = l[i] /\ l[i] \in CellType
      /\ \A i \in 1..k : m[i + Len(l)] = Cell(c, w + i)
  <2>1. /\ m \in Seq(CellType) /\ Len(m) = Len(l) + Len(more)
        /\ \A i \in 1..Len(l) : m[i] = l[i]
        /\ \A i \in 1..Len(more) : m[i + Len(l)] = more[i]
    BY JoinedCells, Zenon
  <2> HIDE DEF m
  <2>2. Len(l) \in Nat /\ \A i \in 1..Len(l) : l[i] \in CellType
    BY LenProperties, ElementOfSeq
  <2> QED
    BY <2>1, <2>2, <1>0
<1> HIDE DEF m
<1>2. \A i \in 1..Len(m) :
          \/ i \in 1..Len(l)
          \/ i - Len(l) \in 1..k /\ i = (i - Len(l)) + Len(l)
  BY <1>1
<1>3. \A i \in 1..Len(m) : i \notin 1..Len(l) =>
          /\ i - Len(l) \in 1..k /\ m[i] = Cell(c, w + (i - Len(l)))
          /\ m[i].call = c /\ m[i].place = w + (i - Len(l))
  <2> SUFFICES ASSUME NEW i \in 1..Len(m), i \notin 1..Len(l)
               PROVE  /\ i - Len(l) \in 1..k /\ m[i] = Cell(c, w + (i - Len(l)))
                      /\ m[i].call = c /\ m[i].place = w + (i - Len(l))
    OBVIOUS
  <2>1. i - Len(l) \in 1..k /\ i = (i - Len(l)) + Len(l)
    BY <1>2
  <2>2. m[i] = Cell(c, w + (i - Len(l)))
    BY <2>1, <1>1
  <2>3. w + (i - Len(l)) \in Nat
    BY <2>1
  <2> QED
    BY <2>1, <2>2, <2>3, CellIs
<1>4. \A i \in 1..Len(l) : l[i].call = c => l[i].place \in 1..w
  <2> SUFFICES ASSUME NEW i \in 1..Len(l), l[i].call = c PROVE l[i].place \in 1..w
    OBVIOUS
  <2>1. l[i] \in CellType
    BY <1>1
  <2>2. l[i].place \in Nat /\ l[i] = Cell(c, l[i].place)
    BY <2>1, CellIs
  <2> QED
    BY <2>2 DEF Reaches
<1>5. InOrder(m)
  <2> SUFFICES ASSUME NEW i \in 1..Len(m), NEW j \in 1..Len(m), i < j, m[i].call = m[j].call
               PROVE  m[i].place < m[j].place
    BY DEF InOrder
  <2>1. CASE j \in 1..Len(l)
    <3>1. i \in 1..Len(l) /\ m[i] = l[i] /\ m[j] = l[j]
      BY <2>1, <1>1
    <3> QED
      BY <2>1, <3>1 DEF InOrder
  <2>2. CASE j \notin 1..Len(l) /\ i \in 1..Len(l)
    <3>1. m[i] = l[i]
      BY <2>2, <1>1
    <3>2. m[j].call = c /\ m[j].place = w + (j - Len(l)) /\ j - Len(l) \in 1..k
      BY <2>2, <1>3
    <3>3. m[i].place \in 1..w
      BY <2>2, <3>1, <3>2, <1>4
    <3>4. m[j].place \in w + 1..w + k
      BY <3>2, Shifted
    <3> HIDE DEF m
    <3> QED
      BY <3>3, <3>4
  <2>3. CASE j \notin 1..Len(l) /\ i \notin 1..Len(l)
    <3>1. m[i].place = w + (i - Len(l)) /\ m[j].place = w + (j - Len(l))
      BY <2>3, <1>3
    <3>2. i \in Nat /\ j \in Nat /\ Len(l) \in Nat
      BY <1>1
    <3> HIDE DEF m
    <3> QED
      BY <3>1, <3>2
  <2> QED
    BY <2>1, <2>2, <2>3
<1>6. Reaches(m, c, w + k)
  <2> SUFFICES ASSUME NEW p \in Nat
               PROVE  p \in 1..(w + k) <=> \E i \in 1..Len(m) : m[i] = Cell(c, p)
    BY DEF Reaches
  <2>1. CASE p \in 1..w
    <3>1. PICK i \in 1..Len(l) : l[i] = Cell(c, p)
      BY <2>1 DEF Reaches
    <3> QED
      BY <3>1, <2>1, <1>1
  <2>2. CASE p \in w + 1..w + k
    <3>1. /\ p - w \in 1..k /\ w + (p - w) = p
          /\ (p - w) + Len(l) \in 1..Len(m)
      BY <2>2, <1>1
    <3>2. m[(p - w) + Len(l)] = Cell(c, p)
      BY <3>1, <1>1
    <3> QED
      BY <3>1, <3>2, <2>2
  <2>3. CASE p \notin 1..(w + k)
    <3>1. \A i \in 1..Len(m) : m[i] # Cell(c, p)
      <4> SUFFICES ASSUME NEW i \in 1..Len(m), m[i] = Cell(c, p) PROVE FALSE
        OBVIOUS
      <4>1. m[i].call = c /\ m[i].place = p
        BY CellIs
      <4>2. CASE i \in 1..Len(l)
        BY <4>1, <4>2, <1>1, <1>4, <2>3
      <4>3. CASE i \notin 1..Len(l)
        BY <4>1, <4>3, <1>3, <2>3
      <4> QED
        BY <4>2, <4>3
    <3> QED
      BY <3>1, <2>3
  <2> QED
    BY <2>1, <2>2, <2>3
<1>7. ASSUME NEW d \in Nat, NEW n \in Nat, d # c, Reaches(l, d, n)
      PROVE  Reaches(m, d, n)
  <2> SUFFICES ASSUME NEW p \in Nat
               PROVE  (\E i \in 1..Len(l) : l[i] = Cell(d, p))
                          <=> \E i \in 1..Len(m) : m[i] = Cell(d, p)
    BY <1>7 DEF Reaches
  <2>1. \A i \in 1..Len(m) : m[i] = Cell(d, p) => i \in 1..Len(l)
    <3> SUFFICES ASSUME NEW i \in 1..Len(m), m[i] = Cell(d, p), i \notin 1..Len(l)
                 PROVE  FALSE
      OBVIOUS
    <3>1. m[i].call = c
      BY <1>3
    <3>2. m[i].call = d
      BY CellIs
    <3> QED
      BY <3>1, <3>2, <1>7
  <2>2. \A i \in 1..Len(l) : i \in 1..Len(m) /\ m[i] = l[i]
    BY <1>1
  <2> QED
    BY <2>1, <2>2
<1>8. \A i \in 1..Len(m) : m[i].call = c \/ \E j \in 1..Len(l) : m[i].call = l[j].call
  BY <1>1, <1>3
<1> QED
  BY <1>5, <1>6, <1>7, <1>8 DEF m, Extends

\* The model's set of places says the same.
LEMMA PlacesReached ==
    ASSUME NEW c \in Nat, NEW n \in Nat, Line \in Seq(CellType), Reaches(Line, c, n)
    PROVE  Places(c) = 1..n
<1>1. DOMAIN Line = 1..Len(Line) /\ \A i \in 1..Len(Line) : Line[i] \in CellType
  BY LenProperties, ElementOfSeq
<1>2. ASSUME NEW p \in Places(c) PROVE p \in 1..n
  <2>1. PICK i \in 1..Len(Line) : Line[i].call = c /\ Line[i].place = p
    BY <1>1 DEF Places
  <2> QED
    BY <2>1, <1>1, CellIs DEF Reaches
<1>3. ASSUME NEW p \in 1..n PROVE p \in Places(c)
  <2>1. PICK i \in 1..Len(Line) : Line[i] = Cell(c, p)
    BY DEF Reaches
  <2>2. Line[i].call = c /\ Line[i].place = p
    BY <2>1, CellIs
  <2> QED
    BY <2>2, <1>1 DEF Places
<1> QED
  BY <1>2, <1>3
-----------------------------------------------------------------------------
(* Type correctness.                                                       *)

\* What moves when a thread writes, and when one reads.
WriteSide ==
    \/ \E t \in Threads, n \in Lengths : StartWrite(t, n)
    \/ \E t \in Threads : Writing(t)
    \/ Transmit

ReadSide ==
    \/ \E n \in Wants, lim, plain \in BOOLEAN : StartRead(n, lim, plain)
    \/ \E char \in Terminators, lim \in BOOLEAN : StartReadLine(char, lim)
    \/ Reading
    \/ Tick \/ Arrive \/ HangUp \/ OtherErrno

LEMMA WriteSideLeaves ==
    ASSUME WriteSide PROVE UNCHANGED <<inVars, readVars, hungUp>>
BY DEF WriteSide, StartWrite, Writing, WriteSome, WriteFails, Transmit

LEMMA ReadSideLeaves ==
    ASSUME ReadSide PROVE UNCHANGED <<writeVars, outVars>>
BY DEF ReadSide, Reading, StartRead, StartReadLine, NextOfLine, ReadSome,
       ReadEmpty, ReadGone, CheckLimit, Tick, Arrive, HangUp, OtherErrno, Begins,
       readerUnchanged

LEMMA WriteTypes ==
    ASSUME WriteTypeOK, WriteSide PROVE WriteTypeOK'
<1>1. ASSUME NEW t \in Threads, NEW n \in Lengths, StartWrite(t, n) PROVE WriteTypeOK'
  <2>1. n \in Nat \ {0}
    BY SerialTransferAssumption
  <2>2. /\ sizes' = Append(sizes, n) /\ writing' = [writing EXCEPT ![t] = Len(sizes) + 1]
        /\ written' = [written EXCEPT ![t] = 0] /\ UNCHANGED <<outQueue, wire>>
    BY <1>1 DEF StartWrite, outVars
  <2>3. sizes' \in Seq(Nat \ {0}) /\ Len(sizes') = Len(sizes) + 1 /\ Len(sizes) \in Nat
    BY <2>1, <2>2 DEF WriteTypeOK
  <2>4. writing' \in [Threads -> 0..Len(sizes')]
    BY <2>2, <2>3 DEF WriteTypeOK
  <2>5. written' \in [Threads -> Nat]
    BY <2>2 DEF WriteTypeOK
  <2> QED
    BY <2>2, <2>3, <2>4, <2>5 DEF WriteTypeOK
<1>2. ASSUME NEW t \in Threads, NEW k \in 1..Room, WriteSome(t, k) PROVE WriteTypeOK'
  <2>1. k \in Nat /\ Len(sizes) \in Nat /\ writing[t] \in Nat /\ written[t] \in Nat
    BY SerialTransferAssumption DEF WriteTypeOK
  <2>2. Chunk(t, k) \in Seq(CellType)
    BY <2>1 DEF Chunk, Cell, CellType
  <2>3. /\ outQueue' = outQueue \o Chunk(t, k) /\ UNCHANGED <<sizes, wire>>
        /\ written' = [written EXCEPT ![t] = written[t] + k]
        /\ writing' = writing \/ writing' = [writing EXCEPT ![t] = 0]
    BY <1>2 DEF WriteSome, EndWrite
  <2>4. outQueue' \in Seq(CellType)
    BY <2>2, <2>3, JoinedCells DEF WriteTypeOK
  <2>5. written' \in [Threads -> Nat]
    BY <2>1, <2>3 DEF WriteTypeOK
  <2>6. writing' \in [Threads -> 0..Len(sizes)]
    <3>1. writing \in [Threads -> 0..Len(sizes)] /\ 0 \in 0..Len(sizes)
      BY <2>1 DEF WriteTypeOK
    <3>2. [writing EXCEPT ![t] = 0] \in [Threads -> 0..Len(sizes)]
      BY <3>1
    <3> QED
      BY <2>3, <3>1, <3>2
  <2> QED
    BY <2>3, <2>4, <2>5, <2>6 DEF WriteTypeOK
<1>3. ASSUME NEW t \in Threads, WriteFails(t) PROVE WriteTypeOK'
  <2>1. writing' = [writing EXCEPT ![t] = 0] /\ UNCHANGED <<sizes, written, outQueue, wire>>
    BY <1>3 DEF WriteFails, EndWrite, outVars
  <2>2. writing' \in [Threads -> 0..Len(sizes)]
    BY <2>1 DEF WriteTypeOK
  <2> QED
    BY <2>1, <2>2 DEF WriteTypeOK
<1>4. CASE Transmit
  <2>1. outQueue' \in Seq(CellType) /\ wire' \in Seq(CellType)
    BY <1>4 DEF WriteTypeOK, Transmit
  <2> QED
    BY <1>4, <2>1 DEF WriteTypeOK, Transmit, writeVars
<1> QED
  BY <1>1, <1>2, <1>3, <1>4 DEF WriteSide, Writing

\* How many bytes read() gives.
LEMMA ReadGives ==
    ASSUME ReadTypeOK, ReadInv, pc = "read", inQueue # << >>
    PROVE  /\ Asked \in Nat /\ Asked >= 1
           /\ Least(Asked, Len(inQueue)) \in 1..Len(inQueue)
           /\ Least(Asked, Len(inQueue)) <= Asked
<1>1. Len(inQueue) \in Nat \ {0}
  BY EmptySeq DEF ReadTypeOK
<1>2. Asked \in Nat /\ Asked >= 1
  BY LenProperties DEF ReadTypeOK, ReadInv, Asked
<1> QED
  BY <1>1, <1>2 DEF Least

LEMMA FlagTypes ==
    ASSUME FlagsOK, ReadSide PROVE FlagsOK'
<1> USE DEF EndRead, GoesOn, readerUnchanged, lineVars, callVars, readVars, Begins, FlagsOK
<1>1. CASE \E n \in Wants, lim, plain \in BOOLEAN : StartRead(n, lim, plain)
  BY <1>1, Zenon DEF StartRead
<1>2. CASE \E char \in Terminators, lim \in BOOLEAN : StartReadLine(char, lim)
  BY <1>2, Zenon DEF StartReadLine
<1>4. CASE NextOfLine
  BY <1>4, Zenon DEF NextOfLine
<1>5. CASE ReadSome
  BY <1>5, Zenon DEF ReadSome
<1>6. CASE ReadEmpty \/ ReadGone \/ CheckLimit
  BY <1>6, Zenon DEF ReadEmpty, ReadGone, CheckLimit
<1>7. CASE Tick \/ Arrive \/ HangUp \/ OtherErrno
  BY <1>7, Zenon DEF Tick, Arrive, HangUp, OtherErrno
<1> QED
  BY <1>1, <1>2, <1>4, <1>5, <1>6, <1>7 DEF ReadSide, Reading

LEMMA ReadTypes ==
    ASSUME ReadTypeOK, ReadInv, ReadSide PROVE ReadTypeOK'
<1> USE DEF EndRead, GoesOn, readerUnchanged, inVars, readVars, lineVars, callVars, Begins, ReadTypeOK
<1>1. CASE \E n \in Wants, lim, plain \in BOOLEAN : StartRead(n, lim, plain)
  BY <1>1, SerialTransferAssumption DEF StartRead
<1>2. CASE \E char \in Terminators, lim \in BOOLEAN : StartReadLine(char, lim)
  BY <1>2, SerialTransferAssumption DEF StartReadLine
<1>4. CASE NextOfLine
  BY <1>4 DEF NextOfLine
<1>5. CASE ReadSome
  <2> DEFINE k == Least(Asked, Len(inQueue))
  <2>1. k \in 0..Len(inQueue)
    BY <1>5, ReadGives DEF ReadSome
  <2>2. /\ buffer' = buffer \o SubSeq(inQueue, 1, k)
        /\ inQueue' = SubSeq(inQueue, k + 1, Len(inQueue))
    BY <1>5 DEF ReadSome
  <2> HIDE DEF k
  <2>3. inQueue' \in Seq(Nat) /\ SubSeq(inQueue, 1, k) \in Seq(Nat)
    BY <2>1, <2>2, Taken, Dropped
  <2>4. buffer' \in Seq(Nat)
    BY <2>2, <2>3, Joined
  <2>5. /\ pc' \in {"idle", "read", "check", "line"}
        /\ ended' \in {"none", "done", "ReadTimeout", "runtime_error"}
        /\ elapsed' \in Nat
    BY <1>5 DEF ReadSome
  <2> QED
    BY <1>5, <2>3, <2>4, <2>5 DEF ReadSome
<1>6. CASE ReadEmpty
  BY <1>6 DEF ReadEmpty
<1>7. CASE ReadGone
  BY <1>7 DEF ReadGone
<1>8. CASE CheckLimit
  BY <1>8 DEF CheckLimit
<1>9. CASE Tick
  BY <1>9 DEF Tick
<1>10. CASE Arrive
  <2>1. received' \in Nat /\ inQueue' \in Seq(Nat) /\ received' <= Len(Characters)
    BY <1>10, SerialTransferAssumption, LenProperties DEF Arrive
  <2> QED
    BY <1>10, <2>1 DEF Arrive
<1>11. CASE HangUp
  BY <1>11 DEF HangUp
<1>12. CASE OtherErrno
  BY <1>12 DEF OtherErrno
<1> QED
  BY <1>1, <1>2, <1>4, <1>5, <1>6, <1>7, <1>8, <1>9, <1>10, <1>11, <1>12
  DEF ReadSide, Reading
-----------------------------------------------------------------------------
(* The line has each Write's bytes in order.                               *)

LEMMA LineType == ASSUME WriteTypeOK PROVE Line \in Seq(CellType) /\ Len(Line) \in Nat
BY JoinedCells, LenProperties DEF WriteTypeOK, Line

\* Steps that put nothing on the line.
LEMMA LineKept ==
    ASSUME WriteInv, Line' = Line, UNCHANGED writeVars, hungUp => hungUp'
    PROVE  WriteInv'
<1>1. UNCHANGED <<sizes, writing, written>>
  BY DEF writeVars
<1>2. \A c, n : Progress(c, n) => Progress(c, n)'
  BY <1>1 DEF Progress
<1> QED
  BY <1>1, <1>2 DEF WriteInv

LEMMA StartKeeps ==
    ASSUME WriteTypeOK, WriteInv,
           NEW t \in Threads, NEW n \in Lengths, StartWrite(t, n)
    PROVE  WriteInv'
<1>0. Len(sizes) \in Nat
  BY LenProperties DEF WriteTypeOK
<1> PICK new \in Nat : new = Len(sizes) + 1
  BY <1>0
<1>1. /\ Line' = Line /\ hungUp' = hungUp
      /\ sizes' = Append(sizes, n) /\ writing[t] = 0
      /\ writing' = [writing EXCEPT ![t] = new]
      /\ written' = [written EXCEPT ![t] = 0]
  BY DEF StartWrite, outVars, Line, Free
<1>2. /\ Len(sizes) \in Nat /\ n \in Nat \ {0}
      /\ writing \in [Threads -> 0..Len(sizes)] /\ written \in [Threads -> Nat]
  BY SerialTransferAssumption DEF WriteTypeOK
<1>3. /\ Len(sizes') = new /\ sizes'[new] = n
      /\ \A c \in 1..Len(sizes) : sizes'[c] = sizes[c]
  BY <1>1, <1>2 DEF WriteTypeOK
<1>4. /\ \A u \in Threads : writing'[u] = IF u = t THEN new ELSE writing[u]
      /\ \A u \in Threads : written'[u] = IF u = t THEN 0 ELSE written[u]
      /\ \A u \in Threads : writing[u] \in 0..Len(sizes)
  BY <1>1, <1>2
<1>5. \A i \in 1..Len(Line) : Line[i].call \in 1..Len(sizes)
  BY DEF WriteInv
<1>6. ASSUME NEW c \in 1..Len(sizes) PROVE \E m \in Nat : Progress(c, m)'
  <2>1. PICK m \in Nat : Progress(c, m)
    BY DEF WriteInv
  <2>2. Reaches(Line', c, m) /\ m \in 0..sizes'[c]
    BY <2>1, <1>1, <1>3 DEF Progress
  <2>3. ASSUME NEW u \in Threads, writing'[u] = c PROVE m = written'[u]
    BY <2>1, <2>3, <1>2, <1>4 DEF Progress
  <2>4. ASSUME \A u \in Threads : writing'[u] # c, ~hungUp' PROVE m = sizes'[c]
    <3>1. \A u \in Threads : writing[u] # c
      BY <2>4, <1>1, <1>4
    <3> QED
      BY <3>1, <2>1, <2>4, <1>1, <1>3 DEF Progress
  <2> QED
    BY <2>2, <2>3, <2>4 DEF Progress
<1>7. Progress(new, 0)'
  <2>1. \A i \in 1..Len(Line') : Line'[i].call # new
    BY <1>1, <1>2, <1>5
  <2>2. Reaches(Line', new, 0)
    <3>1. \A p \in Nat, i \in 1..Len(Line') : Line'[i] # Cell(new, p)
      <4> SUFFICES ASSUME NEW p \in Nat, NEW i \in 1..Len(Line'), Line'[i] = Cell(new, p)
                   PROVE  FALSE
        OBVIOUS
      <4>1. Line'[i].call = new
        BY CellIs
      <4> QED
        BY <4>1, <2>1
    <3> QED
      BY <3>1 DEF Reaches
  <2>3. 0 \in 0..sizes'[new]
    BY <1>2, <1>3
  <2>4. writing'[t] = new /\ \A u \in Threads : writing'[u] = new => written'[u] = 0
    BY <1>2, <1>4
  <2> QED
    BY <2>2, <2>3, <2>4 DEF Progress
<1>8. \A c \in 1..Len(sizes') : \E m \in Nat : Progress(c, m)'
  <2>1. \A c \in 1..Len(sizes') : c \in 1..Len(sizes) \/ c = new
    BY <1>2, <1>3
  <2> QED
    BY <2>1, <1>6, <1>7
<1>9. \A u, v \in Threads : writing'[u] = writing'[v] /\ writing'[u] # 0 => u = v
  BY <1>2, <1>4 DEF WriteInv
<1>10. InOrder(Line') /\ \A i \in 1..Len(Line') : Line'[i].call \in 1..Len(sizes')
  BY <1>1, <1>2, <1>3, <1>5 DEF WriteInv
<1> QED
  BY <1>8, <1>9, <1>10 DEF WriteInv

LEMMA FailKeeps ==
    ASSUME WriteTypeOK, WriteInv, NEW t \in Threads, WriteFails(t)
    PROVE  WriteInv'
<1>1. /\ Line' = Line /\ hungUp' = hungUp /\ hungUp /\ UNCHANGED <<sizes, written>>
      /\ writing' = [writing EXCEPT ![t] = 0]
  BY DEF WriteFails, EndWrite, outVars, Line
<1>2. \A u \in Threads : writing'[u] = IF u = t THEN 0 ELSE writing[u]
  BY <1>1 DEF WriteTypeOK
<1>3. ASSUME NEW c \in 1..Len(sizes), NEW m \in Nat, Progress(c, m) PROVE Progress(c, m)'
  <2>1. Reaches(Line', c, m) /\ m \in 0..sizes'[c]
    BY <1>3, <1>1 DEF Progress
  <2>2. \A u \in Threads : writing'[u] = c => m = written'[u]
    BY <1>3, <1>1, <1>2 DEF Progress
  <2> QED
    BY <2>1, <2>2, <1>1 DEF Progress
<1>4. \A u, v \in Threads : writing'[u] = writing'[v] /\ writing'[u] # 0 => u = v
  BY <1>2 DEF WriteInv
<1> QED
  BY <1>1, <1>3, <1>4 DEF WriteInv

LEMMA SomeKeeps ==
    ASSUME WriteTypeOK, WriteInv,
           NEW t \in Threads, NEW k \in 1..Room, WriteSome(t, k)
    PROVE  WriteInv'
<1>0. writing[t] \in 0..Len(sizes) /\ Len(sizes) \in Nat /\ written[t] \in Nat /\ k \in Nat
  BY SerialTransferAssumption, LenProperties DEF WriteTypeOK
<1> PICK c \in Nat : c = writing[t]
  BY <1>0
<1> PICK w \in Nat : w = written[t]
  BY <1>0
<1> DEFINE more == Chunk(t, k)
<1>1. /\ UNCHANGED <<sizes, wire, hungUp>> /\ outQueue' = outQueue \o more
      /\ c # 0 /\ ~hungUp /\ k <= sizes[c] - w
      /\ written' = [written EXCEPT ![t] = w + k]
      /\ writing' = IF k = sizes[c] - w THEN [writing EXCEPT ![t] = 0] ELSE writing
  BY DEF WriteSome, EndWrite, Remaining
<1>2. /\ k \in Nat /\ k >= 1 /\ Len(sizes) \in Nat /\ c \in 1..Len(sizes) /\ w \in Nat
      /\ \A d \in 1..Len(sizes) : sizes[d] \in Nat
  <2>1. k >= 1 /\ c \in 1..Len(sizes)
    BY <1>0, <1>1
  <2>2. \A d \in 1..Len(sizes) : sizes[d] \in Nat
    BY ElementOfSeq DEF WriteTypeOK
  <2> QED
    BY <2>1, <2>2, <1>0
<1>3. more \in Seq(CellType) /\ NextBytes(more, c, w, k)
  BY <1>2 DEF Chunk, Cell, CellType, NextBytes
<1>4. Line' = Line \o more
  <2>1. wire \o (outQueue \o more) = (wire \o outQueue) \o more
    <3>1. \A x, y, z \in Seq(CellType) : x \o (y \o z) = (x \o y) \o z
      BY RegroupedCells
    <3> HIDE DEF more
    <3> QED
      BY <1>3, <3>1 DEF WriteTypeOK
  <2> QED
    BY <2>1, <1>1 DEF Line
<1>5. Reaches(Line, c, w) /\ InOrder(Line)
  <2>1. PICK n \in Nat : Progress(c, n)
    BY <1>2 DEF WriteInv
  <2> QED
    BY <2>1 DEF Progress, WriteInv
<1>6. \A u \in Threads : /\ written'[u] = IF u = t THEN w + k ELSE written[u]
                         /\ writing'[u] = writing[u] \/ (u = t /\ writing'[u] = 0)
  <2>1. \A u \in Threads : written'[u] = IF u = t THEN w + k ELSE written[u]
    BY <1>1 DEF WriteTypeOK
  <2>2. \A u \in Threads : writing'[u] = writing[u] \/ (u = t /\ writing'[u] = 0)
    <3>1. writing \in [Threads -> 0..Len(sizes)]
      BY DEF WriteTypeOK
    <3>2. writing' = writing \/ writing' = [writing EXCEPT ![t] = 0]
      BY <1>1
    <3> QED
      BY <3>1, <3>2
  <2> QED
    BY <2>1, <2>2
<1>7. \A u \in Threads : u # t => writing[u] # c
  BY <1>1 DEF WriteInv
<1> HIDE DEF more
<1>8. /\ InOrder(Line') /\ Reaches(Line', c, w + k)
      /\ \A d, n \in Nat : d # c /\ Reaches(Line, d, n) => Reaches(Line', d, n)
      /\ \A i \in 1..Len(Line') :
            Line'[i].call = c \/ \E j \in 1..Len(Line) : Line'[i].call = Line[j].call
  <2>1. Line \in Seq(CellType)
    BY LineType
  <2>2. Extends(Line \o more, Line, c, w + k)
    BY <1>0, <1>3, <1>5, <2>1, Extended, Zenon
  <2> QED
    BY <2>2, <1>4 DEF Extends
<1>9. \A i \in 1..Len(Line') : Line'[i].call \in 1..Len(sizes')
  BY <1>1, <1>2, <1>8 DEF WriteInv
<1>10. Progress(c, w + k)'
  <2>1. w + k \in 0..sizes[c]
    BY <1>1, <1>2
  <2>2. \A u \in Threads : writing'[u] = c => w + k = written'[u]
    BY <1>2, <1>6, <1>7
  <2>3. (\A u \in Threads : writing'[u] # c) => w + k = sizes[c]
    BY <1>1, <1>2
  <2> QED
    BY <2>1, <2>2, <2>3, <1>1, <1>8 DEF Progress
<1>11. ASSUME NEW d \in 1..Len(sizes), d # c PROVE \E m \in Nat : Progress(d, m)'
  <2>1. PICK m \in Nat : Progress(d, m)
    BY DEF WriteInv
  <2>2. Reaches(Line', d, m) /\ m \in 0..sizes'[d]
    <3>1. d \in Nat /\ Reaches(Line, d, m) /\ m \in 0..sizes[d]
      BY <2>1 DEF Progress
    <3> QED
      BY <3>1, <1>1, <1>8, <1>11
  <2>3. \A u \in Threads : writing'[u] = d => u # t /\ writing[u] = d
    BY <1>6, <1>11
  <2>4. \A u \in Threads : writing'[u] = d => m = written'[u]
    BY <2>1, <2>3, <1>6 DEF Progress
  <2>5. (\A u \in Threads : writing'[u] # d) /\ ~hungUp' => m = sizes'[d]
    <3> SUFFICES ASSUME \A u \in Threads : writing'[u] # d PROVE m = sizes[d]
      BY <1>1
    <3>1. \A u \in Threads : writing[u] # d
      BY <1>6, <1>11
    <3> QED
      BY <3>1, <2>1, <1>1 DEF Progress
  <2> QED
    BY <2>2, <2>4, <2>5 DEF Progress
<1>12. \A d \in 1..Len(sizes') : \E m \in Nat : Progress(d, m)'
  <2> SUFFICES ASSUME NEW d \in 1..Len(sizes) PROVE \E m \in Nat : Progress(d, m)'
    BY <1>1
  <2>1. w + k \in Nat
    BY <1>0
  <2> QED
    BY <2>1, <1>10, <1>11
<1>13. \A u, v \in Threads : writing'[u] = writing'[v] /\ writing'[u] # 0 => u = v
  BY <1>6 DEF WriteInv
<1> QED
  BY <1>8, <1>9, <1>12, <1>13 DEF WriteInv

LEMMA WritesKeep ==
    ASSUME WriteTypeOK, WriteInv, WriteSide PROVE WriteInv'
<1>1. CASE Transmit
  <2>1. Line' = Line
    BY <1>1, MovedOne DEF Transmit, WriteTypeOK, Line
  <2> QED
    BY <1>1, <2>1, LineKept DEF Transmit
<1> QED
  BY <1>1, StartKeeps, SomeKeeps, FailKeeps DEF WriteSide, Writing
-----------------------------------------------------------------------------
(* A read gets the next bytes.                                             *)

\* Steps of the reader that take no byte and leave those it has.
LEMMA HeldKept ==
    ASSUME ReadInv, UNCHANGED <<inVars, buffer>>
    PROVE  UpTo(buffer \o inQueue, received)'
BY DEF ReadInv, inVars

\* A read begins with an empty buffer: what is not read yet is without a gap.
LEMMA Emptied ==
    ASSUME ReadTypeOK, ReadInv, UNCHANGED inVars, buffer' = << >>
    PROVE  UpTo(buffer \o inQueue, received)'
<1>1. /\ Len(buffer \o inQueue) = Len(buffer) + Len(inQueue)
      /\ \A i \in 1..Len(inQueue) : (buffer \o inQueue)[i + Len(buffer)] = inQueue[i]
      /\ Len(buffer) \in Nat /\ Len(inQueue) \in Nat
  BY Joined, LenProperties DEF ReadTypeOK
<1>2. \A i \in 1..Len(inQueue) :
          inQueue[i] = received - (Len(buffer) + Len(inQueue)) + (i + Len(buffer))
  BY <1>1 DEF ReadInv, UpTo
<1>3. UpTo(inQueue, received)
  <2>1. Len(inQueue) <= received
    BY <1>1 DEF ReadInv, UpTo, ReadTypeOK
  <2> QED
    BY <1>1, <1>2, <2>1 DEF UpTo, ReadTypeOK
<1>4. << >> \o inQueue = inQueue
  BY ConcatEmptySeq DEF ReadTypeOK
<1> QED
  BY <1>3, <1>4 DEF inVars

LEMMA OneMore ==
    ASSUME NEW h \in Seq(Nat), NEW r \in Nat, UpTo(h, r)
    PROVE  UpTo(Append(h, r + 1), r + 1)
<1>1. /\ Len(h) \in Nat /\ Len(Append(h, r + 1)) = Len(h) + 1
      /\ Append(h, r + 1)[Len(h) + 1] = r + 1
      /\ \A i \in 1..Len(h) : Append(h, r + 1)[i] = h[i]
  OBVIOUS
<1>2. \A i \in 1..Len(h) : h[i] = r - Len(h) + i
  BY DEF UpTo
<1> SUFFICES ASSUME NEW i \in 1..(Len(h) + 1)
             PROVE  Append(h, r + 1)[i] = r + 1 - (Len(h) + 1) + i
  BY <1>1 DEF UpTo
<1>3. CASE i \in 1..Len(h)
  BY <1>1, <1>2, <1>3
<1>4. CASE i = Len(h) + 1
  BY <1>1, <1>4
<1> QED
  BY <1>1, <1>3, <1>4

LEMMA AppendedTo ==
    ASSUME NEW a \in Seq(Nat), NEW b \in Seq(Nat), NEW r \in Nat
    PROVE  a \o Append(b, r) = Append(a \o b, r)
<1>1. <<r>> \in Seq(Nat)
  OBVIOUS
<1> PICK s \in Seq(Nat) : s = <<r>>
  BY <1>1
<1>2. a \o b \in Seq(Nat)
  BY JoinedNumbers
<1>3. Append(b, r) = b \o s /\ Append(a \o b, r) = (a \o b) \o s
  BY <1>2, AppendIsConcat
<1>4. (a \o b) \o s = a \o (b \o s)
  BY Regrouped
<1> QED
  BY <1>3, <1>4

LEMMA Arrives ==
    ASSUME ReadTypeOK, ReadInv, Arrive
    PROVE  UpTo(buffer \o inQueue, received)'
<1> DEFINE h == buffer \o inQueue
           r == received + 1
<1>1. h \in Seq(Nat) /\ Len(h) \in Nat /\ UpTo(h, received)
  BY JoinedNumbers, LenProperties DEF ReadTypeOK, ReadInv
<1>2. buffer \o Append(inQueue, r) = Append(h, r)
  BY AppendedTo DEF ReadTypeOK
<1> HIDE DEF h
<1>3. UpTo(Append(h, r), r)
  BY <1>1, OneMore DEF ReadTypeOK
<1>4. /\ received' = received + 1 /\ inQueue' = Append(inQueue, received + 1)
      /\ buffer' = buffer
  BY DEF Arrive, readVars
<1> QED
  BY <1>2, <1>3, <1>4

LEMMA Begun ==
    ASSUME ReadTypeOK, ReadInv,
           \/ \E n \in Wants, lim, plain \in BOOLEAN : StartRead(n, lim, plain)
           \/ \E char \in Terminators, lim \in BOOLEAN : StartReadLine(char, lim)
    PROVE  ReadInv' /\ EndInv'
<1>1. UpTo(buffer \o inQueue, received)'
  BY Emptied DEF StartRead, StartReadLine, Begins
<1>2. ASSUME NEW n \in Wants, NEW lim \in BOOLEAN, NEW plain \in BOOLEAN,
             StartRead(n, lim, plain)
      PROVE  ReadInv' /\ EndInv'
  <2> DEFINE Facts ==
        /\ buffer' = << >> /\ want' = n /\ n \in Nat /\ ~line' /\ pc = "idle"
        /\ raw' <=> plain /\ ~lim
        /\ ReturnsAtOnce(n, lim, plain) => ended' = "done" /\ pc' = "idle"
        /\ ~ReturnsAtOnce(n, lim, plain) => ended' = "none" /\ pc' = "read"
  <2>1. Facts
    <3>1. /\ buffer' = << >> /\ want' = n /\ pc = "idle"
          /\ raw' = (plain /\ ~lim) /\ line' = FALSE
          /\ IF ReturnsAtOnce(n, lim, plain)
               THEN ended' = "done" /\ UNCHANGED pc
               ELSE ended' = "none" /\ pc' = "read"
      BY <1>2, Zenon DEF StartRead, Begins, Free
    <3>2. n \in Nat
      BY SerialTransferAssumption
    <3> QED
      BY <3>1, <3>2, Zenon
  <2>2. CASE ReturnsAtOnce(n, lim, plain)
    <3>1. raw' \/ want' = 0
      BY <2>1, <2>2, Zenon DEF ReturnsAtOnce
    <3>2. Len(buffer') = 0
      BY <2>1
    <3> QED
      BY <1>1, <2>1, <2>2, <3>1, <3>2 DEF ReadInv, EndInv
  <2>3. CASE ~ReturnsAtOnce(n, lim, plain)
    <3>1. ~raw'
      BY <2>1, <2>3, Zenon DEF ReturnsAtOnce
    <3> QED
      BY <1>1, <2>1, <2>3, <3>1 DEF ReadInv, EndInv
  <2> QED
    BY <2>2, <2>3
<1>3. ASSUME NEW char \in Terminators, NEW lim \in BOOLEAN, StartReadLine(char, lim)
      PROVE  ReadInv' /\ EndInv'
  <2>1. /\ buffer' = << >> /\ ended' = "none" /\ pc' = "line" /\ line' /\ want' = 0
        /\ ~raw'
    BY <1>3 DEF StartReadLine, Begins
  <2> QED
    BY <1>1, <2>1 DEF ReadInv, EndInv
<1> QED
  BY <1>2, <1>3

LEMMA ReadsSome ==
    ASSUME ReadTypeOK, ReadInv, ReadSome
    PROVE  ReadInv' /\ EndInv'
<1> DEFINE k == Least(Asked, Len(inQueue))
           more == SubSeq(inQueue, 1, k)
<1>1. /\ k \in 1..Len(inQueue) /\ k <= Asked /\ Asked \in Nat /\ Len(inQueue) \in Nat
      /\ Len(buffer) \in Nat
  BY ReadGives, LenProperties DEF ReadSome, ReadTypeOK
<1>2. /\ buffer' = buffer \o more /\ inQueue' = SubSeq(inQueue, k + 1, Len(inQueue))
      /\ pc = "read" /\ UNCHANGED <<received, line, terminator, raw, want>>
      /\ IF want # 0 /\ k = Asked
           THEN pc' = "idle" /\ ended' = "done"
           ELSE pc' = (IF line THEN "line" ELSE "check") /\ ended' = ended
  BY DEF ReadSome, EndRead, GoesOn, readerUnchanged, callVars
<1>3. /\ more \in Seq(Nat) /\ Len(more) = k /\ buffer' \in Seq(Nat)
      /\ Len(buffer') = Len(buffer) + k
      /\ \A i \in 1..Len(buffer) : buffer'[i] = buffer[i]
  <2>1. more \in Seq(Nat) /\ Len(more) = k
    BY <1>1, Taken DEF ReadTypeOK
  <2> HIDE DEF more
  <2> QED
    BY <2>1, <1>2, JoinedNumbers DEF ReadTypeOK
<1>4. (buffer \o more) \o SubSeq(inQueue, k + 1, Len(inQueue)) = buffer \o inQueue
  <2>1. k \in 0..Len(inQueue) /\ buffer \in Seq(Nat) /\ inQueue \in Seq(Nat)
    BY <1>1 DEF ReadTypeOK
  <2> HIDE DEF k
  <2> QED
    BY <2>1, Moved, Zenon
<1>5. UpTo(buffer \o inQueue, received)'
  BY <1>2, <1>4 DEF ReadInv
<1> HIDE DEF k, more
<1>6. /\ ended = "none" /\ (line => want = 0) /\ (want # 0 => Len(buffer) < want)
      /\ ~raw /\ ~raw'
  BY <1>2 DEF ReadInv
<1>7. CASE want # 0 /\ k = Asked
  <2>1. ~line' /\ ended' = "done" /\ pc' = "idle" /\ want' = want
    BY <1>2, <1>6, <1>7
  <2>2. Len(buffer') = want
    BY <1>1, <1>3, <1>7 DEF Asked, ReadTypeOK
  <2> QED
    BY <1>5, <1>6, <2>1, <2>2 DEF ReadInv, EndInv
<1>8. CASE want # 0 /\ k # Asked
  <2>1. ~line' /\ ended' = "none" /\ pc' = "check" /\ want' = want
    BY <1>2, <1>6, <1>8
  <2>2. Len(buffer') < want
    <3>1. want \in Nat /\ Asked = want - Len(buffer)
      BY <1>8 DEF Asked, ReadTypeOK
    <3>2. k < Asked
      BY <1>1, <1>8
    <3> QED
      BY <1>1, <1>3, <3>1, <3>2
  <2> QED
    BY <1>5, <1>6, <2>1, <2>2 DEF ReadInv, EndInv
<1>9. CASE want = 0
  <2>1. ended' = "none" /\ want' = 0 /\ line' = line /\ pc' = IF line THEN "line" ELSE "check"
    BY <1>2, <1>6, <1>9
  <2>2. line => \A i \in 1..Len(buffer') : i < Len(buffer') => ~Met(i)'
    <3>1. k = 1
      BY <1>1, <1>9 DEF Asked
    <3>2. line => \A i \in 1..Len(buffer) : ~Met(i)
      BY <1>2 DEF ReadInv
    <3>3. \A i \in 1..Len(buffer') : i < Len(buffer') => i \in 1..Len(buffer)
      BY <1>1, <1>3, <3>1
    <3> QED
      BY <1>2, <1>3, <3>2, <3>3 DEF Met
  <2> QED
    BY <1>5, <1>6, <2>1, <2>2 DEF ReadInv, EndInv
<1> QED
  BY <1>7, <1>8, <1>9

\* What comes is compared as it is; a terminator is negative as a char or itself.
LEMMA CharactersAre ==
    ASSUME ReadTypeOK, ReadInv
    PROVE  /\ \A i \in 1..Len(buffer) : Characters[buffer[i]] \in 0..255
           /\ next_char \in 0..255
           /\ terminator < 128 => AsInt(terminator) = terminator
           /\ ~(terminator < 128) => AsInt(terminator) < 0
<1>1. /\ Len(buffer \o inQueue) = Len(buffer) + Len(inQueue)
      /\ \A i \in 1..Len(buffer) : (buffer \o inQueue)[i] = buffer[i]
      /\ Len(buffer) \in Nat /\ Len(inQueue) \in Nat /\ Len(Characters) \in Nat
  BY Joined, LenProperties, SerialTransferAssumption DEF ReadTypeOK
<1>2. ASSUME NEW i \in 1..Len(buffer)
      PROVE  buffer[i] \in 1..Len(Characters)
  <2> PICK m \in Nat, q \in Nat, r \in Nat, c \in Nat :
          m = Len(buffer) /\ q = Len(inQueue) /\ r = received /\ c = Len(Characters)
    BY <1>1 DEF ReadTypeOK
  <2>1. m + q <= r /\ r <= c
    BY <1>1 DEF ReadInv, UpTo, ReadTypeOK
  <2>2. i \in 1..(m + q)
    BY <2>1
  <2>3. (buffer \o inQueue)[i] = r - (m + q) + i
    BY <1>1, <2>2 DEF ReadInv, UpTo
  <2>4. r - (m + q) + i \in 1..c
    BY <2>1, <2>2
  <2> QED
    BY <1>1, <2>3, <2>4
<1>3. \A i \in 1..Len(buffer) : Characters[buffer[i]] \in 0..255
  BY <1>2, ElementOfSeq, SerialTransferAssumption
<1>4. next_char \in 0..255
  <2>1. CASE buffer = << >>
    BY <2>1 DEF next_char
  <2>2. CASE buffer # << >>
    <3>1. Len(buffer) \in 1..Len(buffer)
      BY <2>2, EmptySeq, LenProperties DEF ReadTypeOK
    <3> QED
      BY <1>3, <2>2, <3>1 DEF next_char, Last
  <2> QED
    BY <2>1, <2>2
<1> QED
  BY <1>3, <1>4 DEF AsInt, ReadTypeOK

LEMMA LineGoesOn ==
    ASSUME ReadTypeOK, ReadInv, NextOfLine
    PROVE  ReadInv' /\ EndInv'
<1>1. /\ UNCHANGED <<received, inQueue, buffer, line, terminator, raw, want>> /\ pc = "line"
      /\ line /\ want = 0 /\ ended = "none" /\ ~raw
      /\ \A i \in 1..Len(buffer) : i < Len(buffer) => ~Met(i)
  BY DEF NextOfLine, ReadInv, readerUnchanged, inVars, callVars
<1>2. UpTo(buffer \o inQueue, received)'
  BY HeldKept DEF NextOfLine
<1>3. Len(buffer) \in Nat /\ (buffer # << >> => Len(buffer) \in 1..Len(buffer))
  BY EmptySeq, LenProperties DEF ReadTypeOK
<1>4. \A i : Met(i)' <=> Met(i)
  BY <1>1 DEF Met
<1>5. CASE next_char = AsInt(terminator)
  <2>1. pc' = "idle" /\ ended' = "done"
    BY <1>5 DEF NextOfLine, EndRead
  <2>2. terminator < 128 /\ AsInt(terminator) = terminator
    <3>1. PICK x \in 0..255 : x = next_char
      BY CharactersAre
    <3>2. ~(x < 0)
      OBVIOUS
    <3>3. ~(next_char < 0)
      BY <3>1, <3>2, Zenon
    <3> QED
      BY <1>5, <3>3, CharactersAre, Zenon
  <2>3. terminator # 0 => buffer # << >>
    BY <1>5, <2>2 DEF next_char
  <2>4. buffer # << >> => Met(Len(buffer))
    BY <1>5 DEF next_char, Met, Last
  <2>5. \A i \in 1..Len(buffer) : Met(i) <=> i = Len(buffer)
    BY <1>1, <1>3, <2>4
  <2> QED
    BY <1>1, <1>2, <1>4, <2>1, <2>2, <2>3, <2>5 DEF ReadInv, EndInv
<1>6. CASE next_char # AsInt(terminator)
  <2>1. \/ pc' = "idle" /\ ended' = "ReadTimeout"
        \/ pc' = "read" /\ ended' = "none"
    BY <1>1, <1>6 DEF NextOfLine, EndRead
  <2>2. buffer # << >> => ~Met(Len(buffer))
    BY <1>6 DEF next_char, Met, Last
  <2>3. \A i \in 1..Len(buffer) : ~Met(i)
    BY <1>1, <1>3, <2>2
  <2> QED
    BY <1>1, <1>2, <1>4, <2>1, <2>3 DEF ReadInv, EndInv
<1> QED
  BY <1>5, <1>6

\* read() has found nothing, or the limit is looked at.
LEMMA ReadWaits ==
    ASSUME ReadTypeOK, ReadInv, ReadEmpty \/ ReadGone \/ CheckLimit
    PROVE  ReadInv' /\ EndInv'
<1>1. /\ UNCHANGED <<received, inQueue, buffer, line, terminator, raw, want>>
      /\ pc \in {"read", "check"}
      /\ \/ pc' = "idle" /\ ended' \in {"ReadTimeout", "runtime_error"}
         \/ pc' \in {"read", "check"} /\ ended' = ended
  BY DEF ReadEmpty, ReadGone, CheckLimit, EndRead, GoesOn, readerUnchanged, inVars, callVars
<1>2. UpTo(buffer \o inQueue, received)'
  BY HeldKept DEF ReadEmpty, ReadGone, CheckLimit
<1>3. /\ ended = "none" /\ (line => want = 0) /\ (want # 0 => Len(buffer) < want)
      /\ ~raw /\ (line => \A i \in 1..Len(buffer) : ~Met(i))
      /\ \A i : Met(i)' <=> Met(i)
  BY <1>1 DEF ReadInv, Met
<1> QED
  BY <1>1, <1>2, <1>3 DEF ReadInv, EndInv

LEMMA ReadsKeep ==
    ASSUME ReadTypeOK, ReadInv, EndInv, ReadSide PROVE ReadInv' /\ EndInv'
<1>1. CASE Tick \/ HangUp \/ OtherErrno
  <2>1. UNCHANGED <<inVars, buffer, pc, line, terminator, raw, want, ended>>
    BY <1>1 DEF Tick, HangUp, OtherErrno, lineVars, callVars, readVars
  <2>2. UpTo(buffer \o inQueue, received)'
    BY <2>1, HeldKept
  <2> QED
    BY <2>1, <2>2 DEF ReadInv, EndInv, Met
<1>2. CASE Arrive
  <2>1. UNCHANGED <<buffer, pc, line, terminator, raw, want, ended>>
    BY <1>2 DEF Arrive, lineVars, callVars, readVars
  <2> QED
    BY <1>2, <2>1, Arrives DEF ReadInv, EndInv, Met
<1> QED
  BY <1>1, <1>2, Begun, ReadsSome, LineGoesOn, ReadWaits DEF ReadSide, Reading
-----------------------------------------------------------------------------
(* The theorems.                                                           *)

LEMMA TransferInit == Init => TransferInv
<1> SUFFICES ASSUME Init PROVE TransferInv
  OBVIOUS
<1>1. WriteTypeOK
  <2>1. /\ sizes = << >> /\ outQueue = << >> /\ wire = << >>
        /\ writing = [t \in Threads |-> 0] /\ written = [t \in Threads |-> 0]
    BY DEF Init
  <2>2. 0 \in 0..Len(sizes)
    BY <2>1
  <2> QED
    BY <2>1, <2>2 DEF WriteTypeOK
<1>2. ReadTypeOK
  BY DEF Init, ReadTypeOK
<1>3. FlagsOK
  BY Zenon DEF Init, FlagsOK
<1>4. WriteInv
  <2>1. Line = << >> /\ Len(Line) = 0 /\ Len(sizes) = 0
    BY DEF Init, Line
  <2>2. \A t \in Threads : writing[t] = 0
    BY DEF Init
  <2> QED
    BY <2>1, <2>2 DEF WriteInv, InOrder
<1>5. ReadInv
  <2>1. buffer \o inQueue = << >> /\ Len(buffer \o inQueue) = 0
    BY DEF Init
  <2> QED
    BY <2>1 DEF Init, ReadInv, UpTo
<1>6. EndInv
  BY DEF Init, EndInv
<1> QED
  BY <1>1, <1>2, <1>3, <1>4, <1>5, <1>6 DEF TransferInv

\* TransferInv is inductive: however write() and read() split the data and the
\* threads take turns.
THEOREM TransferSafety == Spec => []TransferInv
<1>1. TransferInv /\ [Next]_vars => TransferInv'
  <2> SUFFICES ASSUME TransferInv, [Next]_vars PROVE TransferInv'
    OBVIOUS
  <2> USE DEF TransferInv
  <2>1. CASE WriteSide
    <3>1. UNCHANGED <<inVars, readVars, hungUp>>
      BY <2>1, WriteSideLeaves
    <3>2. /\ UNCHANGED <<received, inQueue, buffer, pc, line, terminator, want, ended, elapsed>>
          /\ UNCHANGED <<atLimit, raw, limited, wouldBlock, hungUp>>
      BY <3>1 DEF inVars, readVars, lineVars, callVars
    <3>3. ReadTypeOK'
      BY <3>2 DEF ReadTypeOK
    <3>4. FlagsOK'
      BY <3>2 DEF FlagsOK
    <3>5. ReadInv' /\ EndInv'
      BY <3>2 DEF ReadInv, EndInv, Met
    <3> QED
      BY <2>1, <3>3, <3>4, <3>5, WriteTypes, WritesKeep
  <2>2. CASE ReadSide
    <3>1. UNCHANGED <<writeVars, outVars>>
      BY <2>2, ReadSideLeaves
    <3>2. WriteTypeOK' /\ Line' = Line
      BY <3>1 DEF writeVars, outVars, WriteTypeOK, Line
    <3>3. hungUp => hungUp'
      BY <2>2 DEF ReadSide, Reading, StartRead, StartReadLine, NextOfLine,
                  ReadSome, ReadEmpty, ReadGone, CheckLimit, Tick, Arrive, HangUp,
                  OtherErrno, Begins, readerUnchanged
    <3>4. WriteInv'
      BY <3>1, <3>2, <3>3, LineKept
    <3> QED
      BY <2>2, <3>2, <3>4, ReadTypes, FlagTypes, ReadsKeep
  <2>3. CASE UNCHANGED vars
    <3>1. /\ UNCHANGED <<received, inQueue, buffer, pc, line, terminator, want, ended, elapsed>>
          /\ UNCHANGED <<atLimit, raw, limited, wouldBlock, hungUp, outQueue, wire>>
          /\ UNCHANGED <<sizes, writing, written>>
      BY <2>3 DEF vars, inVars, readVars, lineVars, callVars, outVars, writeVars
    <3>2. WriteTypeOK' /\ ReadTypeOK'
      BY <3>1 DEF ReadTypeOK, WriteTypeOK
    <3>3. FlagsOK'
      BY <3>1 DEF FlagsOK
    <3>4. WriteInv'
      BY <3>1, LineKept DEF Line, writeVars
    <3>5. ReadInv' /\ EndInv'
      BY <3>1 DEF ReadInv, EndInv, Met
    <3> QED
      BY <3>2, <3>3, <3>4, <3>5
  <2> QED
    BY <2>1, <2>2, <2>3 DEF Next, WriteSide, ReadSide
<1> QED
  BY <1>1, TransferInit, PTL DEF Spec

\* The line gets each Write's bytes in order and each once, and all of them by
\* the time Write returns, unless the device went.
THEOREM WritesWhole == Spec => []WritesAreWhole
<1>1. TransferInv => WritesAreWhole
  <2> SUFFICES ASSUME TransferInv PROVE WritesAreWhole
    OBVIOUS
  <2>1. Line \in Seq(CellType) /\ DOMAIN Line = 1..Len(Line) /\ DOMAIN sizes = 1..Len(sizes)
    BY LineType, LenProperties DEF TransferInv, WriteTypeOK
  <2>2. ASSUME NEW c \in DOMAIN sizes
        PROVE  /\ \E n \in 0..sizes[c] : Places(c) = 1..n
               /\ (\A t \in Threads : writing[t] # c) /\ ~hungUp => Places(c) = 1..sizes[c]
    <3>1. c \in Nat
      BY <2>1
    <3>2. PICK n \in Nat : Progress(c, n)
      BY <2>1 DEF TransferInv, WriteInv
    <3>3. Places(c) = 1..n
      BY <2>1, <3>1, <3>2, PlacesReached DEF Progress
    <3> QED
      BY <3>2, <3>3 DEF Progress
  <2> QED
    BY <2>1, <2>2 DEF WritesAreWhole, TransferInv, WriteInv, InOrder
<1> QED
  BY <1>1, TransferSafety, PTL

\* A Read that returns has the next bytes, as many as asked for, or none if it is
\* into plain memory without a limit; a ReadLine that returns those up to the first
\* terminator, or none if that is zero; and none is lost.
THEOREM ReadsWhole == Spec => []ReadsAreWhole
<1>1. TransferInv => ReadsAreWhole
  <2> SUFFICES ASSUME TransferInv PROVE ReadsAreWhole
    OBVIOUS
  <2> DEFINE h == buffer \o inQueue
             n == Len(buffer) + Len(inQueue)
  <2>1. h \in Seq(Nat) /\ Len(h) = n /\ DOMAIN buffer = 1..Len(buffer)
    BY JoinedNumbers, LenProperties DEF TransferInv, ReadTypeOK
  <2>2. Len(buffer) \in Nat /\ Len(inQueue) \in Nat /\ received \in Nat
    BY LenProperties DEF TransferInv, ReadTypeOK
  <2> HIDE DEF h
  <2>3. UpTo(h, received)
    BY DEF TransferInv, ReadInv, h
  <2>4. h = [i \in 1..n |-> received - Len(buffer) - Len(inQueue) + i]
    <3>1. h = [i \in 1..n |-> h[i]]
      BY <2>1, LenProperties
    <3>2. \A i \in 1..n : h[i] = received - Len(buffer) - Len(inQueue) + i
      BY <2>1, <2>2, <2>3 DEF UpTo
    <3> QED
      BY <3>1, <3>2
  <2>5. terminator < 128 => \A i : Met(i) <=> Characters[buffer[i]] = terminator
    BY CharactersAre DEF TransferInv, Met
  <2> QED
    BY <2>1, <2>4, <2>5 DEF ReadsAreWhole, TransferInv, EndInv, h
<1> QED
  BY <1>1, TransferSafety, PTL
=============================================================================

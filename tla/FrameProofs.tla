---------------------------- MODULE FrameProofs ----------------------------
(***************************************************************************)
(* A FrameReader delivers the frames that were sent whole, in order and    *)
(* once, and once silence has put it back in step it loses none and takes  *)
(* nothing else for a frame, which makes it a LossyFifo.  For any buffer,  *)
(* any frames, any number of bytes lost or spoilt, and whatever bytes out  *)
(* of step pass decode.                                                    *)
(***************************************************************************)
EXTENDS FrameReader, SequenceTheorems, TLAPS

CellType == [frame : Nat, place : Nat]
Cell(f, p) == [frame |-> f, place |-> p]

\* Of the cells ahead those of a frame are in the order they were sent, none is
\* of a frame up to the last one delivered, and each has its place in its frame.
InOrder(u, z, low) ==
    /\ \A i \in 1..Len(u) : u[i].frame # 0 =>
          /\ u[i].frame \in 1..Len(z) /\ u[i].frame > low
          /\ u[i].place \in 1..FrameLen(z[u[i].frame])
    /\ \A i, j \in 1..Len(u) :
          i < j /\ u[i].frame # 0 /\ u[j].frame # 0 =>
              \/ u[i].frame < u[j].frame
              \/ u[i].frame = u[j].frame /\ u[i].place < u[j].place

\* No frame after low has been delivered, and none up to it is ahead.
Passed(low) ==
    /\ low \in 0..sent
    /\ \A i \in 1..Len(delivered) : delivered[i] <= low

FrameInv ==
    /\ FrameTypeOK
    /\ line \in Seq(CellType) /\ got \in Seq(CellType)
    /\ \E low : Passed(low) /\ InOrder(Unread, sizes, low)
-----------------------------------------------------------------------------
(* Sequences.                                                              *)

LEMMA Joined ==
    \A a, b \in Seq(CellType) :
        /\ a \o b \in Seq(CellType) /\ Len(a \o b) = Len(a) + Len(b)
        /\ \A i \in 1..Len(a) : (a \o b)[i] = a[i]
        /\ \A i \in 1..Len(b) : (a \o b)[i + Len(a)] = b[i]
BY ConcatProperties, LenProperties

LEMMA Regrouped ==
    \A a, b, c \in Seq(CellType) : a \o (b \o c) = (a \o b) \o c
BY ConcatAssociative, SMTT(30)

LEMMA Dropped ==
    \A s \in Seq(CellType) : \A k \in 0..Len(s) :
        /\ SubSeq(s, k + 1, Len(s)) \in Seq(CellType)
        /\ Len(SubSeq(s, k + 1, Len(s))) = Len(s) - k
        /\ \A i \in 1..(Len(s) - k) : SubSeq(s, k + 1, Len(s))[i] = s[i + k]
OBVIOUS

LEMMA Taken ==
    \A s \in Seq(CellType) : \A k \in 0..Len(s) :
        /\ SubSeq(s, 1, k) \in Seq(CellType)
        /\ Len(SubSeq(s, 1, k)) = k
        /\ \A i \in 1..k : SubSeq(s, 1, k)[i] = s[i]
OBVIOUS

LEMMA Part ==
    ASSUME NEW s \in Seq(CellType), NEW a \in Nat, NEW n \in Nat, a + n <= Len(s)
    PROVE  /\ SubSeq(s, a + 1, a + n) \in Seq(CellType)
           /\ Len(SubSeq(s, a + 1, a + n)) = n
           /\ \A p \in 1..n : SubSeq(s, a + 1, a + n)[p] = s[a + p]
OBVIOUS

\* Frames of any size have their cells.
LEMMA CellsOf ==
    \A f, n \in Nat :
        /\ Cells(f, n) \in Seq(CellType) /\ Len(Cells(f, n)) = FrameLen(n)
        /\ FrameLen(n) \in Nat /\ FrameLen(n) >= 6
        /\ \A i \in 1..FrameLen(n) : Cells(f, n)[i] = Cell(f, i)
BY DEF Cells, CellType, Cell, FrameLen, HeaderSize, CrcSize

\* Losing and spoiling cells keeps the order of the others.
LEMMA Thinned ==
    ASSUME NEW u, NEW z, NEW low, InOrder(u, z, low), NEW v, NEW n \in Nat, Len(v) = n,
           NEW g \in [1..n -> 1..Len(u)],
           \A i, j \in 1..n : i < j => g[i] < g[j],
           \A i \in 1..n : v[i].frame # 0 => v[i] = u[g[i]]
    PROVE  InOrder(v, z, low)
<1>1. \A i \in 1..n : g[i] \in 1..Len(u)
  OBVIOUS
<1>2. \A i \in 1..n : v[i].frame # 0 =>
         /\ v[i].frame \in 1..Len(z) /\ v[i].frame > low
         /\ v[i].place \in 1..FrameLen(z[v[i].frame])
  <2> SUFFICES ASSUME NEW i \in 1..n, v[i].frame # 0
               PROVE  /\ v[i].frame \in 1..Len(z) /\ v[i].frame > low
                      /\ v[i].place \in 1..FrameLen(z[v[i].frame])
    OBVIOUS
  <2>1. g[i] \in 1..Len(u) /\ v[i] = u[g[i]]
    BY <1>1
  <2> QED
    BY <2>1 DEF InOrder
<1>3. ASSUME NEW i \in 1..n, NEW j \in 1..n, i < j, v[i].frame # 0, v[j].frame # 0
      PROVE  \/ v[i].frame < v[j].frame
             \/ v[i].frame = v[j].frame /\ v[i].place < v[j].place
  <2>1. g[i] \in 1..Len(u) /\ g[j] \in 1..Len(u) /\ g[i] < g[j]
    BY <1>1, <1>3
  <2>2. v[i] = u[g[i]] /\ v[j] = u[g[j]]
    BY <1>3
  <2> QED
    BY <1>3, <2>1, <2>2 DEF InOrder
<1> QED
  BY <1>2, <1>3 DEF InOrder

\* A frame that is sent comes after those ahead.
LEMMA AnotherFrame ==
    ASSUME NEW u \in Seq(CellType), NEW z \in Seq(Sizes), NEW low \in Nat, low <= Len(z),
           InOrder(u, z, low), NEW n \in Sizes, NEW f, f = Len(z) + 1,
           NEW v, v = u \o Cells(f, n), NEW y, y = Append(z, n)
    PROVE  InOrder(v, y, low)
<1>1. /\ Len(z) \in Nat /\ Len(u) \in Nat /\ n \in Nat /\ f \in Nat
      /\ y[f] = n /\ Len(y) = f
      /\ \A i \in 1..Len(z) : y[i] = z[i]
  BY AppendProperties, LenProperties, FrameReaderAssumption
<1>2. /\ Len(v) = Len(u) + FrameLen(n) /\ FrameLen(n) \in Nat
      /\ \A i \in 1..Len(u) : v[i] = u[i]
      /\ \A i \in 1..FrameLen(n) : v[i + Len(u)] = Cell(f, i)
  <2>1. /\ Cells(f, n) \in Seq(CellType) /\ Len(Cells(f, n)) = FrameLen(n)
        /\ FrameLen(n) \in Nat /\ \A i \in 1..FrameLen(n) : Cells(f, n)[i] = Cell(f, i)
    BY <1>1, CellsOf
  <2>2. /\ v \in Seq(CellType) /\ Len(v) = Len(u) + Len(Cells(f, n))
        /\ \A i \in 1..Len(u) : v[i] = u[i]
        /\ \A i \in 1..Len(Cells(f, n)) : v[i + Len(u)] = Cells(f, n)[i]
    BY <2>1, Joined, Zenon
  <2> QED
    BY <2>1, <2>2
<1>3. ASSUME NEW i \in 1..Len(v)
      PROVE  \/ i \in 1..Len(u) /\ v[i] = u[i]
             \/ /\ i > Len(u) /\ i - Len(u) \in 1..FrameLen(n)
                /\ v[i].frame = f /\ v[i].place = i - Len(u)
  <2>1. i \in 1..Len(u) \/ (i > Len(u) /\ i - Len(u) \in 1..FrameLen(n) /\ (i - Len(u)) + Len(u) = i)
    BY <1>1, <1>2
  <2>2. CASE i > Len(u) /\ i - Len(u) \in 1..FrameLen(n) /\ (i - Len(u)) + Len(u) = i
    <3>1. v[i] = Cell(f, i - Len(u))
      BY <1>2, <2>2
    <3> QED
      BY <2>2, <3>1 DEF Cell
  <2> QED
    BY <1>2, <2>1, <2>2
<1>4. \A i \in 1..Len(v) : v[i].frame # 0 =>
         /\ v[i].frame \in 1..f /\ v[i].frame > low
         /\ v[i].place \in 1..FrameLen(y[v[i].frame])
  <2> SUFFICES ASSUME NEW i \in 1..Len(v), v[i].frame # 0
               PROVE  /\ v[i].frame \in 1..f /\ v[i].frame > low
                      /\ v[i].place \in 1..FrameLen(y[v[i].frame])
    OBVIOUS
  <2>1. CASE i \in 1..Len(u) /\ v[i] = u[i]
    <3>1. /\ u[i].frame \in 1..Len(z) /\ u[i].frame > low
          /\ u[i].place \in 1..FrameLen(z[u[i].frame])
      BY <2>1 DEF InOrder
    <3> QED
      BY <1>1, <2>1, <3>1
  <2>2. CASE v[i].frame = f /\ v[i].place \in 1..FrameLen(n)
    BY <1>1, <2>2, SMTT(30)
  <2> QED
    BY <1>3, <2>1, <2>2
<1>5. ASSUME NEW i \in 1..Len(v), NEW j \in 1..Len(v), i < j, v[i].frame # 0, v[j].frame # 0
      PROVE  \/ v[i].frame < v[j].frame
             \/ v[i].frame = v[j].frame /\ v[i].place < v[j].place
  <2>1. CASE j \in 1..Len(u) /\ v[j] = u[j]
    <3>1. i \in 1..Len(u) /\ v[i] = u[i]
      BY <1>1, <1>3, <1>5, <2>1
    <3> QED
      BY <1>5, <2>1, <3>1 DEF InOrder
  <2>2. CASE j > Len(u) /\ v[j].frame = f /\ v[j].place = j - Len(u)
    <3>1. CASE i \in 1..Len(u) /\ v[i] = u[i]
      <4>1. u[i].frame \in 1..Len(z)
        BY <1>5, <3>1 DEF InOrder
      <4> QED
        BY <1>1, <2>2, <3>1, <4>1
    <3>2. CASE i > Len(u) /\ v[i].frame = f /\ v[i].place = i - Len(u)
      BY <1>1, <1>5, <2>2, <3>2
    <3> QED
      BY <1>3, <3>1, <3>2
  <2> QED
    BY <1>3, <2>1, <2>2
<1> QED
  BY <1>1, <1>4, <1>5 DEF InOrder

LEMMA Removed ==
    ASSUME NEW s \in Seq(CellType), NEW i \in 1..Len(s), NEW t, t = RemoveAt(s, i)
    PROVE  /\ t \in Seq(CellType) /\ Len(t) = Len(s) - 1
           /\ \A j \in 1..(i - 1) : t[j] = s[j]
           /\ \A j \in i..(Len(s) - 1) : t[j] = s[j + 1]
<1>1. PICK a, b : a = SubSeq(s, 1, i - 1) /\ b = SubSeq(s, i + 1, Len(s))
  OBVIOUS
<1>2. Len(s) \in Nat /\ i \in 0..Len(s) /\ i - 1 \in 0..Len(s)
  BY LenProperties
<1>3. /\ a \in Seq(CellType) /\ Len(a) = i - 1
      /\ \A j \in 1..(i - 1) : a[j] = s[j]
  BY <1>1, <1>2, Taken, Zenon
<1>4. /\ b \in Seq(CellType) /\ Len(b) = Len(s) - i
      /\ \A j \in 1..(Len(s) - i) : b[j] = s[j + i]
  BY <1>1, <1>2, Dropped, Zenon
<1>5. t = a \o b
  BY <1>1, Zenon DEF RemoveAt
<1>6. /\ t \in Seq(CellType) /\ Len(t) = Len(a) + Len(b)
      /\ \A j \in 1..Len(a) : t[j] = a[j]
      /\ \A j \in 1..Len(b) : t[j + Len(a)] = b[j]
  <2>1. a \in Seq(CellType) /\ b \in Seq(CellType)
    BY <1>3, <1>4
  <2> QED
    BY <1>5, <2>1, Joined, SMT
<1>7. Len(t) = Len(s) - 1
  BY <1>2, <1>3, <1>4, <1>6
<1>8. ASSUME NEW j \in i..(Len(s) - 1)
      PROVE  t[j] = s[j + 1]
  <2>1. /\ j - (i - 1) \in 1..(Len(s) - i)
        /\ (j - (i - 1)) + (i - 1) = j /\ (j - (i - 1)) + i = j + 1
    BY <1>2
  <2>2. t[(j - (i - 1)) + (i - 1)] = b[j - (i - 1)] /\ b[j - (i - 1)] = s[(j - (i - 1)) + i]
    BY <1>3, <1>4, <1>6, <2>1
  <2> QED
    BY <2>1, <2>2
<1> QED
  BY <1>3, <1>6, <1>7, <1>8

LEMMA RetypedSeq ==
    ASSUME NEW S, NEW T, NEW s \in Seq(S), \A i \in 1..Len(s) : s[i] \in T
    PROVE  s \in Seq(T)
<1>1. Len(s) \in Nat /\ s \in [1..Len(s) -> T]
  BY LenProperties
<1> QED
  BY <1>1, SeqDef
-----------------------------------------------------------------------------
(* The cells ahead.                                                        *)

LEMMA CellsAhead ==
    ASSUME line \in Seq(CellType), got \in Seq(CellType)
    PROVE  /\ Unread \in Seq(CellType) /\ Len(Unread) = Len(got) + Len(line)
           /\ Len(got) \in Nat /\ Len(line) \in Nat
           /\ \A i \in 1..Len(got) : Unread[i] = got[i]
           /\ \A i \in 1..Len(line) : Unread[i + Len(got)] = line[i]
<1>1. Len(got) \in Nat /\ Len(line) \in Nat
  BY LenProperties
<1> QED
  BY <1>1, Joined, Zenon DEF Unread

\* The type of the line follows from the order of its cells.
LEMMA LineType ==
    ASSUME NEW l \in Seq(CellType), NEW g \in Seq(CellType), NEW z \in Seq(Sizes),
           NEW low, NEW u, u = g \o l, InOrder(u, z, low)
    PROVE  l \in Seq([frame : 0..Len(z), place : Nat])
<1>0. Len(l) \in Nat /\ Len(g) \in Nat /\ Len(z) \in Nat
  BY LenProperties
<1>1. \A i \in 1..Len(l) : l[i] \in CellType
  BY ElementOfSeq
<1>2. /\ Len(u) = Len(g) + Len(l)
      /\ \A i \in 1..Len(l) : u[i + Len(g)] = l[i]
  BY Joined, Zenon
<1>3. ASSUME NEW i \in 1..Len(l)
      PROVE  l[i] \in [frame : 0..Len(z), place : Nat]
  <2>1. i + Len(g) \in 1..Len(u) /\ l[i] = u[i + Len(g)]
    BY <1>0, <1>2
  <2>2. l[i].frame = 0 \/ l[i].frame \in 1..Len(z)
    BY <2>1 DEF InOrder
  <2> QED
    BY <1>0, <1>1, <2>2 DEF CellType
<1> QED
  BY <1>3, RetypedSeq

\* Bytes are taken off the line and dropped with the header.
LEMMA DropKeeps ==
    ASSUME FrameInv, NEW k \in 0..Len(line), line' = SubSeq(line, k + 1, Len(line)),
           got' = << >>, sizes' = sizes, NEW low, InOrder(Unread, sizes, low)
    PROVE  /\ line' \in Seq(CellType) /\ got' \in Seq(CellType)
           /\ Len(Unread') = Len(line) - k
           /\ \A i \in 1..(Len(line) - k) : Unread'[i] = Unread[i + (Len(got) + k)]
           /\ InOrder(Unread', sizes', low)
<1>1. line' = SubSeq(line, k + 1, Len(line)) /\ got' = << >>
  OBVIOUS
<1>2. /\ line \in Seq(CellType) /\ got \in Seq(CellType)
      /\ Len(got) \in Nat /\ Len(line) \in Nat /\ Len(Unread) = Len(got) + Len(line)
      /\ \A i \in 1..Len(line) : Unread[i + Len(got)] = line[i]
  BY CellsAhead DEF FrameInv
<1>3. /\ line' \in Seq(CellType) /\ Len(line') = Len(line) - k
      /\ \A i \in 1..(Len(line) - k) : line'[i] = line[i + k]
  <2>1. /\ SubSeq(line, k + 1, Len(line)) \in Seq(CellType)
        /\ Len(SubSeq(line, k + 1, Len(line))) = Len(line) - k
        /\ \A i \in 1..(Len(line) - k) : SubSeq(line, k + 1, Len(line))[i] = line[i + k]
    BY <1>2, Dropped, Zenon
  <2> QED
    BY <1>1, <2>1, Zenon
<1>4. got' \in Seq(CellType) /\ Len(got') = 0
  BY <1>1, EmptySeq
<1>5. /\ Len(Unread') = Len(got') + Len(line')
      /\ \A i \in 1..Len(line') : Unread'[i + Len(got')] = line'[i]
  BY <1>3, <1>4, Joined, Zenon DEF Unread
<1>6. Len(Unread') = Len(line) - k
  BY <1>2, <1>3, <1>4, <1>5
<1>7. ASSUME NEW i \in 1..(Len(line) - k)
      PROVE  Unread'[i] = Unread[i + (Len(got) + k)]
  <2>1. /\ i \in 1..Len(line') /\ i + Len(got') = i /\ i + k \in 1..Len(line)
        /\ (i + k) + Len(got) = i + (Len(got) + k)
    BY <1>2, <1>3, <1>4
  <2>2. Unread'[i] = line'[i] /\ line'[i] = line[i + k]
    BY <1>3, <1>5, <2>1
  <2> QED
    BY <1>2, <2>1, <2>2
<1>8. InOrder(Unread', sizes', low)
  <2> DEFINE n == Len(line) - k
             g == [i \in 1..n |-> i + (Len(got) + k)]
  <2>1. n \in Nat /\ g \in [1..n -> 1..Len(Unread)]
    BY <1>2
  <2>2. \A i, j \in 1..n : i < j => g[i] < g[j]
    BY <1>2
  <2>3. \A i \in 1..n : Unread'[i] = Unread[g[i]]
    BY <1>7
  <2> HIDE DEF n, g
  <2>4. Len(Unread') = n
    BY <1>6 DEF n
  <2>5. InOrder(Unread', sizes, low)
    BY <2>1, <2>2, <2>3, <2>4, Thinned
  <2> QED
    BY <2>5
<1> QED
  BY <1>3, <1>4, <1>6, <1>7, <1>8

LEMMA Counts ==
    ASSUME FrameInv
    PROVE  /\ sizes \in Seq(Sizes) /\ sent \in Nat /\ Len(sizes) = sent
           /\ DOMAIN sizes = 1..sent /\ \A f \in 1..sent : sizes[f] \in Sizes
           /\ Len(line) \in Nat /\ size \in Nat /\ BufferSize \in Nat
<1>1. /\ sizes \in Seq(Sizes) /\ line \in Seq(CellType)
      /\ size \in Nat /\ BufferSize \in Nat
  BY FrameReaderAssumption DEF FrameInv, FrameTypeOK
<1>2. /\ sent \in Nat /\ Len(sizes) = sent /\ DOMAIN sizes = 1..sent
      /\ \A f \in 1..sent : sizes[f] \in Sizes
  BY <1>1, LenProperties, ElementOfSeq DEF sent
<1> QED
  BY <1>1, <1>2, LenProperties

\* Losing a cell, anywhere on the line.
LEMMA LoseKeeps ==
    ASSUME FrameInv, NEW i \in DOMAIN line, line' = RemoveAt(line, i),
           got' = got, sizes' = sizes, NEW low, InOrder(Unread, sizes, low)
    PROVE  line' \in Seq(CellType) /\ InOrder(Unread', sizes', low)
<1>1. /\ line \in Seq(CellType) /\ got \in Seq(CellType)
      /\ Len(got) \in Nat /\ Len(line) \in Nat /\ Len(Unread) = Len(got) + Len(line)
      /\ \A j \in 1..Len(got) : Unread[j] = got[j]
      /\ \A j \in 1..Len(line) : Unread[j + Len(got)] = line[j]
      /\ i \in 1..Len(line)
  BY CellsAhead, LenProperties DEF FrameInv
<1>2. /\ line' \in Seq(CellType) /\ Len(line') = Len(line) - 1
      /\ \A j \in 1..(i - 1) : line'[j] = line[j]
      /\ \A j \in i..(Len(line) - 1) : line'[j] = line[j + 1]
  BY <1>1, Removed, ZenonT(30)
<1>3. /\ Len(Unread') = Len(got) + Len(line')
      /\ \A j \in 1..Len(got) : Unread'[j] = got[j]
      /\ \A j \in 1..Len(line') : Unread'[j + Len(got)] = line'[j]
  <2>1. Unread' = got \o line'
    BY DEF Unread
  <2>2. got \in Seq(CellType) /\ line' \in Seq(CellType)
    BY <1>1, <1>2
  <2> HIDE DEF Unread
  <2> QED
    BY <2>1, <2>2, Joined, ZenonT(30)
<1> DEFINE n == Len(Unread) - 1
           m == Len(got) + i
           g == [j \in 1..n |-> IF j < m THEN j ELSE j + 1]
<1>4. n \in Nat /\ Len(Unread') = n /\ m \in 1..Len(Unread)
  BY <1>1, <1>2, <1>3
<1>5. ASSUME NEW j \in 1..n
      PROVE  Unread'[j] = Unread[IF j < m THEN j ELSE j + 1]
  <2>1. CASE j <= Len(got)
    <3>1. j \in 1..Len(got) /\ j < m
      BY <1>1, <2>1
    <3> QED
      BY <1>1, <1>3, <3>1
  <2>2. CASE j > Len(got) /\ j < m
    <3>1. /\ j - Len(got) \in 1..(i - 1) /\ j - Len(got) \in 1..Len(line')
          /\ j - Len(got) \in 1..Len(line) /\ (j - Len(got)) + Len(got) = j
      BY <1>1, <1>2, <2>2
    <3>2. Unread'[j] = line'[j - Len(got)] /\ line'[j - Len(got)] = line[j - Len(got)]
      BY <1>2, <1>3, <3>1
    <3>3. Unread[j] = line[j - Len(got)]
      BY <1>1, <3>1
    <3> QED
      BY <2>2, <3>2, <3>3
  <2>3. CASE j >= m
    <3>1. /\ j - Len(got) \in i..(Len(line) - 1) /\ j - Len(got) \in 1..Len(line')
          /\ (j - Len(got)) + 1 \in 1..Len(line) /\ (j - Len(got)) + Len(got) = j
          /\ ((j - Len(got)) + 1) + Len(got) = j + 1
      BY <1>1, <1>2, <2>3
    <3>2. Unread'[j] = line'[j - Len(got)] /\ line'[j - Len(got)] = line[(j - Len(got)) + 1]
      BY <1>2, <1>3, <3>1
    <3>3. ~(j < m)
      BY <1>4, <2>3
    <3> QED
      BY <1>1, <3>1, <3>2, <3>3
  <2> QED
    BY <1>1, <1>4, <2>1, <2>2, <2>3
<1>6. g \in [1..n -> 1..Len(Unread)] /\ \A a, b \in 1..n : a < b => g[a] < g[b]
  BY <1>1, <1>4
<1>7. \A j \in 1..n : Unread'[j] = Unread[g[j]]
  BY <1>5
<1> HIDE DEF n, m, g
<1>8. InOrder(Unread', sizes, low)
  BY <1>4, <1>6, <1>7, Thinned
<1> QED
  BY <1>2, <1>8

\* Spoiling one: it is no frame's any more.
LEMMA SpoilKeeps ==
    ASSUME FrameInv, NEW i \in DOMAIN line, line' = [line EXCEPT ![i] = Spoilt],
           got' = got, sizes' = sizes, NEW low, InOrder(Unread, sizes, low)
    PROVE  line' \in Seq(CellType) /\ InOrder(Unread', sizes', low)
<1>1. /\ line \in Seq(CellType) /\ got \in Seq(CellType)
      /\ Len(got) \in Nat /\ Len(line) \in Nat /\ Len(Unread) = Len(got) + Len(line)
      /\ \A j \in 1..Len(got) : Unread[j] = got[j]
      /\ \A j \in 1..Len(line) : Unread[j + Len(got)] = line[j]
      /\ i \in 1..Len(line)
  BY CellsAhead, LenProperties DEF FrameInv
<1>2. /\ line' \in Seq(CellType) /\ Len(line') = Len(line)
      /\ \A j \in 1..Len(line) : line'[j] = IF j = i THEN Spoilt ELSE line[j]
  <2>1. Spoilt \in CellType
    BY DEF Spoilt, CellType
  <2> QED
    BY <1>1, <2>1, ExceptSeq
<1>3. /\ Len(Unread') = Len(got) + Len(line')
      /\ \A j \in 1..Len(got) : Unread'[j] = got[j]
      /\ \A j \in 1..Len(line') : Unread'[j + Len(got)] = line'[j]
  <2>1. Unread' = got \o line'
    BY DEF Unread
  <2> QED
    BY <1>1, <1>2, <2>1, Joined, SMT
<1> DEFINE n == Len(Unread)
           g == [j \in 1..n |-> j]
<1>4. n \in Nat /\ Len(Unread') = n
  BY <1>1, <1>2, <1>3
<1>5. ASSUME NEW j \in 1..n, Unread'[j].frame # 0
      PROVE  Unread'[j] = Unread[j]
  <2>1. CASE j <= Len(got)
    BY <1>1, <1>3, <2>1
  <2>2. CASE j > Len(got)
    <3>1. j - Len(got) \in 1..Len(line) /\ (j - Len(got)) + Len(got) = j
      BY <1>1, <2>2
    <3>2. Unread'[j] = line'[j - Len(got)] /\ Unread[j] = line[j - Len(got)]
      BY <1>1, <1>2, <1>3, <3>1
    <3> QED
      BY <1>2, <1>5, <3>1, <3>2 DEF Spoilt
  <2> QED
    BY <1>1, <2>1, <2>2
<1>6. g \in [1..n -> 1..Len(Unread)] /\ \A a, b \in 1..n : a < b => g[a] < g[b]
  BY <1>4
<1>7. \A j \in 1..n : Unread'[j].frame # 0 => Unread'[j] = Unread[g[j]]
  BY <1>5
<1> HIDE DEF n, g
<1>8. InOrder(Unread', sizes, low)
  BY <1>4, <1>6, <1>7, Thinned
<1> QED
  BY <1>2, <1>8
-----------------------------------------------------------------------------
(* The reader.                                                             *)

\* A header is read: the cells ahead are the same, with four of them read.
LEMMA HeaderTaken ==
    ASSUME FrameInv, pc = "header", 4 <= Len(line),
           got' = SubSeq(line, 1, 4), line' = SubSeq(line, 5, Len(line))
    PROVE  /\ Unread' = Unread /\ Unread = line /\ got = << >>
           /\ line' \in Seq(CellType) /\ got' \in Seq(CellType) /\ Len(got') = 4
<1>1. line \in Seq(CellType) /\ got \in Seq(CellType) /\ Len(got) = 0
  BY DEF FrameInv, FrameTypeOK
<1>2. got = << >>
  BY <1>1, EmptySeq
<1>3. Unread = line
  BY <1>1, <1>2, ConcatEmptySeq DEF Unread
<1>4. Len(line) \in Nat
  BY <1>1, LenProperties
<1>5. SubSeq(line, 1, 4) \o SubSeq(line, 5, Len(line)) = line
  <2>1. 1 \in 1..(Len(line) + 1) /\ 4 \in (1 - 1)..Len(line) /\ Len(line) \in 4..Len(line)
    BY <1>4
  <2>2. SubSeq(line, 1, 4) \o SubSeq(line, 4 + 1, Len(line)) = SubSeq(line, 1, Len(line))
    BY <1>1, <2>1, ConcatAdjacentSubSeq, ZenonT(30)
  <2>3. SubSeq(line, 1, Len(line)) = line
    BY <1>1, SubSeqFull
  <2> QED
    BY <2>2, <2>3
<1>6. 4 \in 0..Len(line)
  BY <1>4
<1>7. line' \in Seq(CellType)
  <2>1. line' = SubSeq(line, 4 + 1, Len(line))
    OBVIOUS
  <2> QED
    BY <1>1, <1>6, <2>1, Dropped, Zenon
<1>8. got' \in Seq(CellType) /\ Len(got') = 4
  BY <1>1, <1>6, Taken, Zenon
<1> QED
  BY <1>2, <1>3, <1>5, <1>7, <1>8 DEF Unread

\* What a size field is read as.
LEMMA SizesReadType ==
    ASSUME FrameInv, pc = "header", 4 <= Len(line), NEW n \in SizesRead(SubSeq(line, 1, 4))
    PROVE  n \in Nat
<1>1. line \in Seq(CellType) /\ got \in Seq(CellType) /\ Len(got) = 0 /\ Len(line) \in Nat
  BY LenProperties DEF FrameInv, FrameTypeOK
<1>2. Unread = line
  BY <1>1, EmptySeq, ConcatEmptySeq DEF Unread
<1>3. SubSeq(line, 1, 4)[3] = line[3]
  BY <1>1
<1>4. line[3].frame # 0 => line[3].frame \in 1..sent
  <2>1. PICK low : InOrder(Unread, sizes, low)
    BY DEF FrameInv
  <2> QED
    BY <1>1, <1>2, <2>1 DEF InOrder, sent
<1>5. CASE line[3].frame # 0
  <2>1. sizes[line[3].frame] \in Sizes
    BY <1>4, <1>5, Counts
  <2>2. n = sizes[line[3].frame] \/ n \in GarbageSizes
    BY <1>3 DEF SizesRead
  <2>3. Sizes \subseteq Nat /\ GarbageSizes \subseteq Nat
    BY FrameReaderAssumption
  <2> QED
    BY <2>1, <2>2, <2>3
<1>6. CASE line[3].frame = 0
  BY <1>3, <1>6, FrameReaderAssumption DEF SizesRead
<1> QED
  BY <1>5, <1>6

\* A good frame was sent after the last one delivered, and no cell of it or of
\* one before it is left.
LEMMA GoodFrame ==
    ASSUME FrameInv, pc = "body", BodyLen <= Len(line), BodyFrame # 0,
           line' = SubSeq(line, BodyLen + 1, Len(line)), got' = << >>, sizes' = sizes,
           NEW low, InOrder(Unread, sizes, low)
    PROVE  /\ BodyFrame \in 1..sent /\ BodyFrame > low
           /\ InOrder(Unread', sizes', BodyFrame)
<1> DEFINE taken == SubSeq(line, 1, BodyLen)
           n == Len(got) + BodyLen
<1>1. /\ line \in Seq(CellType) /\ got \in Seq(CellType)
      /\ Len(got) \in Nat /\ Len(line) \in Nat /\ Len(Unread) = Len(got) + Len(line)
      /\ \A j \in 1..Len(got) : Unread[j] = got[j]
      /\ \A j \in 1..Len(line) : Unread[j + Len(got)] = line[j]
      /\ BodyLen \in 0..Len(line) /\ BodyLen \in Nat
  BY CellsAhead, Counts DEF FrameInv, BodyLen, CrcSize
<1>2. taken \in Seq(CellType) /\ Len(taken) = BodyLen /\ \A i \in 1..BodyLen : taken[i] = line[i]
  BY <1>1, Taken, Zenon
<1> HIDE DEF taken
<1>3. PICK f \in 1..sent : got \o taken = Cells(f, sizes[f]) /\ BodyFrame = (got \o taken)[1].frame
  BY DEF BodyFrame, FrameOf, taken
<1>0. sent \in Nat /\ \A i \in 1..sent : sizes[i] \in Sizes
  BY Counts, Zenon
<1>4. /\ f \in Nat /\ sizes[f] \in Nat
      /\ Len(Cells(f, sizes[f])) = FrameLen(sizes[f])
      /\ FrameLen(sizes[f]) \in Nat /\ FrameLen(sizes[f]) >= 6
      /\ \A i \in 1..FrameLen(sizes[f]) : Cells(f, sizes[f])[i] = Cell(f, i)
  <2>1. f \in Nat /\ sizes[f] \in Nat
    <3>1. sent \in Nat /\ sizes[f] \in Sizes /\ f \in 1..sent
      BY <1>0, <1>3
    <3>2. \A m \in Sizes : m \in Nat
      BY FrameReaderAssumption
    <3>3. f \in Nat
      BY <3>1
    <3> QED
      BY <3>1, <3>2, <3>3
  <2> QED
    BY <2>1, CellsOf
<1>5. /\ Len(got \o taken) = Len(got) + Len(taken)
      /\ \A i \in 1..Len(got) : (got \o taken)[i] = got[i]
      /\ \A i \in 1..Len(taken) : (got \o taken)[i + Len(got)] = taken[i]
  BY <1>1, <1>2, Joined, Zenon
<1>6. n = FrameLen(sizes[f])
  BY <1>2, <1>3, <1>4, <1>5
<1>7. ASSUME NEW i \in 1..n
      PROVE  Unread[i] = Cell(f, i)
  <2>1. (got \o taken)[i] = Cell(f, i)
    BY <1>3, <1>4, <1>6
  <2>2. CASE i \in 1..Len(got)
    BY <1>1, <1>5, <2>1, <2>2
  <2>3. CASE i > Len(got)
    <3>1. i - Len(got) \in 1..Len(taken) /\ (i - Len(got)) + Len(got) = i
          /\ i - Len(got) \in 1..BodyLen /\ i - Len(got) \in 1..Len(line)
      BY <1>1, <1>2, <2>3
    <3>2. (got \o taken)[i] = taken[i - Len(got)] /\ Unread[i] = line[i - Len(got)]
      BY <1>1, <1>5, <3>1
    <3> QED
      BY <1>2, <2>1, <3>1, <3>2
  <2> QED
    BY <1>1, <2>2, <2>3
<1> HIDE DEF n
<1>8. /\ n \in Nat /\ n >= 6 /\ n <= Len(Unread)
      /\ Unread[1].frame = f /\ Unread[n].frame = f /\ Unread[n].place = n
  <2>1. n \in Nat /\ n >= 6 /\ n <= Len(Unread)
    BY <1>1, <1>4, <1>6 DEF n
  <2>2. Unread[1] = Cell(f, 1) /\ Unread[n] = Cell(f, n)
    BY <1>7, <2>1
  <2> QED
    BY <2>1, <2>2 DEF Cell
<1>9. BodyFrame = f
  <2>1. (got \o taken)[1] = Cell(f, 1)
    BY <1>3, <1>4
  <2> QED
    BY <1>3, <2>1 DEF Cell
<1>10. f > low
  BY <1>1, <1>4, <1>8 DEF InOrder
<1>11. /\ Len(Unread') = Len(Unread) - n
       /\ \A i \in 1..(Len(Unread) - n) : Unread'[i] = Unread[i + n]
       /\ InOrder(Unread', sizes, low)
  <2>1. /\ Len(Unread') = Len(line) - BodyLen
        /\ \A i \in 1..(Len(line) - BodyLen) : Unread'[i] = Unread[i + (Len(got) + BodyLen)]
        /\ InOrder(Unread', sizes', low)
    BY <1>1, DropKeeps DEF FrameInv
  <2> QED
    BY <1>1, <2>1 DEF n
<1>12. ASSUME NEW i \in 1..Len(Unread'), Unread'[i].frame # 0
       PROVE  Unread'[i].frame > f
  <2> DEFINE j == i + n
  <2>1. j \in 1..Len(Unread) /\ n < j /\ Unread'[i] = Unread[j]
    <3>1. \A l, k \in Nat : \A m \in 1..(l - k) : m + k \in 1..l /\ k < m + k
      OBVIOUS
    <3>2. Len(Unread) \in Nat /\ i \in 1..(Len(Unread) - n)
      BY <1>1, <1>11
    <3> QED
      BY <1>8, <1>11, <3>1, <3>2, Zenon
  <2>2. n \in 1..Len(Unread) /\ f # 0
    BY <1>1, <1>4, <1>8
  <2> HIDE DEF j
  <2>3. /\ Unread[j].frame \in 1..Len(sizes)
        /\ Unread[j].place \in 1..FrameLen(sizes[Unread[j].frame])
    BY <1>12, <2>1 DEF InOrder
  <2>4. \/ f < Unread[j].frame
        \/ f = Unread[j].frame /\ n < Unread[j].place
    <3>1. \A a, b \in 1..Len(Unread) :
              a < b /\ Unread[a].frame # 0 /\ Unread[b].frame # 0 =>
                  \/ Unread[a].frame < Unread[b].frame
                  \/ Unread[a].frame = Unread[b].frame /\ Unread[a].place < Unread[b].place
      BY Zenon DEF InOrder
    <3>2. n < j /\ Unread[n].frame # 0 /\ Unread[j].frame # 0
      BY <1>8, <1>12, <2>1, <2>2, Zenon
    <3>3. \/ Unread[n].frame < Unread[j].frame
          \/ Unread[n].frame = Unread[j].frame /\ Unread[n].place < Unread[j].place
      BY <2>1, <2>2, <3>1, <3>2, Zenon
    <3> QED
      BY <1>8, <3>3, Zenon
  <2>5. CASE f < Unread[j].frame
    BY <1>4, <2>1, <2>3, <2>5
  <2>6. CASE f = Unread[j].frame /\ n < Unread[j].place
    <3>1. Unread[j].place \in 1..n
      BY <1>6, <2>3, <2>6, Zenon
    <3> QED
      BY <1>8, <2>6, <3>1
  <2> QED
    BY <2>4, <2>5, <2>6, Zenon
<1>13. InOrder(Unread', sizes, f)
  BY <1>11, <1>12 DEF InOrder
<1> QED
  BY <1>3, <1>9, <1>10, <1>13
-----------------------------------------------------------------------------
(* The invariant.                                                          *)

LEMMA InitFrameInv == Init => FrameInv
<1> SUFFICES ASSUME Init PROVE FrameInv
  OBVIOUS
<1>1. /\ line = << >> /\ got = << >> /\ sizes = << >> /\ delivered = << >>
      /\ sent = 0 /\ Unread = << >>
  BY DEF Init, sent, Unread
<1>2. FrameTypeOK
  <2>1. /\ line \in Seq([frame : 0..sent, place : Nat]) /\ sizes \in Seq(Sizes)
        /\ delivered \in Seq(0..sent)
    BY <1>1, EmptySeq
  <2>2. Len(got) = 0 /\ pc = "header" /\ overrun = FALSE
    BY <1>1, EmptySeq DEF Init
  <2>3. noise \in 0..MaxNoise /\ size \in 0..BufferSize /\ inStep \in -1..sent
    BY <1>1, FrameReaderAssumption DEF Init
  <2> QED
    BY <2>1, <2>2, <2>3 DEF FrameTypeOK
<1>3. Passed(0) /\ InOrder(Unread, sizes, 0)
  BY <1>1, EmptySeq DEF InOrder, Passed
<1>4. line \in Seq(CellType) /\ got \in Seq(CellType)
  BY <1>1, EmptySeq
<1> QED
  BY <1>2, <1>3, <1>4 DEF FrameInv

\* Another frame on the line.
LEMMA SendKeeps ==
    ASSUME FrameInv, NEW n \in Sizes, Send(n)
    PROVE  FrameInv' /\ sent' = sent + 1
<1>1. /\ sizes' = Append(sizes, n) /\ line' = line \o Cells(sent + 1, n)
      /\ UNCHANGED <<noise, pc, got, size, delivered, overrun, inStep>>
  BY DEF Send, readVars
<1>0. PICK low : Passed(low) /\ InOrder(Unread, sizes, low)
  BY DEF FrameInv
<1>2. /\ line \in Seq(CellType) /\ got \in Seq(CellType) /\ sizes \in Seq(Sizes)
      /\ sent \in Nat /\ Len(sizes) = sent /\ n \in Nat
      /\ low \in 0..sent
  BY <1>0, Counts, FrameReaderAssumption DEF FrameInv, Passed
<1>3. sizes' \in Seq(Sizes) /\ Len(sizes') = sent + 1 /\ sent' = sent + 1
  BY <1>1, <1>2, AppendProperties DEF sent
<1>4. Cells(sent + 1, n) \in Seq(CellType)
  BY <1>2, CellsOf
<1>5. line' \in Seq(CellType)
  BY <1>1, <1>2, <1>4, Joined, Zenon
<1>6. Unread' = Unread \o Cells(sent + 1, n)
  <2>1. Unread' = got \o line' /\ Unread = got \o line
    BY <1>1 DEF Unread
  <2>2. got \o (line \o Cells(sent + 1, n)) = (got \o line) \o Cells(sent + 1, n)
    BY <1>2, <1>4, Regrouped, Zenon
  <2> QED
    BY <1>1, <2>1, <2>2, Zenon
<1>7. Unread \in Seq(CellType) /\ InOrder(Unread, sizes, low)
  BY <1>0, <1>2, CellsAhead
<1>8. InOrder(Unread', sizes', low)
  <2>1. low \in Nat /\ low <= Len(sizes) /\ sent + 1 = Len(sizes) + 1
    BY <1>2
  <2> QED
    BY <1>1, <1>2, <1>6, <1>7, <2>1, AnotherFrame
<1>9. Passed(low)'
  BY <1>0, <1>1, <1>2, <1>3 DEF Passed
<1>10. line' \in Seq([frame : 0..sent, place : Nat])'
  <2>1. got' \in Seq(CellType) /\ Unread' = got' \o line' /\ sent' = Len(sizes')
    BY <1>1, <1>2 DEF Unread, sent
  <2>2. line' \in Seq([frame : 0..Len(sizes'), place : Nat])
    BY <1>3, <1>5, <1>8, <2>1, LineType, Zenon
  <2> QED
    BY <2>1, <2>2, Zenon
<1>11. delivered' \in Seq(0..sent')
  <2>1. delivered \in Seq(0..sent) /\ \A i \in 1..Len(delivered) : delivered[i] \in 0..sent
    BY ElementOfSeq DEF FrameInv, FrameTypeOK
  <2>2. \A i \in 1..Len(delivered) : delivered[i] \in 0..sent'
    BY <1>2, <1>3, <2>1
  <2> QED
    BY <1>1, <2>1, <2>2, RetypedSeq
<1>12. inStep' \in -1..sent'
  BY <1>1, <1>2, <1>3 DEF FrameInv, FrameTypeOK
<1>13. FrameTypeOK'
  BY <1>1, <1>3, <1>10, <1>11, <1>12 DEF FrameInv, FrameTypeOK
<1> QED
  BY <1>1, <1>2, <1>3, <1>5, <1>8, <1>9, <1>13 DEF FrameInv

\* A step that sends nothing keeps the invariant with the order.
LEMMA OthersKeep ==
    ASSUME FrameInv, line' \in Seq(CellType), got' \in Seq(CellType),
           sizes' = sizes, delivered' \in Seq(0..sent),
           NEW low, Passed(low)', InOrder(Unread', sizes', low),
           noise' \in 0..MaxNoise, pc' \in {"header", "body"},
           Len(got') = (IF pc' = "body" THEN HeaderSize ELSE 0),
           size' \in 0..BufferSize, overrun' \in BOOLEAN, inStep' \in -1..sent
    PROVE  FrameInv' /\ sent' = sent
<1>1. sent' = sent /\ sizes' \in Seq(Sizes)
  BY DEF FrameInv, FrameTypeOK, sent
<1>3. line' \in Seq([frame : 0..sent, place : Nat])'
  <2>1. Unread' = got' \o line' /\ sent' = Len(sizes')
    BY DEF Unread, sent
  <2>2. InOrder(Unread', sizes', low)
    BY Zenon
  <2>3. line' \in Seq([frame : 0..Len(sizes'), place : Nat])
    BY <1>1, <2>1, <2>2, LineType, Zenon
  <2> QED
    BY <2>1, <2>3, Zenon
<1>4. FrameTypeOK'
  BY <1>1, <1>3 DEF FrameTypeOK
<1> QED
  BY <1>1, <1>4 DEF FrameInv

LEMMA Order ==
    ASSUME FrameInv
    PROVE  /\ \E low : Passed(low) /\ InOrder(Unread, sizes, low)
           /\ delivered \in Seq(0..sent)
BY DEF FrameInv, FrameTypeOK

LEMMA StillPassed ==
    ASSUME NEW low, Passed(low), delivered' = delivered, sizes' = sizes
    PROVE  Passed(low)'
BY DEF Passed, sent

LEMMA StepAfterType ==
    ASSUME FrameInv, NEW k, StepAfter(k)
    PROVE  inStep' \in -1..sent
BY Counts DEF StepAfter, FrameInv, FrameTypeOK

LEMMA LineKeeps ==
    ASSUME FrameInv, NEW i \in DOMAIN line, Lose(i) \/ Spoil(i)
    PROVE  FrameInv' /\ UNCHANGED <<sent, delivered>>
<1>1. /\ noise < MaxNoise /\ noise' = noise + 1 /\ inStep' = -1
      /\ UNCHANGED <<sizes, pc, got, size, delivered, overrun>>
      /\ line' = RemoveAt(line, i) \/ line' = [line EXCEPT ![i] = Spoilt]
  BY DEF Lose, Spoil, readVars
<1>0. PICK low : Passed(low) /\ InOrder(Unread, sizes, low)
  BY Order
<1>2. line' \in Seq(CellType) /\ InOrder(Unread', sizes', low)
  BY <1>0, <1>1, LoseKeeps, SpoilKeeps
<1>3. Passed(low)' /\ delivered' \in Seq(0..sent)
  BY <1>0, <1>1, Order, StillPassed
<1>4. noise' \in 0..MaxNoise /\ inStep' \in -1..sent
  <2>1. noise \in 0..MaxNoise /\ MaxNoise \in Nat /\ sent \in Nat
    BY Counts, FrameReaderAssumption DEF FrameInv, FrameTypeOK
  <2> QED
    BY <1>1, <2>1
<1> QED
  BY <1>1, <1>2, <1>3, <1>4, OthersKeep DEF FrameInv, FrameTypeOK

LEMMA ReadHeaderKeeps ==
    ASSUME FrameInv, ReadHeader
    PROVE  FrameInv' /\ UNCHANGED <<sent, delivered>>
<1>1. /\ pc = "header" /\ 4 <= Len(line) /\ line' = SubSeq(line, 5, Len(line))
      /\ UNCHANGED <<sizes, noise, delivered, overrun, inStep>>
      /\ \E n \in SizesRead(SubSeq(line, 1, 4)) :
            \/ n > BufferSize /\ UNCHANGED <<pc, got, size>>
            \/ n <= BufferSize /\ pc' = "body" /\ got' = SubSeq(line, 1, 4) /\ size' = n
  BY Counts DEF ReadHeader, HeaderSize, sendVars, readVars
<1>2. PICK n \in SizesRead(SubSeq(line, 1, 4)) :
         \/ n > BufferSize /\ UNCHANGED <<pc, got, size>>
         \/ n <= BufferSize /\ pc' = "body" /\ got' = SubSeq(line, 1, 4) /\ size' = n
  BY <1>1
<1>0. PICK low : Passed(low) /\ InOrder(Unread, sizes, low)
  BY Order
<1>6. Passed(low)' /\ delivered' \in Seq(0..sent)
  BY <1>0, <1>1, Order, StillPassed
<1>3. n \in Nat
  BY <1>1, <1>2, SizesReadType
<1>4. CASE n > BufferSize /\ UNCHANGED <<pc, got, size>>
  <2>1. got = << >>
    BY <1>1, EmptySeq DEF FrameInv, FrameTypeOK
  <2>2. 4 \in 0..Len(line) /\ line' = SubSeq(line, 4 + 1, Len(line)) /\ got' = << >>
    BY <1>1, <1>4, <2>1, Counts
  <2>3. /\ line' \in Seq(CellType) /\ got' \in Seq(CellType)
        /\ InOrder(Unread', sizes', low)
    BY <1>0, <1>1, <2>2, DropKeeps
  <2> QED
    BY <1>1, <1>4, <1>6, <2>3, OthersKeep DEF FrameInv, FrameTypeOK
<1>5. CASE n <= BufferSize /\ pc' = "body" /\ got' = SubSeq(line, 1, 4) /\ size' = n
  <2>1. /\ Unread' = Unread /\ line' \in Seq(CellType) /\ got' \in Seq(CellType) /\ Len(got') = 4
    BY <1>1, <1>5, HeaderTaken
  <2>2. InOrder(Unread', sizes', low)
    BY <1>0, <1>1, <2>1
  <2>3. size' \in 0..BufferSize
    BY <1>3, <1>5, Counts
  <2> QED
    BY <1>1, <1>5, <1>6, <2>1, <2>2, <2>3, OthersKeep DEF FrameInv, FrameTypeOK, HeaderSize
<1> QED
  BY <1>1, <1>2, <1>4, <1>5

LEMMA ReadBodyKeeps ==
    ASSUME FrameInv, ReadBody
    PROVE  /\ FrameInv' /\ sent' = sent
           /\ \/ delivered' = delivered
              \/ BodyFrame = 0 /\ delivered' = Append(delivered, 0)
              \/ \E f \in 1..sent : Fifo!Deliver(f)
<1>1. /\ pc = "body" /\ BodyLen <= Len(line) /\ line' = SubSeq(line, BodyLen + 1, Len(line))
      /\ pc' = "header" /\ got' = << >> /\ size' = 0
      /\ \/ delivered' = Append(delivered, BodyFrame)
         \/ BodyFrame = 0 /\ delivered' = delivered
      /\ UNCHANGED <<sizes, noise, overrun, inStep>>
  BY Counts DEF ReadBody, LeaveBody, BodyLen, CrcSize, sendVars
<1>2. BodyLen \in 0..Len(line)
  BY <1>1, Counts DEF BodyLen, CrcSize
<1>0. PICK low : Passed(low) /\ InOrder(Unread, sizes, low)
  BY Order
<1>3. /\ line' \in Seq(CellType) /\ got' \in Seq(CellType) /\ Len(got') = 0
      /\ InOrder(Unread', sizes', low)
  BY <1>0, <1>1, <1>2, DropKeeps, EmptySeq
<1>4. noise' \in 0..MaxNoise /\ size' \in 0..BufferSize /\ overrun' \in BOOLEAN
  BY <1>1, Counts DEF FrameInv, FrameTypeOK
<1>5. inStep' \in -1..sent /\ sent' = sent /\ sent \in Nat
  BY <1>1, Counts DEF FrameInv, FrameTypeOK, sent
<1>6. CASE BodyFrame = 0 /\ delivered' = delivered
  <2>1. Passed(low)' /\ delivered' \in Seq(0..sent)
    BY <1>0, <1>1, <1>6, Order, StillPassed
  <2> QED
    BY <1>1, <1>3, <1>4, <1>5, <1>6, <2>1, OthersKeep
<1>7. ASSUME NEW f \in 0..sent, delivered' = Append(delivered, f)
      PROVE  /\ delivered' \in Seq(0..sent) /\ Len(delivered') = Len(delivered) + 1
             /\ Len(delivered) \in Nat /\ delivered'[Len(delivered) + 1] = f
             /\ \A i \in 1..Len(delivered) : delivered'[i] = delivered[i]
  BY <1>7, Order, AppendProperties, LenProperties
<1>8. CASE BodyFrame = 0 /\ delivered' = Append(delivered, 0)
  <2>1. 0 \in 0..sent /\ low \in 0..sent
    BY <1>0, <1>5 DEF Passed
  <2>2. /\ delivered' \in Seq(0..sent) /\ Len(delivered') = Len(delivered) + 1
        /\ Len(delivered) \in Nat /\ delivered'[Len(delivered) + 1] = 0
        /\ \A i \in 1..Len(delivered) : delivered'[i] = delivered[i]
    BY <1>7, <1>8, <2>1
  <2>3. Passed(low)'
    BY <1>0, <1>5, <2>1, <2>2 DEF Passed
  <2> QED
    BY <1>1, <1>3, <1>4, <1>5, <1>8, <2>2, <2>3, OthersKeep
<1>9. ASSUME NEW f, f = BodyFrame, BodyFrame # 0
      PROVE  FrameInv' /\ sent' = sent /\ \E g \in 1..sent : Fifo!Deliver(g)
  <2>1. /\ f \in 1..sent /\ f > low
        /\ InOrder(Unread', sizes', f)
    BY <1>0, <1>1, <1>9, GoodFrame
  <2>2. delivered' = Append(delivered, f) /\ f \in 0..sent /\ low \in 0..sent
    BY <1>0, <1>1, <1>9, <2>1 DEF Passed
  <2>3. /\ delivered' \in Seq(0..sent) /\ Len(delivered') = Len(delivered) + 1
        /\ Len(delivered) \in Nat /\ delivered'[Len(delivered) + 1] = f
        /\ \A i \in 1..Len(delivered) : delivered'[i] = delivered[i]
    BY <1>7, <2>2
  <2>4. \A i \in 1..Len(delivered) : delivered[i] \in 0..sent /\ delivered[i] <= low
    BY <1>0, Order, ElementOfSeq DEF Passed
  <2>5. Passed(f)'
    BY <1>5, <2>1, <2>2, <2>3, <2>4 DEF Passed
  <2>6. Fifo!Deliver(f)
    <3>1. DOMAIN delivered = 1..Len(delivered)
      BY Order, LenProperties
    <3>2. \A i \in DOMAIN delivered : delivered[i] < f
      BY <1>5, <2>1, <2>2, <2>4, <3>1
    <3>3. (inStep = -1)' = (inStep = -1)
      BY <1>1
    <3> QED
      BY <1>5, <2>2, <3>2, <3>3, Zenon DEF Fifo!Deliver
  <2> QED
    BY <1>1, <1>3, <1>4, <1>5, <2>1, <2>3, <2>5, <2>6, OthersKeep
<1> QED
  BY <1>1, <1>6, <1>8, <1>9

LEMMA TimeoutKeeps ==
    ASSUME FrameInv, NEW k \in 0..Len(line), Timeout(k)
    PROVE  FrameInv' /\ UNCHANGED <<sent, delivered>>
<1>1. /\ line' = SubSeq(line, k + 1, Len(line)) /\ got' = << >> /\ pc' = "header" /\ size' = 0
      /\ UNCHANGED <<sizes, noise, delivered, overrun>>
  BY DEF Timeout, LeaveBody, sendVars
<1>0. PICK low : Passed(low) /\ InOrder(Unread, sizes, low)
  BY Order
<1>5. Passed(low)' /\ delivered' \in Seq(0..sent)
  BY <1>0, <1>1, Order, StillPassed
<1>2. inStep' \in -1..sent
  BY StepAfterType DEF Timeout
<1>3. /\ line' \in Seq(CellType) /\ got' \in Seq(CellType) /\ Len(got') = 0
      /\ InOrder(Unread', sizes', low)
  BY <1>0, <1>1, DropKeeps, EmptySeq
<1>4. noise' \in 0..MaxNoise /\ size' \in 0..BufferSize /\ overrun' \in BOOLEAN
  BY <1>1, Counts DEF FrameInv, FrameTypeOK
<1> QED
  BY <1>1, <1>2, <1>3, <1>4, <1>5, OthersKeep

LEMMA NextFrameInv ==
    ASSUME FrameInv, Next
    PROVE  FrameInv'
<1>1. CASE \E n \in Sizes : Send(n)
  BY <1>1, SendKeeps
<1>2. CASE \E i \in DOMAIN line : Lose(i) \/ Spoil(i)
  BY <1>2, LineKeeps
<1>3. CASE ReadHeader
  BY <1>3, ReadHeaderKeeps
<1>4. CASE ReadBody
  BY <1>4, ReadBodyKeeps
<1>5. CASE ReadBodyOverrun
  <2>1. /\ overrun' = TRUE
        /\ UNCHANGED <<line, sizes, noise, pc, got, size, delivered, inStep>>
    BY <1>5 DEF ReadBodyOverrun, sendVars, readVars
  <2>2. sent' = sent /\ Unread' = Unread
    BY <2>1 DEF sent, Unread
  <2>3. ASSUME NEW low, Passed(low) PROVE Passed(low)'
    BY <2>1, <2>3, StillPassed
  <2> QED
    BY <2>1, <2>2, <2>3 DEF FrameInv, FrameTypeOK
<1>6. CASE Timeouts
  BY <1>6, TimeoutKeeps DEF Timeouts
<1> QED
  BY <1>1, <1>2, <1>3, <1>4, <1>5, <1>6 DEF Next

LEMMA FrameInvStutters == FrameInv /\ UNCHANGED vars => FrameInv'
<1> SUFFICES ASSUME FrameInv, UNCHANGED vars
             PROVE  FrameInv'
  OBVIOUS
<1>1. UNCHANGED <<line, sizes, noise, pc, got, size, delivered, overrun, inStep>>
  BY DEF vars, sendVars, readVars
<1>2. sent' = sent /\ Unread' = Unread
  BY <1>1 DEF sent, Unread
<1>3. ASSUME NEW low, Passed(low) PROVE Passed(low)'
  BY <1>1, <1>3, StillPassed
<1> QED
  BY <1>1, <1>2, <1>3 DEF FrameInv, FrameTypeOK
-----------------------------------------------------------------------------
\* Of the frames the cells ahead belong to none has been delivered, nor has one
\* after them: what is lost, spoilt or late does not change their order.
THEOREM FrameSafety == Spec => []FrameInv
<1>1. FrameInv /\ [Next]_vars => FrameInv'
  BY NextFrameInv, FrameInvStutters
<1> QED
  BY InitFrameInv, <1>1, PTL DEF Spec

\* Every variable keeps its type: no size is let through that the buffer has no
\* room for, and what is delivered was sent or is forged.
THEOREM FrameTypes == Spec => []FrameTypeOK
<1>1. FrameInv => FrameTypeOK
  BY DEF FrameInv
<1> QED
  BY FrameSafety, <1>1, PTL
-----------------------------------------------------------------------------
(* In step: the cells ahead are whole frames, one behind the other.         *)

\* u is the frames of z after c, frame f between off[f - 1] and off[f].
Laid(u, z, c, off) ==
    /\ c \in 0..Len(z) /\ off \in [c..Len(z) -> Nat]
    /\ off[c] = 0 /\ off[Len(z)] = Len(u)
    /\ \A f, g \in c..Len(z) : f <= g => off[f] <= off[g]
    /\ \A f \in (c + 1)..Len(z) :
          /\ off[f] = off[f - 1] + FrameLen(z[f])
          /\ \A p \in 1..FrameLen(z[f]) : u[off[f - 1] + p] = Cell(f, p)

\* c is the last frame that is not ahead.
InStep(c) ==
    /\ \E off : Laid(Unread, sizes, c, off)
    /\ \A f \in (inStep + 1)..c : Contains(delivered, f)
    /\ pc = "body" => c < sent /\ size = sizes[c + 1]

InStepInv == inStep >= 0 => \E c \in 0..sent : InStep(c)

LEMMA FrameLens ==
    ASSUME NEW z \in Seq(Sizes)
    PROVE  /\ Len(z) \in Nat
           /\ \A f \in 1..Len(z) :
                 z[f] \in 0..BufferSize /\ FrameLen(z[f]) = z[f] + 6 /\ FrameLen(z[f]) \in Nat
<1>1. Len(z) \in Nat /\ \A f \in 1..Len(z) : z[f] \in Sizes
  BY LenProperties, ElementOfSeq
<1>2. \A n \in Sizes : n \in 0..BufferSize /\ BufferSize \in Nat
  BY FrameReaderAssumption
<1> QED
  BY <1>1, <1>2 DEF FrameLen, HeaderSize, CrcSize

LEMMA LaidEmpty ==
    ASSUME NEW z \in Seq(Sizes), NEW u, Len(u) = 0
    PROVE  \E off : Laid(u, z, Len(z), off)
<1>1. Len(z) \in Nat
  BY LenProperties
<1> WITNESS [f \in Len(z)..Len(z) |-> 0]
<1> QED
  BY <1>1 DEF Laid

\* The first frame is whole; with no frame ahead there is no cell either.
LEMMA FirstFrame ==
    ASSUME NEW z \in Seq(Sizes), NEW u, NEW c, NEW off, Laid(u, z, c, off)
    PROVE  /\ c = Len(z) => Len(u) = 0
           /\ c # Len(z) =>
                 /\ c + 1 \in 1..Len(z) /\ off[c + 1] = FrameLen(z[c + 1])
                 /\ FrameLen(z[c + 1]) <= Len(u) /\ Len(u) \in Nat
                 /\ \A p \in 1..FrameLen(z[c + 1]) : u[p] = Cell(c + 1, p)
<1>1. c = Len(z) => Len(u) = 0
  BY DEF Laid
<1>2. CASE c # Len(z)
  <2>1. /\ c + 1 \in 1..Len(z) /\ c \in c..Len(z) /\ c + 1 \in c..Len(z)
        /\ c + 1 \in (c + 1)..Len(z) /\ Len(z) \in c..Len(z) /\ (c + 1) - 1 = c
    BY <1>2, FrameLens DEF Laid
  <2>2. /\ off[c] = 0 /\ off[c + 1] = off[c] + FrameLen(z[c + 1])
        /\ off[c + 1] <= Len(u) /\ Len(u) \in Nat
        /\ \A p \in 1..FrameLen(z[c + 1]) : u[off[c] + p] = Cell(c + 1, p)
    <3>1. off[c] = 0 /\ off[Len(z)] = Len(u) /\ off[Len(z)] \in Nat
      BY <2>1 DEF Laid
    <3>2. off[c + 1] <= off[Len(z)]
      BY <2>1, FrameLens DEF Laid
    <3>3. /\ off[c + 1] = off[(c + 1) - 1] + FrameLen(z[c + 1])
          /\ \A p \in 1..FrameLen(z[c + 1]) : u[off[(c + 1) - 1] + p] = Cell(c + 1, p)
      BY <2>1 DEF Laid
    <3> QED
      BY <2>1, <3>1, <3>2, <3>3
  <2>3. FrameLen(z[c + 1]) \in Nat
    BY <2>1, FrameLens
  <2>4. ASSUME NEW p \in 1..FrameLen(z[c + 1])
        PROVE  u[p] = Cell(c + 1, p)
    <3>1. off[c] + p = p
      BY <2>2, <2>3
    <3>2. u[off[c] + p] = Cell(c + 1, p)
      BY <2>2
    <3> QED
      BY <3>1, <3>2
  <2> QED
    BY <1>2, <2>1, <2>2, <2>3, <2>4
<1> QED
  BY <1>1, <1>2

LEMMA Shifted ==
    \A a, l, m, n \in Nat : \A p \in 1..l :
        a + l <= m /\ n <= a => (a - n) + p \in 1..(m - n) /\ ((a - n) + p) + n = a + p
OBVIOUS

\* The first frame is taken.
LEMMA LaidNext ==
    ASSUME NEW z \in Seq(Sizes), NEW u, NEW c, NEW off, Laid(u, z, c, off), c # Len(z),
           NEW n, n = FrameLen(z[c + 1]),
           NEW v, Len(v) = Len(u) - n, \A i \in 1..Len(v) : v[i] = u[i + n]
    PROVE  \E o : Laid(v, z, c + 1, o)
<1> DEFINE o == [f \in (c + 1)..Len(z) |-> off[f] - n]
<1>1. /\ c \in Nat /\ Len(z) \in Nat /\ c + 1 \in 1..Len(z) /\ n \in Nat /\ Len(u) \in Nat
      /\ off[c + 1] = n /\ off \in [c..Len(z) -> Nat]
      /\ \A f, g \in c..Len(z) : f <= g => off[f] <= off[g]
  <2>1. /\ c + 1 \in 1..Len(z) /\ off[c + 1] = n /\ Len(u) \in Nat
    BY FirstFrame
  <2>2. Len(z) \in Nat /\ n \in Nat
    BY <2>1, FrameLens
  <2>3. c \in Nat /\ off \in [c..Len(z) -> Nat]
    BY <2>2 DEF Laid
  <2> QED
    BY <2>1, <2>2, <2>3 DEF Laid
<1>2. \A f \in (c + 1)..Len(z) : off[f] \in Nat /\ n <= off[f] /\ off[f] <= Len(u)
  <2> SUFFICES ASSUME NEW f \in (c + 1)..Len(z)
               PROVE  off[f] \in Nat /\ n <= off[f] /\ off[f] <= Len(u)
    OBVIOUS
  <2>1. /\ f \in c..Len(z) /\ c + 1 \in c..Len(z) /\ Len(z) \in c..Len(z)
        /\ c + 1 <= f /\ f <= Len(z)
    BY <1>1
  <2>2. off[c + 1] <= off[f] /\ off[f] <= off[Len(z)] /\ off[f] \in Nat
    BY <1>1, <2>1
  <2> QED
    BY <1>1, <2>2 DEF Laid
<1>3. o \in [(c + 1)..Len(z) -> Nat]
  BY <1>1, <1>2
<1>4. o[c + 1] = 0 /\ o[Len(z)] = Len(v)
  BY <1>1 DEF Laid
<1>5. \A f, g \in (c + 1)..Len(z) : f <= g => o[f] <= o[g]
  BY <1>1, <1>2
<1>6. ASSUME NEW f \in ((c + 1) + 1)..Len(z)
      PROVE  /\ o[f] = o[f - 1] + FrameLen(z[f])
             /\ \A p \in 1..FrameLen(z[f]) : v[o[f - 1] + p] = Cell(f, p)
  <2>1. /\ f \in (c + 1)..Len(z) /\ f - 1 \in (c + 1)..Len(z)
        /\ f \in 1..Len(z) /\ f \in Nat
    BY <1>1
  <2>2. FrameLen(z[f]) \in Nat
    BY <2>1, FrameLens
  <2>3. /\ off[f] = off[f - 1] + FrameLen(z[f])
        /\ \A p \in 1..FrameLen(z[f]) : u[off[f - 1] + p] = Cell(f, p)
    BY <2>1 DEF Laid
  <2>4. o[f] = off[f] - n /\ o[f - 1] = off[f - 1] - n
    BY <2>1
  <2>5. off[f] <= Len(u) /\ n <= off[f - 1] /\ off[f - 1] \in Nat /\ off[f] \in Nat
    BY <1>2, <2>1
  <2> HIDE DEF o
  <2>6. ASSUME NEW p \in 1..FrameLen(z[f])
        PROVE  v[o[f - 1] + p] = Cell(f, p)
    <3>1. /\ o[f - 1] + p \in 1..Len(v)
          /\ (o[f - 1] + p) + n = off[f - 1] + p
      <4>1. /\ off[f - 1] \in Nat /\ FrameLen(z[f]) \in Nat /\ Len(u) \in Nat /\ n \in Nat
            /\ off[f - 1] + FrameLen(z[f]) <= Len(u) /\ n <= off[f - 1]
        BY <1>1, <2>2, <2>3, <2>5
      <4>2. /\ (off[f - 1] - n) + p \in 1..(Len(u) - n)
            /\ ((off[f - 1] - n) + p) + n = off[f - 1] + p
        BY <2>6, <4>1, Shifted
      <4> QED
        BY <2>4, <4>2, Zenon
    <3>2. v[o[f - 1] + p] = u[(o[f - 1] + p) + n]
      BY <3>1
    <3> QED
      BY <2>3, <3>1, <3>2
  <2>7. \A a, l \in Nat : n <= a => (a + l) - n = (a - n) + l
    BY <1>1
  <2>8. o[f] = o[f - 1] + FrameLen(z[f])
    <3>1. (off[f - 1] + FrameLen(z[f])) - n = (off[f - 1] - n) + FrameLen(z[f])
      BY <2>2, <2>5, <2>7, Zenon
    <3> QED
      BY <2>3, <2>4, <3>1, Zenon
  <2> QED
    BY <2>6, <2>8, Zenon
<1>7. c + 1 \in 0..Len(z)
  BY <1>1
<1> HIDE DEF o
<1>8. Laid(v, z, c + 1, o)
  BY <1>3, <1>4, <1>5, <1>6, <1>7, Zenon DEF Laid
<1> QED
  BY <1>8

\* Another frame is sent.
LEMMA LaidMore ==
    ASSUME NEW z \in Seq(Sizes), NEW u \in Seq(CellType), NEW c, NEW off, Laid(u, z, c, off),
           NEW n \in Sizes, NEW h, h = Len(z) + 1,
           NEW v, v = u \o Cells(h, n), NEW y, y = Append(z, n)
    PROVE  \E o : Laid(v, y, c, o)
<1> DEFINE o == [f \in c..h |-> IF f <= Len(z) THEN off[f] ELSE Len(u) + FrameLen(n)]
<1>1. /\ Len(z) \in Nat /\ Len(u) \in Nat /\ n \in Nat /\ h \in Nat /\ c \in 0..Len(z)
      /\ y[h] = n /\ Len(y) = h /\ y \in Seq(Sizes)
      /\ \A i \in 1..Len(z) : y[i] = z[i]
  BY AppendProperties, LenProperties, FrameReaderAssumption DEF Laid
<1>2. /\ FrameLen(n) \in Nat /\ Len(v) = Len(u) + FrameLen(n)
      /\ \A i \in 1..Len(u) : v[i] = u[i]
      /\ \A i \in 1..FrameLen(n) : v[i + Len(u)] = Cell(h, i)
  <2>1. /\ Cells(h, n) \in Seq(CellType) /\ Len(Cells(h, n)) = FrameLen(n)
        /\ FrameLen(n) \in Nat /\ \A i \in 1..FrameLen(n) : Cells(h, n)[i] = Cell(h, i)
    BY <1>1, CellsOf
  <2>2. /\ v \in Seq(CellType) /\ Len(v) = Len(u) + Len(Cells(h, n))
        /\ \A i \in 1..Len(u) : v[i] = u[i]
        /\ \A i \in 1..Len(Cells(h, n)) : v[i + Len(u)] = Cells(h, n)[i]
    BY <2>1, Joined, Zenon
  <2> QED
    BY <2>1, <2>2
<1>3. /\ off \in [c..Len(z) -> Nat] /\ off[c] = 0 /\ off[Len(z)] = Len(u)
      /\ \A f, g \in c..Len(z) : f <= g => off[f] <= off[g]
  BY DEF Laid
<1>4. /\ \A f \in c..Len(z) : o[f] = off[f] /\ off[f] \in Nat /\ off[f] <= Len(u)
      /\ o[h] = Len(u) + FrameLen(n)
  <2>1. \A f \in c..Len(z) : f \in c..h /\ f <= Len(z) /\ Len(z) \in c..Len(z)
    BY <1>1
  <2>2. h \in c..h /\ ~(h <= Len(z))
    BY <1>1
  <2> QED
    BY <1>3, <2>1, <2>2
<1>5. o \in [c..h -> Nat]
  BY <1>1, <1>2, <1>3
<1>6. c \in c..Len(z) /\ \A f \in c..h : f \in c..Len(z) \/ f = h
  BY <1>1
<1> HIDE DEF o
<1>7. o[c] = 0 /\ o[h] = Len(v)
  BY <1>2, <1>3, <1>4, <1>6
<1>8. \A f, g \in c..h : f <= g => o[f] <= o[g]
  <2> SUFFICES ASSUME NEW f \in c..h, NEW g \in c..h, f <= g PROVE o[f] <= o[g]
    OBVIOUS
  <2>1. CASE g \in c..Len(z)
    <3>1. f \in c..Len(z)
      BY <1>1, <2>1
    <3> QED
      BY <1>3, <1>4, <2>1, <3>1
  <2>2. CASE g = h
    <3>1. o[g] = Len(u) + FrameLen(n)
      BY <1>4, <2>2
    <3>2. (o[f] <= Len(u) /\ o[f] \in Nat) \/ f = h
      BY <1>4, <1>6
    <3> QED
      BY <1>1, <1>2, <2>2, <3>1, <3>2
  <2> QED
    BY <1>6, <2>1, <2>2
<1>9. ASSUME NEW f \in (c + 1)..h
      PROVE  /\ o[f] = o[f - 1] + FrameLen(y[f])
             /\ \A p \in 1..FrameLen(y[f]) : v[o[f - 1] + p] = Cell(f, p)
  <2>1. f - 1 \in c..Len(z) /\ (f \in (c + 1)..Len(z) \/ f = h)
    BY <1>1
  <2>2. CASE f \in (c + 1)..Len(z)
    <3>1. f \in 1..Len(z) /\ f \in c..Len(z)
      BY <1>1, <2>2
    <3>2. y[f] = z[f] /\ FrameLen(z[f]) \in Nat
      BY <1>1, <3>1, FrameLens
    <3>3. /\ off[f] = off[f - 1] + FrameLen(z[f])
          /\ \A p \in 1..FrameLen(z[f]) : u[off[f - 1] + p] = Cell(f, p)
      BY <2>2 DEF Laid
    <3>4. o[f] = off[f] /\ o[f - 1] = off[f - 1] /\ off[f - 1] \in Nat /\ off[f] <= Len(u)
      BY <1>4, <2>1, <3>1
    <3>5. ASSUME NEW p \in 1..FrameLen(z[f])
          PROVE  v[off[f - 1] + p] = Cell(f, p)
      <4>1. off[f - 1] + p \in 1..Len(u)
        BY <1>1, <3>2, <3>3, <3>4
      <4> QED
        BY <1>2, <3>3, <4>1
    <3> QED
      BY <3>2, <3>3, <3>4, <3>5
  <2>3. CASE f = h
    <3>1. f - 1 = Len(z) /\ o[f - 1] = Len(u) /\ o[f] = Len(u) + FrameLen(n) /\ y[f] = n
      BY <1>1, <1>3, <1>4, <2>1, <2>3
    <3>2. ASSUME NEW p \in 1..FrameLen(n)
          PROVE  v[o[f - 1] + p] = Cell(f, p)
      <4>1. o[f - 1] + p = p + Len(u)
        BY <1>1, <1>2, <3>1
      <4> QED
        BY <1>2, <2>3, <4>1
    <3> QED
      BY <3>1, <3>2
  <2> QED
    BY <2>1, <2>2, <2>3
<1>10. c \in 0..Len(y)
  BY <1>1
<1>11. Laid(v, y, c, o)
  BY <1>1, <1>5, <1>7, <1>8, <1>9, <1>10 DEF Laid
<1> QED
  BY <1>11
-----------------------------------------------------------------------------
LEMMA InitInStep == Init => InStepInv
<1> SUFFICES ASSUME Init PROVE InStepInv
  OBVIOUS
<1>1. /\ Unread = << >> /\ sizes = << >> /\ inStep = 0 /\ pc = "header" /\ sent = 0
  BY DEF Init, Unread, sent
<1>2. Len(Unread) = 0 /\ sizes \in Seq(Sizes) /\ Len(sizes) = 0
  BY <1>1, EmptySeq
<1>3. \E off : Laid(Unread, sizes, 0, off)
  BY <1>2, LaidEmpty
<1>4. InStep(0)
  BY <1>1, <1>3 DEF InStep
<1> QED
  BY <1>1, <1>4 DEF InStepInv

LEMMA SendInStep ==
    ASSUME FrameInv, NEW n \in Sizes, Send(n), NEW c \in 0..sent, InStep(c)
    PROVE  InStep(c)'
<1>1. /\ sizes' = Append(sizes, n) /\ line' = line \o Cells(sent + 1, n)
      /\ UNCHANGED <<pc, got, size, delivered, inStep>>
  BY DEF Send, readVars
<1>2. /\ line \in Seq(CellType) /\ got \in Seq(CellType) /\ sizes \in Seq(Sizes)
      /\ sent \in Nat /\ Len(sizes) = sent /\ n \in Nat
  BY Counts, FrameReaderAssumption DEF FrameInv
<1>3. Cells(sent + 1, n) \in Seq(CellType)
  BY <1>2, CellsOf
<1>4. Unread' = Unread \o Cells(sent + 1, n)
  <2>1. Unread' = got \o line' /\ Unread = got \o line
    BY <1>1 DEF Unread
  <2>2. got \o (line \o Cells(sent + 1, n)) = (got \o line) \o Cells(sent + 1, n)
    BY <1>2, <1>3, Regrouped, Zenon
  <2> QED
    BY <1>1, <2>1, <2>2, Zenon
<1>5. Unread \in Seq(CellType)
  BY <1>2, CellsAhead
<1>6. PICK off : Laid(Unread, sizes, c, off)
  BY DEF InStep
<1>7. \E o : Laid(Unread', sizes', c, o)
  <2>1. sent + 1 = Len(sizes) + 1
    BY <1>2
  <2> QED
    BY <1>1, <1>2, <1>4, <1>5, <1>6, <2>1, LaidMore
<1>8. sent' = sent + 1 /\ \A f \in 1..sent : sizes'[f] = sizes[f]
  BY <1>1, <1>2, AppendProperties DEF sent
<1>9. pc' = "body" => c < sent' /\ size' = sizes'[c + 1]
  <2> SUFFICES ASSUME pc' = "body" PROVE c < sent' /\ size' = sizes'[c + 1]
    OBVIOUS
  <2>1. c < sent /\ size = sizes[c + 1]
    BY <1>1 DEF InStep
  <2>2. c + 1 \in 1..sent
    BY <1>2, <2>1
  <2> QED
    BY <1>1, <1>2, <1>8, <2>1, <2>2
<1> QED
  BY <1>1, <1>7, <1>9 DEF InStep, Contains

\* The header read is that of the first frame ahead, and it is not dropped.
LEMMA ReadHeaderInStep ==
    ASSUME FrameInv, ReadHeader, NEW c \in 0..sent, InStep(c)
    PROVE  InStep(c)'
<1>1. /\ pc = "header" /\ 4 <= Len(line) /\ line' = SubSeq(line, 5, Len(line))
      /\ UNCHANGED <<sizes, noise, delivered, overrun, inStep>>
      /\ \E n \in SizesRead(SubSeq(line, 1, 4)) :
            \/ n > BufferSize /\ UNCHANGED <<pc, got, size>>
            \/ n <= BufferSize /\ pc' = "body" /\ got' = SubSeq(line, 1, 4) /\ size' = n
  BY Counts DEF ReadHeader, HeaderSize, sendVars, readVars
<1>2. PICK off : Laid(Unread, sizes, c, off)
  BY DEF InStep
<1>3. /\ line \in Seq(CellType) /\ Unread = line /\ Len(line) \in Nat
      /\ sizes \in Seq(Sizes) /\ Len(sizes) = sent
  <2>1. line \in Seq(CellType) /\ got \in Seq(CellType) /\ Len(got) = 0
    BY <1>1 DEF FrameInv, FrameTypeOK
  <2>2. Unread = line
    BY <2>1, EmptySeq, ConcatEmptySeq DEF Unread
  <2> QED
    BY <2>1, <2>2, Counts
<1>4. c # sent
  <2>1. c = Len(sizes) => Len(Unread) = 0
    BY <1>2, <1>3, FirstFrame
  <2> QED
    BY <1>1, <1>3, <2>1
<1>5. /\ c + 1 \in 1..sent /\ FrameLen(sizes[c + 1]) >= 6
      /\ FrameLen(sizes[c + 1]) \in Nat /\ sizes[c + 1] \in 0..BufferSize
      /\ \A p \in 1..FrameLen(sizes[c + 1]) : line[p] = Cell(c + 1, p)
  <2>1. /\ c + 1 \in 1..Len(sizes)
        /\ \A p \in 1..FrameLen(sizes[c + 1]) : Unread[p] = Cell(c + 1, p)
    BY <1>2, <1>3, <1>4, FirstFrame
  <2> QED
    BY <1>3, <2>1, FrameLens, FrameReaderAssumption
<1>6. line[3] = Cell(c + 1, 3) /\ line[4] = Cell(c + 1, 4)
  BY <1>5
<1>7. SizesRead(SubSeq(line, 1, 4)) = {sizes[c + 1]}
  <2>1. SubSeq(line, 1, 4)[3] = Cell(c + 1, 3) /\ SubSeq(line, 1, 4)[4] = Cell(c + 1, 4)
    <3>1. 4 \in 0..Len(line) /\ 3 \in 1..4 /\ 4 \in 1..4
      BY <1>1, <1>3
    <3> QED
      BY <1>3, <1>6, <3>1, Taken
  <2> QED
    BY <1>5, <2>1 DEF SizesRead, Cell
<1>8. pc' = "body" /\ got' = SubSeq(line, 1, 4) /\ size' = sizes[c + 1]
  BY <1>1, <1>5, <1>7, FrameReaderAssumption
<1>9. Unread' = Unread
  BY <1>1, <1>8, HeaderTaken
<1>10. sent' = sent /\ c < sent
  <2>1. sent' = sent
    BY <1>1 DEF sent
  <2> QED
    BY <1>4, <2>1, Counts
<1> QED
  BY <1>1, <1>2, <1>8, <1>9, <1>10 DEF InStep

\* The bytes of the body are the rest of that frame.
LEMMA ReadBodyInStep ==
    ASSUME FrameInv, ReadBody, NEW c \in 0..sent, InStep(c)
    PROVE  c + 1 \in 0..sent /\ InStep(c + 1)' /\ BodyFrame # 0
<1> DEFINE taken == SubSeq(line, 1, BodyLen)
           n == FrameLen(sizes[c + 1])
<1>1. /\ pc = "body" /\ BodyLen <= Len(line) /\ line' = SubSeq(line, BodyLen + 1, Len(line))
      /\ pc' = "header" /\ got' = << >>
      /\ \/ delivered' = Append(delivered, BodyFrame)
         \/ BodyFrame = 0 /\ delivered' = delivered
      /\ UNCHANGED <<sizes, inStep>>
  BY Counts DEF ReadBody, LeaveBody, BodyLen, CrcSize, sendVars
<1>2. PICK off : Laid(Unread, sizes, c, off)
  BY DEF InStep
<1>3. c < sent /\ size = sizes[c + 1] /\ c + 1 \in 1..sent /\ c # Len(sizes)
  BY <1>1, Counts DEF InStep
<1>4. /\ line \in Seq(CellType) /\ got \in Seq(CellType) /\ Len(got) = 4
      /\ Len(line) \in Nat /\ Len(Unread) = Len(got) + Len(line)
      /\ \A j \in 1..Len(got) : Unread[j] = got[j]
      /\ \A j \in 1..Len(line) : Unread[j + Len(got)] = line[j]
  BY <1>1, CellsAhead DEF FrameInv, FrameTypeOK, HeaderSize
<1>5. /\ BodyLen \in Nat /\ n = 4 + BodyLen /\ BodyLen \in 0..Len(line)
      /\ sizes \in Seq(Sizes)
  BY <1>1, <1>3, Counts DEF BodyLen, FrameLen, HeaderSize, CrcSize
<1>6. \A p \in 1..n : Unread[p] = Cell(c + 1, p)
  BY <1>2, <1>3, <1>5, FirstFrame
<1>7. taken \in Seq(CellType) /\ Len(taken) = BodyLen /\ \A i \in 1..BodyLen : taken[i] = line[i]
  BY <1>4, <1>5, Taken, Zenon
<1> HIDE DEF taken, n
<1>8. /\ got \o taken \in Seq(CellType) /\ Len(got \o taken) = Len(got) + Len(taken)
      /\ \A i \in 1..Len(got) : (got \o taken)[i] = got[i]
      /\ \A i \in 1..Len(taken) : (got \o taken)[i + Len(got)] = taken[i]
  BY <1>4, <1>7, Joined, Zenon
<1>9. ASSUME NEW i \in 1..n
      PROVE  (got \o taken)[i] = Cell(c + 1, i)
  <2>1. CASE i \in 1..Len(got)
    BY <1>4, <1>6, <1>8, <2>1
  <2>2. CASE i > Len(got)
    <3>1. i - Len(got) \in 1..Len(taken) /\ (i - Len(got)) + Len(got) = i
          /\ i - Len(got) \in 1..BodyLen /\ i - Len(got) \in 1..Len(line)
      BY <1>4, <1>5, <1>7, <2>2
    <3>2. (got \o taken)[i] = taken[i - Len(got)] /\ Unread[i] = line[i - Len(got)]
      BY <1>4, <1>8, <3>1
    <3> QED
      BY <1>6, <1>7, <3>1, <3>2
  <2>3. i \in 1..Len(got) \/ i > Len(got)
    BY <1>4, <1>5
  <2> QED
    BY <2>1, <2>2, <2>3, Zenon
<1>10. got \o taken = Cells(c + 1, sizes[c + 1])
  <2>1. /\ Cells(c + 1, sizes[c + 1]) \in Seq(CellType) /\ Len(Cells(c + 1, sizes[c + 1])) = n
        /\ \A i \in 1..n : Cells(c + 1, sizes[c + 1])[i] = Cell(c + 1, i)
    <3>1. c + 1 \in Nat /\ sizes[c + 1] \in Nat
      BY <1>3, <1>5, Counts, FrameLens
    <3> QED
      BY <3>1, CellsOf DEF n
  <2>2. Len(got \o taken) = n
    BY <1>4, <1>5, <1>7, <1>8
  <2> QED
    BY <1>8, <1>9, <2>1, <2>2, SeqEqual
<1>11. BodyFrame = c + 1 /\ c + 1 # 0
  <2>1. (got \o taken)[1].frame = c + 1
    <3>1. 1 \in 1..n
      BY <1>5
    <3>2. (got \o taken)[1] = Cell(c + 1, 1)
      BY <1>9, <3>1, Zenon
    <3>3. Cell(c + 1, 1).frame = c + 1
      BY DEF Cell
    <3> QED
      BY <3>2, <3>3, Zenon
  <2>2. BodyFrame = FrameOf(got \o taken)
    BY Zenon DEF BodyFrame, taken
  <2>3. \E f \in 1..sent : got \o taken = Cells(f, sizes[f])
    BY <1>3, <1>10, Zenon
  <2>4. BodyFrame = (got \o taken)[1].frame
    BY <2>2, <2>3, Zenon DEF FrameOf
  <2>5. c + 1 # 0
    BY Counts
  <2> QED
    BY <2>1, <2>4, <2>5, Zenon
<1>12. delivered' = Append(delivered, c + 1) /\ delivered \in Seq(0..sent)
  BY <1>1, <1>11 DEF FrameInv, FrameTypeOK
<1>13. \E o : Laid(Unread', sizes', c + 1, o)
  <2>1. /\ Len(Unread') = Len(line) - BodyLen
        /\ \A i \in 1..(Len(line) - BodyLen) : Unread'[i] = Unread[i + (Len(got) + BodyLen)]
    BY <1>1, <1>5, DropKeeps DEF FrameInv
  <2>2. /\ Len(Unread') = Len(Unread) - n
        /\ \A i \in 1..Len(Unread') : Unread'[i] = Unread[i + n]
    <3>1. /\ Len(Unread) - n = Len(line) - BodyLen
          /\ \A i \in 1..(Len(line) - BodyLen) : i + (Len(got) + BodyLen) = i + n
      BY <1>4, <1>5
    <3> QED
      BY <2>1, <3>1, Zenon
  <2>3. \E o : Laid(Unread', sizes, c + 1, o)
    BY <1>2, <1>3, <1>5, <2>2, LaidNext DEF n
  <2> QED
    BY <1>1, <2>3
<1>14. ASSUME NEW f \in (inStep + 1)..(c + 1)
       PROVE  Contains(delivered', f)
  <2>1. /\ Len(delivered) \in Nat /\ Len(delivered') = Len(delivered) + 1
        /\ delivered'[Len(delivered) + 1] = c + 1
        /\ \A i \in 1..Len(delivered) : delivered'[i] = delivered[i]
    BY <1>3, <1>12, AppendProperties, LenProperties
  <2>2. f = c + 1 \/ f \in (inStep + 1)..c
    BY <1>3, Counts DEF FrameInv, FrameTypeOK
  <2>3. CASE f = c + 1
    BY <2>1, <2>3 DEF Contains
  <2>4. CASE f \in (inStep + 1)..c
    <3>1. Contains(delivered, f)
      BY <2>4 DEF InStep
    <3> QED
      BY <2>1, <3>1 DEF Contains
  <2> QED
    BY <2>2, <2>3, <2>4
<1> QED
  BY <1>1, <1>3, <1>11, <1>13, <1>14, Counts DEF InStep

\* A read gives up in step only where nothing is ahead, or with nothing taken.
LEMMA TimeoutInStep ==
    ASSUME FrameInv, InStepInv, NEW k \in 0..Len(line), Timeout(k)
    PROVE  InStepInv'
<1>1. /\ k < Wanted /\ line' = SubSeq(line, k + 1, Len(line)) /\ got' = << >>
      /\ pc' = "header" /\ StepAfter(k) /\ UNCHANGED <<sizes, delivered>>
  BY DEF Timeout, GivesUp, LeaveBody, sendVars
<1>2. /\ line \in Seq(CellType) /\ got \in Seq(CellType) /\ Len(line) \in Nat
      /\ Len(got) \in Nat /\ Len(Unread) = Len(got) + Len(line)
      /\ sizes \in Seq(Sizes) /\ Len(sizes) = sent /\ sent \in Nat /\ sent' = sent
      /\ inStep \in -1..sent
  BY <1>1, CellsAhead, Counts DEF FrameInv, FrameTypeOK, sent
<1>3. /\ Len(Unread') = Len(line) - k
      /\ \A i \in 1..(Len(line) - k) : Unread'[i] = Unread[i + (Len(got) + k)]
  BY <1>1, DropKeeps DEF FrameInv
<1>4. CASE k = Len(line) /\ inStep = -1
  <2>1. inStep' = sent /\ Len(Unread') = 0
    BY <1>1, <1>2, <1>3, <1>4 DEF StepAfter
  <2>2. \E o : Laid(Unread', sizes', sent, o)
    BY <1>1, <1>2, <2>1, LaidEmpty
  <2>3. InStep(sent)'
    BY <1>1, <1>2, <2>1, <2>2 DEF InStep
  <2> QED
    BY <1>2, <2>3 DEF InStepInv
<1>5. CASE inStep # -1 /\ k = Len(line)
  <2>1. inStep' = inStep /\ inStep >= 0 /\ Len(Unread') = 0
    BY <1>1, <1>2, <1>3, <1>5 DEF StepAfter
  <2>2. PICK c \in 0..sent : InStep(c)
    BY <2>1 DEF InStepInv
  <2>3. PICK off : Laid(Unread, sizes, c, off)
    BY <2>2 DEF InStep
  <2>4. c = sent
    <3>1. SUFFICES ASSUME c # sent PROVE FALSE
      OBVIOUS
    <3>2. /\ c + 1 \in 1..sent /\ FrameLen(sizes[c + 1]) <= Len(Unread)
      BY <1>2, <2>3, <3>1, FirstFrame
    <3>3. FrameLen(sizes[c + 1]) = sizes[c + 1] + 6 /\ sizes[c + 1] \in Nat
      BY <1>2, <3>2, FrameLens, FrameReaderAssumption
    <3>4. CASE pc = "header"
      <4>1. Len(line) < 4 /\ Len(got) = 0
        BY <1>1, <1>5, <3>4 DEF Wanted, HeaderSize, FrameInv, FrameTypeOK
      <4> QED
        BY <1>2, <3>2, <3>3, <4>1
    <3>5. CASE pc = "body"
      <4>1. Len(line) < size + 2 /\ Len(got) = 4
        BY <1>1, <1>5, <3>5 DEF Wanted, BodyLen, CrcSize, HeaderSize, FrameInv, FrameTypeOK
      <4>2. size = sizes[c + 1]
        BY <2>2, <3>5 DEF InStep
      <4> QED
        BY <1>2, <3>2, <3>3, <4>1, <4>2
    <3> QED
      BY <3>4, <3>5 DEF FrameInv, FrameTypeOK
  <2>5. \E o : Laid(Unread', sizes', c, o)
    BY <1>1, <1>2, <2>1, <2>4, LaidEmpty
  <2>6. InStep(c)'
    BY <1>1, <1>2, <2>1, <2>2, <2>5 DEF InStep
  <2> QED
    BY <1>2, <2>6 DEF InStepInv
<1>6. CASE k # Len(line) /\ k = 0 /\ pc = "header"
  <2>1. inStep' = inStep
    BY <1>1, <1>6 DEF StepAfter
  <2>2. line' = line /\ got' = got
    <3>1. Len(got) = 0
      BY <1>6 DEF FrameInv, FrameTypeOK
    <3>2. SubSeq(line, 1, Len(line)) = line
      BY <1>2, SubSeqFull
    <3> QED
      BY <1>1, <1>2, <1>6, <3>1, <3>2, EmptySeq
  <2>3. Unread' = Unread
    BY <2>2 DEF Unread
  <2>4. ASSUME NEW c \in 0..sent, InStep(c)
        PROVE  InStep(c)'
    BY <1>1, <1>2, <2>1, <2>3, <2>4 DEF InStep
  <2> QED
    BY <1>2, <2>1, <2>4 DEF InStepInv
<1>7. CASE k # Len(line) /\ ~(k = 0 /\ pc = "header")
  BY <1>1, <1>7 DEF StepAfter, InStepInv
<1> QED
  BY <1>4, <1>5, <1>6, <1>7

LEMMA NextInStep ==
    ASSUME FrameInv, InStepInv, Next
    PROVE  InStepInv'
<1>1. CASE \E n \in Sizes : Send(n)
  <2>1. PICK n \in Sizes : Send(n)
    BY <1>1
  <2>2. inStep' = inStep /\ sent' = sent + 1 /\ sent \in Nat
    BY <2>1, SendKeeps, Counts DEF Send
  <2>3. ASSUME NEW c \in 0..sent, InStep(c)
        PROVE  c \in 0..sent' /\ InStep(c)'
    BY <2>1, <2>2, <2>3, SendInStep
  <2> QED
    BY <2>2, <2>3 DEF InStepInv
<1>2. CASE \E i \in DOMAIN line : Lose(i) \/ Spoil(i)
  BY <1>2 DEF Lose, Spoil, InStepInv
<1>3. CASE ReadHeader
  <2>1. inStep' = inStep /\ sent' = sent
    BY <1>3, ReadHeaderKeeps DEF ReadHeader
  <2> QED
    BY <1>3, <2>1, ReadHeaderInStep DEF InStepInv
<1>4. CASE ReadBody
  <2>1. inStep' = inStep /\ sent' = sent
    BY <1>4, ReadBodyKeeps DEF ReadBody
  <2> QED
    BY <1>4, <2>1, ReadBodyInStep DEF InStepInv
<1>5. CASE ReadBodyOverrun
  <2>1. UNCHANGED <<line, sizes, noise, pc, got, size, delivered, inStep>>
    BY <1>5 DEF ReadBodyOverrun, sendVars, readVars
  <2>2. sent' = sent /\ Unread' = Unread
    BY <2>1 DEF sent, Unread
  <2> QED
    BY <2>1, <2>2 DEF InStepInv, InStep
<1>6. CASE Timeouts
  BY <1>6, TimeoutInStep DEF Timeouts
<1> QED
  BY <1>1, <1>2, <1>3, <1>4, <1>5, <1>6 DEF Next

\* A frame that was laid out is whole ahead of the reader.
LEMMA InStepMeaning ==
    ASSUME FrameInv, InStepInv
    PROVE  InStepLosesNothing
<1> SUFFICES ASSUME inStep >= 0, NEW f \in (inStep + 1)..sent
             PROVE  WholeAhead(f) \/ Contains(delivered, f)
  BY DEF InStepLosesNothing
<1>1. PICK c \in 0..sent : InStep(c)
  BY DEF InStepInv
<1>2. PICK off : Laid(Unread, sizes, c, off)
  BY <1>1 DEF InStep
<1>3. /\ sizes \in Seq(Sizes) /\ Len(sizes) = sent /\ sent \in Nat /\ f \in 1..sent
      /\ inStep \in -1..sent
  BY Counts DEF FrameInv, FrameTypeOK
<1>4. CASE f <= c
  BY <1>1, <1>3, <1>4 DEF InStep
<1>5. CASE c < f
  <2>1. /\ f - 1 \in c..sent /\ f \in c..sent /\ sent \in c..sent /\ f \in (c + 1)..sent
    BY <1>3, <1>5
  <2>2. /\ off[f] = off[f - 1] + FrameLen(sizes[f])
        /\ \A p \in 1..FrameLen(sizes[f]) : Unread[off[f - 1] + p] = Cell(f, p)
    BY <1>2, <1>3, <2>1 DEF Laid
  <2>3. /\ off[f - 1] \in Nat /\ off[f] <= Len(Unread) /\ Len(Unread) \in Nat
    BY <1>2, <1>3, <2>1 DEF Laid
  <2>4. FrameLen(sizes[f]) \in Nat
    BY <1>3, FrameLens
  <2>5. off[f - 1] \in 0..(Len(Unread) - FrameLen(sizes[f]))
    BY <2>2, <2>3, <2>4
  <2>6. SubSeq(Unread, off[f - 1] + 1, off[f - 1] + FrameLen(sizes[f])) = Cells(f, sizes[f])
    <3> DEFINE part == SubSeq(Unread, off[f - 1] + 1, off[f - 1] + FrameLen(sizes[f]))
    <3>1. Unread \in Seq(CellType) /\ off[f - 1] + FrameLen(sizes[f]) <= Len(Unread)
      BY <2>2, <2>3, CellsAhead DEF FrameInv
    <3>2. /\ part \in Seq(CellType) /\ Len(part) = FrameLen(sizes[f])
          /\ \A p \in 1..FrameLen(sizes[f]) : part[p] = Unread[off[f - 1] + p]
      BY <2>3, <2>4, <3>1, Part
    <3>3. f \in Nat /\ sizes[f] \in Nat
      BY <1>3, FrameLens
    <3>4. /\ Cells(f, sizes[f]) \in Seq(CellType)
          /\ Len(Cells(f, sizes[f])) = FrameLen(sizes[f])
          /\ \A p \in 1..FrameLen(sizes[f]) : Cells(f, sizes[f])[p] = Cell(f, p)
      BY <3>3, CellsOf
    <3> HIDE DEF part
    <3>5. part = Cells(f, sizes[f])
      BY <2>2, <3>2, <3>4, SeqEqual
    <3> QED
      BY <3>5 DEF part
  <2> QED
    BY <2>5, <2>6 DEF WholeAhead
<1> QED
  BY <1>3, <1>4, <1>5
-----------------------------------------------------------------------------
LEMMA InStepAlways == Spec => []InStepInv
<1>1. FrameInv /\ InStepInv /\ [Next]_vars => InStepInv'
  <2>1. ASSUME FrameInv, InStepInv, UNCHANGED vars PROVE InStepInv'
    <3>1. UNCHANGED <<line, sizes, noise, pc, got, size, delivered, overrun, inStep>>
      BY <2>1 DEF vars, sendVars, readVars
    <3>2. sent' = sent /\ Unread' = Unread
      BY <3>1 DEF sent, Unread
    <3> QED
      BY <2>1, <3>1, <3>2 DEF InStepInv, InStep
  <2> QED
    BY <2>1, NextInStep
<1> QED
  BY InitInStep, <1>1, FrameSafety, PTL DEF Spec

\* Once silence has put the reader back in step, every frame sent since has been
\* delivered or is whole before it, until the line is disturbed again.
THEOREM InStepSafety == Spec => []InStepLosesNothing
<1>1. FrameInv /\ InStepInv => InStepLosesNothing
  BY InStepMeaning
<1> QED
  BY InStepAlways, FrameSafety, <1>1, PTL
-----------------------------------------------------------------------------
(* What is delivered.                                                      *)

LEMMA Disturbs ==
    ASSUME UNCHANGED <<sent, delivered>>
    PROVE  Fifo!Disturb
<1>1. (inStep = -1)' \in BOOLEAN
  OBVIOUS
<1> QED
  BY <1>1 DEF Fifo!Disturb

\* Each step is one of the LossyFifo's: in step the bytes of a body are those of
\* a whole frame, so what is forged is forged out of step.
LEMMA NextRefines ==
    ASSUME FrameInv, InStepInv, Next
    PROVE  Fifo!Next \/ UNCHANGED Fifo!vars
<1>1. CASE \E n \in Sizes : Send(n)
  <2>1. PICK n \in Sizes : Send(n)
    BY <1>1
  <2>2. sent' = sent + 1 /\ delivered' = delivered /\ inStep' = inStep
    BY <2>1, SendKeeps DEF Send
  <2>3. (inStep = -1)' = (inStep = -1)
    BY <2>2
  <2> QED
    BY <2>2, <2>3, Zenon DEF Fifo!Next, Fifo!Send
<1>2. CASE \E i \in DOMAIN line : Lose(i) \/ Spoil(i)
  BY <1>2, LineKeeps, Disturbs DEF Fifo!Next
<1>3. CASE ReadHeader
  BY <1>3, ReadHeaderKeeps, Disturbs DEF Fifo!Next
<1>4. CASE ReadBody
  <2>1. sent' = sent /\ inStep' = inStep
    BY <1>4, ReadBodyKeeps DEF ReadBody
  <2>2. CASE delivered' = delivered
    BY <2>1, <2>2, Disturbs DEF Fifo!Next
  <2>3. CASE BodyFrame = 0 /\ delivered' = Append(delivered, 0)
    <3>1. inStep = -1
      <4>1. ~(inStep >= 0)
        BY <1>4, <2>3, ReadBodyInStep DEF InStepInv
      <4> QED
        BY <4>1, Counts DEF FrameInv, FrameTypeOK
    <3>2. (inStep = -1)' = (inStep = -1)
      BY <2>1
    <3> QED
      BY <2>1, <2>3, <3>1, <3>2, Zenon DEF Fifo!Next, Fifo!Forge
  <2>4. CASE \E f \in 1..sent : Fifo!Deliver(f)
    BY <2>4 DEF Fifo!Next
  <2> QED
    BY <1>4, <2>2, <2>3, <2>4, ReadBodyKeeps
<1>5. CASE ReadBodyOverrun
  <2>1. UNCHANGED <<sent, delivered>>
    BY <1>5 DEF ReadBodyOverrun, sendVars, sent
  <2> QED
    BY <2>1, Disturbs DEF Fifo!Next
<1>6. CASE Timeouts
  BY <1>6, TimeoutKeeps, Disturbs DEF Timeouts, Fifo!Next
<1> QED
  BY <1>1, <1>2, <1>3, <1>4, <1>5, <1>6 DEF Next

\* The board's frames are delivered whole, in order and once, whatever is lost,
\* spoilt or late, and whatever else passes decode is delivered only between a
\* disturbance and the silence that ends it.
THEOREM FramesRefine == Spec => ImplementsLossyFifo
<1>1. Init => Fifo!Init
  BY DEF Init, Fifo!Init, sent
<1>2. FrameInv /\ InStepInv /\ [Next]_vars => [Fifo!Next]_Fifo!vars
  <2>1. UNCHANGED vars => UNCHANGED Fifo!vars
    <3> SUFFICES ASSUME UNCHANGED <<sizes, delivered, inStep>>
                 PROVE  UNCHANGED Fifo!vars
      BY DEF vars, sendVars
    <3>1. sent' = sent
      BY DEF sent
    <3>2. (inStep = -1)' = (inStep = -1)
      OBVIOUS
    <3> QED
      BY <3>1, <3>2, Zenon DEF Fifo!vars
  <2> QED
    BY <2>1, NextRefines
<1> QED
  BY <1>1, <1>2, FrameSafety, InStepAlways, PTL DEF Spec, ImplementsLossyFifo, Fifo!Spec
=============================================================================

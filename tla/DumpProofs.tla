----------------------------- MODULE DumpProofs -----------------------------
(***************************************************************************)
(* The dump files and their parser, for any messages, any packets saved    *)
(* and any number of them.                                                 *)
(***************************************************************************)
EXTENDS MsgProofs, MCData, FiniteSetTheorems
-----------------------------------------------------------------------------
(* A map's keys in ascending order.                                        *)

LEMMA Largest ==
    ASSUME NEW S \in SUBSET Int, IsFiniteSet(S), S # {}
    PROVE  \E m \in S : \A x \in S : x <= m
<1> DEFINE T == {n \in Nat : \A R \in SUBSET Int :
                    IsFiniteSet(R) /\ Cardinality(R) = n + 1
                        => \E m \in R : \A x \in R : x <= m}
<1>1. 0 \in T
  <2> SUFFICES ASSUME NEW R \in SUBSET Int, IsFiniteSet(R), Cardinality(R) = 1
               PROVE  \E m \in R : \A x \in R : x <= m
    OBVIOUS
  <2>1. PICK m : R = {m}
    BY FS_Singleton
  <2> QED
    BY <2>1
<1>2. ASSUME NEW n \in Nat, n \in T PROVE n + 1 \in T
  <2> SUFFICES ASSUME NEW R \in SUBSET Int, IsFiniteSet(R), Cardinality(R) = (n + 1) + 1
               PROVE  \E m \in R : \A x \in R : x <= m
    OBVIOUS
  <2>1. PICK y \in R : TRUE
    <3>1. Cardinality(R) # 0
      OBVIOUS
    <3>2. R # {}
      BY <3>1, FS_EmptySet
    <3> QED
      BY <3>2
  <2>2. IsFiniteSet(R \ {y}) /\ Cardinality(R \ {y}) = n + 1
    BY FS_RemoveElement
  <2>3. PICK m \in R \ {y} : \A x \in R \ {y} : x <= m
    BY <1>2, <2>2
  <2>4. CASE y <= m
    BY <2>3, <2>4
  <2>5. CASE m <= y
    <3>1. \A x \in R : x <= y
      BY <2>3, <2>5
    <3> QED
      BY <3>1
  <2> QED
    BY <2>4, <2>5
<1> HIDE DEF T
<1>3. Nat \subseteq T
  BY <1>1, <1>2, Induct
<1>4. Cardinality(S) \in Nat /\ Cardinality(S) # 0
  BY FS_CardinalityType, FS_EmptySet
<1>5. Cardinality(S) - 1 \in T /\ Cardinality(S) = (Cardinality(S) - 1) + 1
  BY <1>3, <1>4
<1> QED
  BY <1>5 DEF T

Ascending(f, n) == \A i, j \in 1..n : i < j => f[i] < f[j]

LEMMA Ascends ==
    ASSUME NEW S \in SUBSET Int, IsFiniteSet(S)
    PROVE  \E f \in [1..Cardinality(S) -> S] : Ascending(f, Cardinality(S))
<1> DEFINE T == {n \in Nat : \A R \in SUBSET Int :
                    IsFiniteSet(R) /\ Cardinality(R) = n
                        => \E f \in [1..n -> R] : Ascending(f, n)}
<1>1. 0 \in T
  <2> SUFFICES ASSUME NEW R \in SUBSET Int
               PROVE  \E f \in [1..0 -> R] : Ascending(f, 0)
    OBVIOUS
  <2>1. PICK f : f = [i \in 1..0 |-> 0]
    OBVIOUS
  <2>2. \A i \in 1..0 : FALSE
    OBVIOUS
  <2>3. f \in [1..0 -> R]
    BY <2>1, <2>2
  <2>4. Ascending(f, 0)
    BY <2>2 DEF Ascending
  <2> QED
    BY <2>3, <2>4
<1>2. ASSUME NEW n \in Nat, n \in T PROVE n + 1 \in T
  <2> SUFFICES ASSUME NEW R \in SUBSET Int, IsFiniteSet(R), Cardinality(R) = n + 1
               PROVE  \E f \in [1..(n + 1) -> R] : Ascending(f, n + 1)
    OBVIOUS
  <2>1. PICK m \in R : \A x \in R : x <= m
    BY Largest, FS_EmptySet
  <2>2. IsFiniteSet(R \ {m}) /\ Cardinality(R \ {m}) = n
    BY FS_RemoveElement
  <2>3. PICK f \in [1..n -> R \ {m}] : Ascending(f, n)
    BY <1>2, <2>2
  <2> DEFINE g == [i \in 1..(n + 1) |-> IF i = n + 1 THEN m ELSE f[i]]
  <2>4. \A i \in 1..(n + 1) : i # n + 1 => i \in 1..n
    OBVIOUS
  <2>5. g \in [1..(n + 1) -> R]
    BY <2>4
  <2>6. ASSUME NEW i \in 1..(n + 1), NEW j \in 1..(n + 1), i < j PROVE g[i] < g[j]
    <3>1. i \in 1..n /\ g[i] = f[i] /\ f[i] \in Int /\ f[i] < m
      <4>1. i \in 1..n /\ i # n + 1
        BY <2>6
      <4>2. f[i] \in R \ {m}
        BY <4>1
      <4>3. f[i] <= m /\ f[i] # m /\ f[i] \in Int /\ m \in Int
        BY <2>1, <4>2
      <4> QED
        BY <4>1, <4>3
    <3>2. CASE j = n + 1
      BY <2>1, <3>1, <3>2
    <3>3. CASE j # n + 1
      <4>1. j \in 1..n /\ g[j] = f[j]
        BY <3>3
      <4> QED
        BY <2>3, <2>6, <3>1, <4>1 DEF Ascending
    <3> QED
      BY <3>2, <3>3
  <2> QED
    BY <2>5, <2>6 DEF Ascending
<1> HIDE DEF T
<1>3. Nat \subseteq T
  BY <1>1, <1>2, Induct
<1>4. Cardinality(S) \in T
  BY <1>3, FS_CardinalityType
<1> QED
  BY <1>4 DEF T

Lists(f, n, S) == f \in [1..n -> S] /\ Ascending(f, n) /\ \A x \in S : \E i \in 1..n : f[i] = x

LEMMA KeysAscend ==
    ASSUME NEW map, DOMAIN map \in SUBSET Int, IsFiniteSet(DOMAIN map)
    PROVE  Lists(Keys(map), Cardinality(DOMAIN map), DOMAIN map)
<1> DEFINE S == DOMAIN map
           keys == Keys(map)
<1>1. PICK n \in Nat : n = Cardinality(S)
  BY FS_CardinalityType
<1> HIDE DEF S
<1>2. \E f \in [1..n -> S] : \A i, j \in DOMAIN f : i < j => f[i] < f[j]
  <2>1. PICK f \in [1..n -> S] : Ascending(f, n)
    BY <1>1, Ascends DEF S
  <2> QED
    BY <2>1 DEF Ascending
<1>3. keys = CHOOSE f \in [1..n -> S] : \A i, j \in DOMAIN f : i < j => f[i] < f[j]
  BY <1>1 DEF Keys, S
<1> HIDE DEF keys
<1>4. keys \in [1..n -> S] /\ \A i, j \in DOMAIN keys : i < j => keys[i] < keys[j]
  BY <1>2, <1>3
<1>5. Ascending(keys, n)
  BY <1>4 DEF Ascending
<1>6. keys \in Injection(1..n, S)
  <2>1. ASSUME NEW i \in 1..n, NEW j \in 1..n, keys[i] = keys[j] PROVE i = j
    <3>1. keys[i] \in Int /\ keys[j] \in Int
      BY <1>4 DEF S
    <3>2. ~(i < j) /\ ~(j < i)
      BY <1>5, <2>1, <3>1 DEF Ascending
    <3> QED
      BY <3>2
  <2> QED
    BY <1>4, <2>1, Zenon DEF Injection, IsInjective
<1>7. keys \in Surjection(1..n, S)
  <2>1. Cardinality(1..n) = n
    BY FS_Interval
  <2> QED
    BY <1>1, <1>6, <2>1, FS_Injection DEF S
<1> QED
  BY <1>1, <1>4, <1>5, <1>7, Zenon DEF Lists, Surjection, S, keys

\* Of two lists the shorter is the beginning of the longer, if it has all that
\* is below what it has.
ListedBelow(k, n, D, l, m, E) ==
    /\ D \in SUBSET Int /\ E \in SUBSET D /\ n \in Nat /\ m \in Nat /\ m <= n
    /\ Lists(k, n, D) /\ Lists(l, m, E)
    /\ \A b \in D : (\E c \in E : b < c) => b \in E

LEMMA ListsBegin ==
    ASSUME NEW D, NEW E, NEW n, NEW m, NEW k, NEW l, ListedBelow(k, n, D, l, m, E)
    PROVE  \A i \in 1..m : k[i] = l[i]
<1> USE DEF ListedBelow
<1> DEFINE T == {i \in Nat : \A j \in 1..m : j <= i => k[j] = l[j]}
<1>1. 0 \in T
  OBVIOUS
<1>2. ASSUME NEW h \in Nat, h \in T PROVE h + 1 \in T
  <2> SUFFICES ASSUME h + 1 \in 1..m PROVE k[h + 1] = l[h + 1]
    BY <1>2
  <2>1. PICK i \in 1..m : i = h + 1
    OBVIOUS
  <2>2. \A j \in 1..m : j < i => k[j] = l[j]
    BY <1>2, <2>1
  <2>3. i \in 1..n /\ l[i] \in E /\ k[i] \in D /\ l[i] \in Int /\ k[i] \in Int
    <3>1. i \in 1..n
      OBVIOUS
    <3>2. l \in [1..m -> E] /\ k \in [1..n -> D]
      BY DEF Lists
    <3>3. l[i] \in E /\ k[i] \in D
      BY <3>1, <3>2
    <3> QED
      BY <3>1, <3>3
  <2>4. PICK j \in 1..n : k[j] = l[i]
    BY <2>3 DEF Lists
  <2>5. ~(j < i)
    <3> SUFFICES ASSUME j < i PROVE FALSE
      OBVIOUS
    <3>1. j \in 1..m /\ l[j] = l[i] /\ l[j] < l[i]
      BY <2>2, <2>4 DEF Lists, Ascending
    <3> QED
      BY <2>3, <3>1
  <2>6. k[i] <= l[i]
    <3>1. CASE i = j
      BY <2>3, <2>4, <3>1
    <3>2. CASE i < j
      <4>1. k[i] < k[j]
        BY <2>3, <3>2 DEF Lists, Ascending
      <4> QED
        BY <2>3, <2>4, <4>1
    <3> QED
      BY <2>5, <3>1, <3>2
  <2>7. ~(k[i] < l[i])
    <3> SUFFICES ASSUME k[i] < l[i] PROVE FALSE
      OBVIOUS
    <3>1. k[i] \in E
      BY <2>3
    <3>2. PICK q \in 1..m : l[q] = k[i]
      BY <3>1 DEF Lists
    <3>3. CASE q < i
      <4>1. k[q] = l[q] /\ q \in 1..n
        BY <2>2, <3>3
      <4>2. k[q] < k[i]
        BY <2>3, <3>3, <4>1 DEF Lists, Ascending
      <4> QED
        BY <2>3, <3>2, <4>1, <4>2
    <3>4. CASE q = i
      BY <2>3, <3>2, <3>4
    <3>5. CASE i < q
      <4>1. l[i] < l[q]
        BY <3>5 DEF Lists, Ascending
      <4> QED
        BY <2>3, <3>2, <4>1
    <3> QED
      BY <3>3, <3>4, <3>5
  <2> QED
    BY <2>1, <2>3, <2>6, <2>7
<1> HIDE DEF T
<1>3. Nat \subseteq T
  BY <1>1, <1>2, Induct
<1> QED
  BY <1>3 DEF T
-----------------------------------------------------------------------------
(* The report's lines.                                                     *)

LEMMA BucketInt == \A data, size : Bucket(data, size) \in Int
<1>1. \A n \in 0..255 : RoundRssi(rssi_converter(n)) \in Int
  BY DEF RoundRssi, rssi_converter
<1> QED
  BY <1>1, NumberOctet DEF Bucket

MapsInv ==
    /\ DOMAIN cnt \in SUBSET Int /\ IsFiniteSet(DOMAIN cnt)
    /\ DOMAIN error \subseteq DOMAIN cnt

LEMMA MapsInvInit == DumpInit => MapsInv
<1> SUFFICES ASSUME DumpInit PROVE MapsInv
  OBVIOUS
<1>1. DOMAIN cnt = {} /\ DOMAIN error = {}
  BY DEF DumpInit, NoMap
<1> QED
  BY <1>1, FS_EmptySet DEF MapsInv

LEMMA MapsKeep == MapsInv /\ [DumpNext]_dumpVars => MapsInv'
<1> SUFFICES ASSUME MapsInv, [DumpNext]_dumpVars PROVE MapsInv'
  OBVIOUS
<1>1. CASE UNCHANGED maps
  BY <1>1 DEF MapsInv, maps
<1>2. CASE ~UNCHANGED maps
  <2>1. Turn
    BY <1>2 DEF DumpNext, dumpVars, Transfer, Restart, Parse, Report, maps
  <2>2. PICK b \in Int : /\ cnt' = Added(cnt, b, 1)
                         /\ error' = Added(error, b, 1) \/ error' = error
    BY <1>2, <2>1, BucketInt DEF Turn, maps
  <2>3. DOMAIN cnt' = DOMAIN cnt \cup {b}
    BY <2>2 DEF Added
  <2>4. DOMAIN error' \subseteq DOMAIN error \cup {b}
    BY <2>2 DEF Added
  <2>5. IsFiniteSet(DOMAIN cnt \cup {b})
    BY FS_AddElement DEF MapsInv
  <2> QED
    BY <2>3, <2>4, <2>5 DEF MapsInv
<1> QED
  BY <1>1, <1>2

\* The errors of a line of the report are divided by the packets of its RSSI, if
\* no weaker RSSI than one with errors is without, for any dump files.
THEOREM RatesOfTheirLines == DumpSpec => []PerRight
<1>1. MapsInv => PerRight
  <2> SUFFICES ASSUME MapsInv,
                      \A b \in DOMAIN cnt :
                          (\E c \in DOMAIN error : b < c) => b \in DOMAIN error
               PROVE  \A i \in DOMAIN Keys(error) : Divisor(i) = cnt[Keys(error)[i]]
    BY DEF PerRight
  <2>1. /\ DOMAIN cnt \in SUBSET Int /\ IsFiniteSet(DOMAIN cnt)
        /\ DOMAIN error \in SUBSET DOMAIN cnt /\ DOMAIN error \in SUBSET Int
    BY DEF MapsInv
  <2>2. IsFiniteSet(DOMAIN error) /\ Cardinality(DOMAIN error) <= Cardinality(DOMAIN cnt)
    BY <2>1, FS_Subset
  <2>3. /\ Lists(Keys(cnt), Cardinality(DOMAIN cnt), DOMAIN cnt)
        /\ Lists(Keys(error), Cardinality(DOMAIN error), DOMAIN error)
    BY <2>1, <2>2, KeysAscend
  <2>4. Cardinality(DOMAIN cnt) \in Nat /\ Cardinality(DOMAIN error) \in Nat
    BY <2>1, <2>2, FS_CardinalityType
  <2>5. \A i \in 1..Cardinality(DOMAIN error) : Keys(cnt)[i] = Keys(error)[i]
    <3>1. ListedBelow(Keys(cnt), Cardinality(DOMAIN cnt), DOMAIN cnt,
                     Keys(error), Cardinality(DOMAIN error), DOMAIN error)
      BY <2>1, <2>2, <2>3, <2>4 DEF ListedBelow
    <3> QED
      BY <3>1, ListsBegin
  <2>6. DOMAIN Keys(error) = 1..Cardinality(DOMAIN error)
    BY <2>3 DEF Lists
  <2> QED
    BY <2>5, <2>6 DEF Divisor
<1>2. DumpSpec => []MapsInv
  BY MapsInvInit, MapsKeep, PTL DEF DumpSpec
<1> QED
  BY <1>1, <1>2, PTL
-----------------------------------------------------------------------------
(* The bits that are counted.                                              *)

LEMMA PieceAdds ==
    ASSUME NEW A, IsFiniteSet(A), NEW X, IsFiniteSet(X), NEW k,
           \A x \in X : <<k, x>> \notin A
    PROVE  /\ IsFiniteSet(A \cup ({k} \X X))
           /\ Cardinality(A \cup ({k} \X X)) = Cardinality(A) + Cardinality(X)
<1> DEFINE B == {k} \X X
           f == [x \in X |-> <<k, x>>]
<1>1. f \in Bijection(X, B)
  <2>1. f \in [X -> B]
    OBVIOUS
  <2>2. \A x, y \in X : f[x] = f[y] => x = y
    OBVIOUS
  <2>3. \A b \in B : \E x \in X : f[x] = b
    OBVIOUS
  <2> HIDE DEF f, B
  <2> QED
    BY <2>1, <2>2, <2>3, Zenon DEF Bijection, Injection, IsInjective, Surjection
<1>2. IsFiniteSet(B) /\ Cardinality(B) = Cardinality(X)
  <2> HIDE DEF B
  <2>1. ExistsBijection(X, B)
    BY <1>1 DEF ExistsBijection
  <2> QED
    BY <2>1, FS_Bijection
<1>3. A \cap B = {}
  OBVIOUS
<1> HIDE DEF B
<1>4. /\ IsFiniteSet(A \cup B)
      /\ Cardinality(A \cup B) = Cardinality(A) + Cardinality(B) - Cardinality(A \cap B)
  BY <1>2, FS_Union
<1>5. Cardinality(A \cap B) = 0 /\ Cardinality(A) \in Nat /\ Cardinality(B) \in Nat
  BY <1>2, <1>3, FS_EmptySet, FS_CardinalityType
<1> QED
  BY <1>2, <1>4, <1>5 DEF B

LEMMA BitsFinite ==
    \A a, b \in Octets : IsFiniteSet(Xor(a, b)) /\ Cardinality(Xor(a, b)) \in Nat
<1> SUFFICES ASSUME NEW a \in Octets, NEW b \in Octets
             PROVE  IsFiniteSet(Xor(a, b)) /\ Cardinality(Xor(a, b)) \in Nat
  OBVIOUS
<1>1. Xor(a, b) \in SUBSET (0..7)
  BY DEF Xor, Octets
<1>2. IsFiniteSet(0..7)
  <2>1. 0 \in Int /\ 7 \in Int
    OBVIOUS
  <2> QED
    BY <2>1, FS_Interval, Zenon
<1> QED
  BY <1>1, <1>2, FS_Subset, FS_CardinalityType

\* The sum of the weights is the number of bits that differ.
LEMMA BitsCounted ==
    ASSUME NEW n \in Nat, NEW a, NEW b, \A i \in 1..n : a[i] \in Octets /\ b[i] \in Octets
    PROVE  /\ IsFiniteSet(BitsApart(a, b, n))
           /\ BitErrors(a, b, n) = Cardinality(BitsApart(a, b, n))
<1> DEFINE w == [i \in 1..n |-> weight(Xor(a[i], b[i]))]
           Is(f) == f = [i \in 0..n |->
                           IF i = 0 THEN 0 ELSE f[i - 1] + weight(Xor(a[i], b[i]))]
           F == [i \in 1..n |-> [c \in Nat |-> c + w[i]]]
<1>1. \A i \in 1..n : /\ w[i] = weight(Xor(a[i], b[i])) /\ w[i] \in Nat
                      /\ w[i] = Cardinality(Xor(a[i], b[i])) /\ IsFiniteSet(Xor(a[i], b[i]))
  BY BitsFinite DEF weight
<1> HIDE DEF w
<1>2. PICK f \in [0..n -> Nat] : f[0] = 0 /\ \A i \in 1..n : f[i] = f[i - 1] + w[i]
  <2>1. F \in [1..n -> [Nat -> Nat]]
    BY <1>1
  <2> HIDE DEF F
  <2>2. \E f : f \in Iterations(n, Nat, 0, F)
    BY <2>1, Iterates
  <2>3. PICK f \in [0..n -> Nat] : f[0] = 0 /\ \A i \in 1..n : f[i] = F[i][f[i - 1]]
    BY <2>2 DEF Iterations
  <2>4. ASSUME NEW i \in 1..n PROVE f[i] = f[i - 1] + w[i]
    <3>1. f[i - 1] \in Nat
      OBVIOUS
    <3> QED
      BY <2>3, <3>1 DEF F
  <2> QED
    BY <2>3, <2>4
<1>3. Is(f)
  <2>1. ASSUME NEW i \in 0..n
        PROVE  f[i] = IF i = 0 THEN 0 ELSE f[i - 1] + weight(Xor(a[i], b[i]))
    <3>1. CASE i # 0
      <4>1. i \in 1..n
        BY <3>1
      <4> QED
        BY <1>1, <1>2, <3>1, <4>1
    <3> QED
      BY <1>2, <3>1
  <2>2. f = [i \in 0..n |-> f[i]]
    OBVIOUS
  <2> QED
    BY <2>1, <2>2
<1> DEFINE sum == CHOOSE g : Is(g)
<1>4. Is(sum)
  <2> HIDE DEF Is
  <2> QED
    BY <1>3
<1>5. BitErrors(a, b, n) = sum[n]
  BY DEF BitErrors
<1> HIDE DEF sum
<1>6. sum[0] = 0 /\ \A i \in 1..n : sum[i] = sum[i - 1] + w[i]
  <2>1. \A i \in 0..n : sum[i] = IF i = 0 THEN 0 ELSE sum[i - 1] + weight(Xor(a[i], b[i]))
    BY <1>4
  <2>2. 0 \in 0..n /\ \A i \in 1..n : i \in 0..n /\ i # 0
    OBVIOUS
  <2> QED
    BY <1>1, <2>1, <2>2
<1> DEFINE T == {i \in Nat : i \in 0..n =>
                    /\ IsFiniteSet(BitsApart(a, b, i))
                    /\ sum[i] = Cardinality(BitsApart(a, b, i))}
<1>7. 0 \in T
  <2>1. BitsApart(a, b, 0) = {}
    <3>1. 1..0 = {}
      OBVIOUS
    <3> QED
      BY <3>1 DEF BitsApart
  <2> QED
    BY <1>6, <2>1, FS_EmptySet
<1>8. ASSUME NEW i \in Nat, i \in T PROVE i + 1 \in T
  <2> SUFFICES ASSUME i + 1 \in 0..n
               PROVE  /\ IsFiniteSet(BitsApart(a, b, i + 1))
                      /\ sum[i + 1] = Cardinality(BitsApart(a, b, i + 1))
    OBVIOUS
  <2>1. i \in 0..n /\ i + 1 \in 1..n /\ (i + 1) - 1 = i
    OBVIOUS
  <2>2. PICK A : A = BitsApart(a, b, i)
    OBVIOUS
  <2>3. PICK X : X = Xor(a[i + 1], b[i + 1])
    OBVIOUS
  <2>4. IsFiniteSet(A) /\ sum[i] = Cardinality(A)
    BY <1>8, <2>1, <2>2
  <2>5. IsFiniteSet(X) /\ w[i + 1] = Cardinality(X)
    BY <1>1, <2>1, <2>3
  <2>6. \A x \in X : <<i + 1, x>> \notin A
    <3>1. \A j \in 1..i : j # i + 1
      OBVIOUS
    <3> QED
      BY <2>2, <3>1 DEF BitsApart
  <2>7. BitsApart(a, b, i + 1) = A \cup ({i + 1} \X X)
    <3>1. 1..(i + 1) = (1..i) \cup {i + 1}
      OBVIOUS
    <3> QED
      BY <2>2, <2>3, <3>1 DEF BitsApart
  <2>8. /\ IsFiniteSet(A \cup ({i + 1} \X X))
        /\ Cardinality(A \cup ({i + 1} \X X)) = Cardinality(A) + Cardinality(X)
    BY <2>4, <2>5, <2>6, PieceAdds
  <2> QED
    BY <1>6, <2>1, <2>4, <2>5, <2>7, <2>8
<1> HIDE DEF T
<1>9. Nat \subseteq T
  BY <1>7, <1>8, Induct
<1>10. n \in T /\ n \in 0..n
  BY <1>9
<1> QED
  BY <1>5, <1>10 DEF T
-----------------------------------------------------------------------------
(* Where the records of a file end.                                        *)

Packed == Seq(Octets)

Offset(packets) ==
    LET off[i \in 0..Len(packets)] ==
          IF i = 0 THEN 0 ELSE off[i - 1] + 1 + Len(packets[i])
    IN  off

LEMMA OffsetIs ==
    ASSUME NEW p \in Seq(Packed)
    PROVE  /\ Offset(p) \in [0..Len(p) -> Nat] /\ Offset(p)[0] = 0
           /\ \A i \in 1..Len(p) : Offset(p)[i] = Offset(p)[i - 1] + 1 + Len(p[i])
<1>1. PICK n \in Nat : n = Len(p)
  BY LenProperties
<1> DEFINE w == [i \in 1..n |-> 1 + Len(p[i])]
           Is(f) == f = [i \in 0..n |-> IF i = 0 THEN 0 ELSE f[i - 1] + 1 + Len(p[i])]
           F == [i \in 1..n |-> [c \in Nat |-> c + w[i]]]
<1>2. \A i \in 1..n : w[i] = 1 + Len(p[i]) /\ Len(p[i]) \in Nat /\ w[i] \in Nat
  <2>1. \A i \in 1..n : p[i] \in Packed
    BY <1>1, ElementOfSeq
  <2> QED
    BY <2>1, LenProperties DEF Packed
<1> HIDE DEF w
<1>3. PICK f \in [0..n -> Nat] : f[0] = 0 /\ \A i \in 1..n : f[i] = f[i - 1] + w[i]
  <2>1. F \in [1..n -> [Nat -> Nat]]
    BY <1>2
  <2> HIDE DEF F
  <2>2. \E f : f \in Iterations(n, Nat, 0, F)
    BY <2>1, Iterates
  <2>3. PICK f \in [0..n -> Nat] : f[0] = 0 /\ \A i \in 1..n : f[i] = F[i][f[i - 1]]
    BY <2>2 DEF Iterations
  <2>4. ASSUME NEW i \in 1..n PROVE f[i] = f[i - 1] + w[i]
    <3>1. f[i - 1] \in Nat
      OBVIOUS
    <3> QED
      BY <2>3, <3>1 DEF F
  <2> QED
    BY <2>3, <2>4
<1>4. Is(f)
  <2>1. ASSUME NEW i \in 0..n
        PROVE  f[i] = IF i = 0 THEN 0 ELSE f[i - 1] + 1 + Len(p[i])
    <3>1. CASE i # 0
      <4>1. i \in 1..n /\ f[i - 1] \in Nat
        BY <3>1
      <4>2. f[i] = f[i - 1] + w[i] /\ w[i] = 1 + Len(p[i]) /\ Len(p[i]) \in Nat
        BY <1>2, <1>3, <4>1
      <4>3. f[i - 1] + (1 + Len(p[i])) = f[i - 1] + 1 + Len(p[i])
        <5>1. \A x, y \in Nat : x + (1 + y) = x + 1 + y
          OBVIOUS
        <5> QED
          BY <4>1, <4>2, <5>1, Zenon
      <4> QED
        BY <3>1, <4>2, <4>3
    <3> QED
      BY <1>3, <3>1
  <2>2. f = [i \in 0..n |-> f[i]]
    OBVIOUS
  <2> QED
    BY <2>1, <2>2
<1> DEFINE off == CHOOSE g : Is(g)
<1>5. Is(off)
  <2> HIDE DEF Is
  <2> QED
    BY <1>4
<1>6. Offset(p) = off
  BY <1>1 DEF Offset
<1> HIDE DEF off
<1>7. off[0] = 0 /\ \A i \in 1..n : off[i] = off[i - 1] + 1 + Len(p[i])
  BY <1>5
<1> DEFINE T == {i \in Nat : i \in 0..n => off[i] \in Nat}
<1>8. 0 \in T
  BY <1>7
<1>9. ASSUME NEW i \in Nat, i \in T PROVE i + 1 \in T
  <2> SUFFICES ASSUME i + 1 \in 0..n PROVE off[i + 1] \in Nat
    OBVIOUS
  <2>1. i \in 0..n /\ i + 1 \in 1..n /\ (i + 1) - 1 = i
    OBVIOUS
  <2>2. off[i] \in Nat /\ Len(p[i + 1]) \in Nat
    BY <1>2, <1>9, <2>1
  <2>3. off[i + 1] = off[i] + 1 + Len(p[i + 1])
    BY <1>7, <2>1
  <2>4. \A x, y \in Nat : x + 1 + y \in Nat
    OBVIOUS
  <2> QED
    BY <2>2, <2>3, <2>4, Zenon
<1> HIDE DEF T
<1>10. Nat \subseteq T
  BY <1>8, <1>9, Induct
<1>11. \A i \in 0..n : off[i] \in Nat
  BY <1>10 DEF T
<1>12. off \in [0..n -> Nat]
  BY <1>5, <1>11
<1> QED
  BY <1>1, <1>6, <1>7, <1>12

LEMMA OffsetAppend ==
    ASSUME NEW p \in Seq(Packed), NEW d \in Packed
    PROVE  \A i \in 0..Len(p) : Offset(Append(p, d))[i] = Offset(p)[i]
<1> DEFINE q == Append(p, d)
           T == {i \in Nat : i \in 0..Len(p) => Offset(q)[i] = Offset(p)[i]}
<1>1. /\ q \in Seq(Packed) /\ Len(q) = Len(p) + 1 /\ Len(p) \in Nat
      /\ \A i \in 1..Len(p) : q[i] = p[i]
  BY AppendProperties, LenProperties
<1> HIDE DEF q
<1>2. 0 \in T
  BY <1>1, OffsetIs
<1>3. ASSUME NEW i \in Nat, i \in T PROVE i + 1 \in T
  <2> SUFFICES ASSUME i + 1 \in 0..Len(p) PROVE Offset(q)[i + 1] = Offset(p)[i + 1]
    OBVIOUS
  <2>1. i \in 0..Len(p) /\ i + 1 \in 1..Len(p) /\ i + 1 \in 1..Len(q) /\ (i + 1) - 1 = i
    BY <1>1
  <2>2. Offset(q)[i] = Offset(p)[i] /\ q[i + 1] = p[i + 1]
    BY <1>1, <1>3, <2>1
  <2>3. Offset(q)[i + 1] = Offset(q)[i] + 1 + Len(q[i + 1])
    BY <1>1, <2>1, OffsetIs
  <2>4. Offset(p)[i + 1] = Offset(p)[i] + 1 + Len(p[i + 1])
    BY <1>1, <2>1, OffsetIs
  <2> QED
    BY <2>2, <2>3, <2>4
<1> HIDE DEF T
<1>4. Nat \subseteq T
  BY <1>2, <1>3, Induct
<1> QED
  BY <1>1, <1>4 DEF T, q

\* The records lie in the file, each behind the one before.
Holds(file, packets) ==
    \A i \in 1..Len(packets) :
        /\ Offset(packets)[i] <= Len(file)
        /\ file[Offset(packets)[i - 1] + 1] = Byte(Len(packets[i]))
        /\ \A j \in 1..Len(packets[i]) :
              file[Offset(packets)[i - 1] + 1 + j] = packets[i][j]

LEMMA RecordBytes ==
    ASSUME NEW d \in Packed
    PROVE  /\ Record(d) \in Packed /\ Len(Record(d)) = 1 + Len(d) /\ Len(d) \in Nat
           /\ Record(d)[1] = Byte(Len(d))
           /\ \A j \in 1..Len(d) : Record(d)[1 + j] = d[j]
<1>1. PICK b \in Octets : b = Byte(Len(d))
  BY ByteOctet
<1>2. <<b>> \in Packed /\ Len(<<b>>) = 1 /\ <<b>>[1] = b
  BY DEF Packed
<1>3. PICK h \in Packed : h = <<b>>
  BY <1>2
<1>4. Len(d) \in Nat
  BY LenProperties DEF Packed
<1>5. /\ h \o d \in Packed /\ Len(h \o d) = Len(h) + Len(d)
      /\ \A i \in 1..(Len(h) + Len(d)) :
            (h \o d)[i] = IF i <= Len(h) THEN h[i] ELSE d[i - Len(h)]
  BY ConcatProperties DEF Packed
<1>6. Record(d) = h \o d
  BY <1>1, <1>3 DEF Record
<1>7. Len(h) = 1 /\ h[1] = b
  BY <1>2, <1>3
<1>8. (h \o d)[1] = b
  <2>1. 1 \in 1..(Len(h) + Len(d)) /\ 1 <= Len(h)
    BY <1>4, <1>7
  <2> QED
    BY <1>5, <1>7, <2>1
<1>9. ASSUME NEW j \in 1..Len(d) PROVE (h \o d)[1 + j] = d[j]
  <2>1. 1 + j \in 1..(Len(h) + Len(d)) /\ ~(1 + j <= Len(h)) /\ (1 + j) - Len(h) = j
    BY <1>4, <1>7
  <2> QED
    BY <1>5, <2>1
<1> QED
  BY <1>1, <1>4, <1>5, <1>6, <1>7, <1>8, <1>9

\* What is written behind the records does not disturb them.
LEMMA HoldsOn ==
    ASSUME NEW file \in Packed, NEW p \in Seq(Packed), Holds(file, p), NEW x \in Packed
    PROVE  Holds(file \o x, p)
<1>1. /\ file \o x \in Packed /\ Len(file \o x) = Len(file) + Len(x)
      /\ Len(file) \in Nat /\ Len(x) \in Nat
      /\ \A i \in 1..(Len(file) + Len(x)) :
            (file \o x)[i] = IF i <= Len(file) THEN file[i] ELSE x[i - Len(file)]
  BY ConcatProperties, LenProperties DEF Packed
<1>2. \A i \in 1..Len(file) : (file \o x)[i] = file[i]
  BY <1>1
<1> SUFFICES ASSUME NEW i \in 1..Len(p)
             PROVE  /\ Offset(p)[i] <= Len(file \o x)
                    /\ (file \o x)[Offset(p)[i - 1] + 1] = Byte(Len(p[i]))
                    /\ \A j \in 1..Len(p[i]) :
                          (file \o x)[Offset(p)[i - 1] + 1 + j] = p[i][j]
  BY DEF Holds
<1>3. /\ Offset(p)[i] = Offset(p)[i - 1] + 1 + Len(p[i])
      /\ Offset(p)[i] \in Nat /\ Offset(p)[i - 1] \in Nat /\ Len(p[i]) \in Nat
  <2>1. i \in 0..Len(p) /\ i - 1 \in 0..Len(p)
    BY LenProperties
  <2>2. p[i] \in Packed
    BY ElementOfSeq
  <2> QED
    BY <2>1, <2>2, OffsetIs, LenProperties DEF Packed
<1>4. /\ Offset(p)[i] <= Len(file)
      /\ file[Offset(p)[i - 1] + 1] = Byte(Len(p[i]))
      /\ \A j \in 1..Len(p[i]) : file[Offset(p)[i - 1] + 1 + j] = p[i][j]
  BY DEF Holds
<1>5. Offset(p)[i - 1] + 1 \in 1..Len(file)
  BY <1>1, <1>3, <1>4
<1>6. ASSUME NEW j \in 1..Len(p[i]) PROVE Offset(p)[i - 1] + 1 + j \in 1..Len(file)
  <2>1. Offset(p)[i - 1] + 1 + j <= Offset(p)[i]
    BY <1>3
  <2>2. \A a, b, c \in Nat : a + 1 + j <= b /\ b <= c => a + 1 + j \in 1..c
    OBVIOUS
  <2> QED
    BY <1>1, <1>3, <1>4, <2>1, <2>2, Zenon
<1> QED
  BY <1>1, <1>2, <1>3, <1>4, <1>5, <1>6

\* A file of whole records, and one with another record.
Whole(file, packets) ==
    Holds(file, packets) /\ Len(file) = Offset(packets)[Len(packets)]

LEMMA Recorded ==
    ASSUME NEW file \in Packed, NEW p \in Seq(Packed), Whole(file, p), NEW d \in Packed
    PROVE  file \o Record(d) \in Packed /\ Whole(file \o Record(d), Append(p, d))
<1>1. PICK n \in Nat : n = Len(p)
  BY LenProperties
<1>2. PICK q \in Seq(Packed) : q = Append(p, d)
  BY AppendProperties
<1>3. Len(q) = n + 1 /\ q[n + 1] = d /\ \A i \in 1..n : q[i] = p[i]
  BY <1>1, <1>2, AppendProperties
<1>4. \A i \in 0..n : Offset(q)[i] = Offset(p)[i]
  BY <1>1, <1>2, OffsetAppend
<1>5. PICK x \in Packed : x = Record(d)
  BY RecordBytes
<1>6. /\ Len(x) = 1 + Len(d) /\ Len(d) \in Nat /\ x[1] = Byte(Len(d))
      /\ \A j \in 1..Len(d) : x[1 + j] = d[j]
  BY <1>5, RecordBytes
<1>7. PICK g \in Packed : g = file \o x
  BY ConcatProperties DEF Packed
<1>8. /\ Len(g) = Len(file) + Len(x) /\ Len(file) \in Nat
      /\ \A i \in 1..(Len(file) + Len(x)) :
            g[i] = IF i <= Len(file) THEN file[i] ELSE x[i - Len(file)]
  BY <1>7, ConcatProperties, LenProperties DEF Packed
<1>9. Holds(g, p)
  BY <1>7, HoldsOn DEF Whole
<1>10. Offset(q)[n] = Len(file) /\ Offset(q)[n + 1] = Len(g)
  <2>1. n \in 0..n /\ n + 1 \in 1..Len(q) /\ (n + 1) - 1 = n
    BY <1>3
  <2>2. Offset(q)[n] = Len(file)
    BY <1>1, <1>4, <2>1 DEF Whole
  <2>3. Offset(q)[n + 1] = Offset(q)[n] + 1 + Len(d)
    BY <1>3, <2>1, OffsetIs
  <2> QED
    BY <1>6, <1>8, <2>2, <2>3
<1>11. ASSUME NEW i \in 1..Len(q)
       PROVE  /\ Offset(q)[i] <= Len(g)
              /\ g[Offset(q)[i - 1] + 1] = Byte(Len(q[i]))
              /\ \A j \in 1..Len(q[i]) : g[Offset(q)[i - 1] + 1 + j] = q[i][j]
  <2>1. CASE i # n + 1
    <3>1. i \in 1..n /\ i \in 0..n /\ i - 1 \in 0..n
      BY <1>3, <2>1
    <3>2. Offset(q)[i] = Offset(p)[i] /\ Offset(q)[i - 1] = Offset(p)[i - 1] /\ q[i] = p[i]
      BY <1>3, <1>4, <3>1
    <3>3. /\ Offset(p)[i] <= Len(g)
          /\ g[Offset(p)[i - 1] + 1] = Byte(Len(p[i]))
          /\ \A j \in 1..Len(p[i]) : g[Offset(p)[i - 1] + 1 + j] = p[i][j]
      BY <1>1, <1>9, <3>1 DEF Holds
    <3> QED
      BY <3>2, <3>3
  <2>2. CASE i = n + 1
    <3>1. q[i] = d /\ Offset(q)[i - 1] = Len(file) /\ Offset(q)[i] = Len(g)
      BY <1>3, <1>10, <2>2
    <3>2. g[Len(file) + 1] = x[1]
      <4>1. /\ Len(file) + 1 \in 1..(Len(file) + Len(x))
            /\ ~(Len(file) + 1 <= Len(file)) /\ (Len(file) + 1) - Len(file) = 1
        BY <1>6, <1>8
      <4> QED
        BY <1>8, <4>1
    <3>3. ASSUME NEW j \in 1..Len(d) PROVE g[Len(file) + 1 + j] = x[1 + j]
      <4>1. /\ Len(file) + 1 + j \in 1..(Len(file) + Len(x))
            /\ ~(Len(file) + 1 + j <= Len(file)) /\ (Len(file) + 1 + j) - Len(file) = 1 + j
        BY <1>6, <1>8
      <4> QED
        BY <1>8, <4>1
    <3>4. Offset(q)[i] <= Len(g)
      BY <1>6, <1>8, <3>1
    <3> QED
      BY <1>6, <3>1, <3>2, <3>3, <3>4
  <2> QED
    BY <2>1, <2>2
<1>12. Whole(g, q)
  BY <1>3, <1>10, <1>11 DEF Whole, Holds
<1> QED
  BY <1>2, <1>5, <1>7, <1>12

\* Behind the last whole record there is nothing, or the beginning of a record.
Ended(file, pos, sizes) ==
    \/ pos = Len(file)
    \/ \E size \in sizes : /\ pos < Len(file) /\ Len(file) < pos + 1 + size
                           /\ file[pos + 1] = Byte(size)

LEMMA CutOff ==
    ASSUME NEW file \in Packed, NEW p \in Seq(Packed), Whole(file, p), NEW d \in Packed,
           NEW n \in 1..Len(d), NEW sizes, Len(d) \in sizes
    PROVE  LET g == file \o SubSeq(Record(d), 1, n)
           IN  g \in Packed /\ Holds(g, p) /\ Ended(g, Offset(p)[Len(p)], sizes)
<1>1. PICK x \in Packed : x = SubSeq(Record(d), 1, n)
  <2>1. /\ Record(d) \in Seq(Octets) /\ n \in Nat /\ Len(Record(d)) \in Nat
        /\ n <= Len(Record(d))
    BY RecordBytes DEF Packed
  <2>2. SubSeq(Record(d), 1, n) \in Seq(Octets)
    BY <2>1, SubSeqProperties
  <2> QED
    BY <2>2 DEF Packed
<1>2. Len(x) = n /\ x[1] = Byte(Len(d)) /\ n \in Nat /\ Len(d) \in Nat
  <2>1. n <= Len(Record(d)) /\ Len(d) \in Nat /\ Record(d) \in Seq(Octets)
    BY RecordBytes DEF Packed
  <2>2. Len(x) = n /\ x[1] = Record(d)[1]
    BY <1>1, <2>1
  <2> QED
    BY <2>1, <2>2, RecordBytes
<1>3. PICK g \in Packed : g = file \o x
  BY ConcatProperties DEF Packed
<1>4. /\ Len(g) = Len(file) + n /\ Len(file) \in Nat
      /\ \A i \in 1..(Len(file) + n) :
            g[i] = IF i <= Len(file) THEN file[i] ELSE x[i - Len(file)]
  BY <1>2, <1>3, ConcatProperties, LenProperties DEF Packed
<1>5. Holds(g, p)
  BY <1>3, HoldsOn DEF Whole
<1>6. g[Len(file) + 1] = Byte(Len(d))
  <2>1. /\ Len(file) + 1 \in 1..(Len(file) + n)
        /\ ~(Len(file) + 1 <= Len(file)) /\ (Len(file) + 1) - Len(file) = 1
    BY <1>2, <1>4
  <2> QED
    BY <1>2, <1>4, <2>1
<1>7. Len(file) < Len(g) /\ Len(g) < Len(file) + 1 + Len(d)
  BY <1>2, <1>4
<1>8. Ended(g, Offset(p)[Len(p)], sizes)
  <2>1. Offset(p)[Len(p)] = Len(file)
    BY DEF Whole
  <2> QED
    BY <1>6, <1>7, <2>1 DEF Ended
<1> QED
  BY <1>1, <1>3, <1>5, <1>8
-----------------------------------------------------------------------------
(* Reading records.                                                        *)

Readers == [pos : Nat, good : BOOLEAN, size : Nat, buffer : Packed]

\* What a reader has read whole.
Holding(r, d) ==
    /\ r \in Readers /\ r.good /\ r.size = Len(d) /\ r.size <= Len(r.buffer)
    /\ \A j \in 1..Len(d) : r.buffer[j] = d[j]

LEMMA Overlaid ==
    ASSUME NEW bytes \in Packed, NEW b \in Packed
    PROVE  /\ Overlay(bytes, b) \in Packed /\ Len(bytes) <= Len(Overlay(bytes, b))
           /\ \A j \in 1..Len(bytes) : Overlay(bytes, b)[j] = bytes[j]
<1>1. PICK n \in Nat : n = Len(bytes)
  BY LenProperties DEF Packed
<1>2. PICK m \in Nat : m = Len(b)
  BY LenProperties DEF Packed
<1>3. \A i \in (n + 1)..m : b[i] \in Octets
  <2>1. \A i \in (n + 1)..m : i \in 1..m
    OBVIOUS
  <2> QED
    BY <1>2, <2>1, ElementOfSeq DEF Packed
<1>4. PICK rest \in Packed : rest = SubSeq(b, n + 1, m)
  <2>1. n + 1 \in Int /\ m \in Int
    OBVIOUS
  <2> QED
    BY <1>3, <2>1, SubSeqProperties DEF Packed
<1>5. PICK v \in Packed : v = bytes \o rest
  BY ConcatProperties DEF Packed
<1>6. n <= Len(v) /\ \A j \in 1..n : v[j] = bytes[j]
  <2>1. /\ Len(v) = Len(bytes) + Len(rest) /\ Len(rest) \in Nat
        /\ \A i \in 1..(Len(bytes) + Len(rest)) :
              v[i] = IF i <= Len(bytes) THEN bytes[i] ELSE rest[i - Len(bytes)]
    BY <1>5, ConcatProperties, LenProperties DEF Packed
  <2> QED
    BY <1>1, <2>1
<1> QED
  BY <1>1, <1>2, <1>4, <1>5, <1>6 DEF Overlay

\* A whole record is read as it was written, over what the buffer held before.
LEMMA ReadsRecord ==
    ASSUME NEW file \in Packed, NEW p \in Seq(Packed), Holds(file, p),
           NEW k \in 0..(Len(p) - 1), Len(p[k + 1]) <= 255,
           NEW r \in Readers, r.good, r.pos = Offset(p)[k], NEW q, q = ReadRecord(file, r)
    PROVE  /\ r.pos < Len(file) /\ Number(file[r.pos + 1]) = Len(p[k + 1])
           /\ q.pos = Offset(p)[k + 1] /\ Holding(q, p[k + 1])
<1>1. k + 1 \in 1..Len(p) /\ (k + 1) - 1 = k /\ k \in 0..Len(p)
  BY LenProperties
<1>2. PICK d \in Packed : d = p[k + 1]
  BY <1>1, ElementOfSeq
<1>3. PICK n \in 0..255 : n = Len(d)
  <2>1. Len(d) \in Nat
    BY LenProperties DEF Packed
  <2>2. Len(d) <= 255
    BY <1>2
  <2>3. \A x \in Nat : x <= 255 => x \in 0..255
    OBVIOUS
  <2> QED
    BY <2>1, <2>2, <2>3, Zenon
<1>4. PICK a \in Nat : a = Offset(p)[k]
  BY <1>1, OffsetIs
<1>5. Offset(p)[k + 1] = a + 1 + n
  BY <1>1, <1>2, <1>3, <1>4, OffsetIs
<1>6. PICK e \in Nat : e = Len(file)
  BY LenProperties DEF Packed
<1>7. /\ a + 1 + n <= e /\ file[a + 1] = Byte(n)
      /\ \A j \in 1..n : file[a + 1 + j] = d[j]
  <2>1. /\ Offset(p)[k + 1] <= Len(file)
        /\ file[Offset(p)[(k + 1) - 1] + 1] = Byte(Len(p[k + 1]))
        /\ \A j \in 1..Len(p[k + 1]) : file[Offset(p)[(k + 1) - 1] + 1 + j] = p[k + 1][j]
    BY <1>1, Zenon DEF Holds
  <2> QED
    BY <1>1, <1>2, <1>3, <1>4, <1>5, <1>6, <2>1
<1>8. Number(file[a + 1]) = n
  BY <1>7, NumberOfByte
<1>9. Least(a + 1 + n, e) = a + 1 + n /\ a < e
  <2>1. \A x, y \in Nat : x + 1 + n <= y => x < y
    OBVIOUS
  <2> QED
    BY <1>7, <2>1 DEF Least
<1>10. PICK bytes \in Packed : bytes = SubSeq(file, a + 2, a + 1 + n)
  <2>1. \A i \in (a + 2)..(a + 1 + n) : file[i] \in Octets
    <3>1. \A i \in (a + 2)..(a + 1 + n) : i \in 1..Len(file)
      BY <1>6, <1>7
    <3> QED
      BY <3>1, ElementOfSeq DEF Packed
  <2>2. a + 2 \in Int /\ a + 1 + n \in Int
    OBVIOUS
  <2> QED
    BY <2>1, <2>2, SubSeqProperties DEF Packed
<1>11. Len(bytes) = n /\ \A j \in 1..n : bytes[j] = d[j]
  <2>1. \A i \in (a + 2)..(a + 1 + n) : file[i] \in Octets
    <3>1. \A i \in (a + 2)..(a + 1 + n) : i \in 1..Len(file)
      BY <1>6, <1>7
    <3> QED
      BY <3>1, ElementOfSeq DEF Packed
  <2>2. a + 2 \in Int /\ a + 1 + n \in Int
    OBVIOUS
  <2>3. /\ Len(bytes) = IF a + 2 <= a + 1 + n THEN (a + 1 + n) - (a + 2) + 1 ELSE 0
        /\ \A i \in 1..((a + 1 + n) - (a + 2) + 1) : bytes[i] = file[(a + 2) + i - 1]
    BY <1>10, <2>1, <2>2, SubSeqProperties
  <2>4. Len(bytes) = n
    BY <2>3
  <2>5. ASSUME NEW j \in 1..n PROVE bytes[j] = d[j]
    <3>1. j \in 1..((a + 1 + n) - (a + 2) + 1) /\ (a + 2) + j - 1 = a + 1 + j
      OBVIOUS
    <3>2. bytes[j] = file[(a + 2) + j - 1]
      BY <2>3, <3>1, Zenon
    <3> QED
      BY <1>7, <3>1, <3>2
  <2> QED
    BY <2>4, <2>5
<1>12. PICK v \in Packed : v = Overlay(bytes, r.buffer)
  BY Overlaid DEF Readers
<1>13. n <= Len(v) /\ \A j \in 1..n : v[j] = d[j]
  <2>1. r.buffer \in Packed
    BY DEF Readers
  <2>2. Len(bytes) <= Len(v) /\ \A j \in 1..Len(bytes) : v[j] = bytes[j]
    BY <1>12, <2>1, Overlaid
  <2> QED
    BY <1>11, <2>2
<1>14. q = [pos |-> a + 1 + n, good |-> n = n, size |-> n, buffer |-> v]
  <2>1. r.pos = a /\ r.pos # Len(file)
    BY <1>4, <1>6, <1>9
  <2> QED
    BY <1>6, <1>8, <1>9, <1>10, <1>11, <1>12, <2>1 DEF ReadRecord
<1>15. /\ q.pos = a + 1 + n /\ q.good /\ q.size = n /\ q.buffer = v
       /\ q \in Readers
  BY <1>14 DEF Readers
<1>16. r.pos < Len(file) /\ Number(file[r.pos + 1]) = n
  BY <1>4, <1>6, <1>8, <1>9
<1> QED
  BY <1>2, <1>3, <1>5, <1>13, <1>15, <1>16 DEF Holding

\* At the end, or at a record cut off, the reading fails.
LEMMA ReadsEnd ==
    ASSUME NEW file \in Packed, NEW r \in Readers, r.good,
           Ended(file, r.pos, 2..255), NEW q, q = ReadRecord(file, r)
    PROVE  /\ q \in Readers /\ ~q.good
           /\ ~(r.pos < Len(file) /\ Number(file[r.pos + 1]) < 2)
<1>1. PICK e \in Nat : e = Len(file)
  BY LenProperties DEF Packed
<1>2. PICK a \in Nat : a = r.pos
  BY DEF Readers
<1>3. CASE a = e
  <2>1. q = [r EXCEPT !.good = FALSE]
    BY <1>1, <1>2, <1>3 DEF ReadRecord
  <2>2. q \in Readers /\ ~q.good
    BY <2>1 DEF Readers
  <2> QED
    BY <1>1, <1>2, <1>3, <2>2
<1>4. CASE a # e
  <2>1. PICK size \in 2..255 : a < e /\ e < a + 1 + size /\ file[a + 1] = Byte(size)
    BY <1>1, <1>2, <1>4 DEF Ended
  <2>2. Number(file[a + 1]) = size
    BY <2>1, NumberOfByte
  <2>3. Least(a + 1 + size, e) = e
    BY <2>1 DEF Least
  <2>4. PICK bytes \in Packed : bytes = SubSeq(file, a + 2, e) /\ Len(bytes) < size
    <3>1. \A i \in (a + 2)..e : file[i] \in Octets
      <4>1. \A i \in (a + 2)..e : i \in 1..Len(file)
        BY <1>1
      <4> QED
        BY <4>1, ElementOfSeq DEF Packed
    <3>2. a + 2 \in Int /\ e \in Int
      OBVIOUS
    <3>3. /\ SubSeq(file, a + 2, e) \in Packed
          /\ Len(SubSeq(file, a + 2, e)) = IF a + 2 <= e THEN e - (a + 2) + 1 ELSE 0
      BY <3>1, <3>2, SubSeqProperties DEF Packed
    <3>4. Len(SubSeq(file, a + 2, e)) < size
      BY <2>1, <3>3
    <3> QED
      BY <3>3, <3>4
  <2>5. PICK n \in Nat : n = Len(bytes)
    BY LenProperties DEF Packed
  <2>6. PICK v \in Packed : v = Overlay(bytes, r.buffer)
    BY Overlaid DEF Readers
  <2>7. q = [pos |-> a + 1 + n, good |-> n = size, size |-> size, buffer |-> v]
    BY <1>1, <1>2, <1>4, <2>2, <2>3, <2>4, <2>5, <2>6 DEF ReadRecord
  <2>8. n # size
    BY <2>4, <2>5
  <2>9. q \in Readers /\ ~q.good
    <3>1. q = [pos |-> a + 1 + n, good |-> FALSE, size |-> size, buffer |-> v]
      BY <2>7, <2>8
    <3> QED
      BY <3>1 DEF Readers
  <2> QED
    BY <1>2, <2>1, <2>2, <2>9
<1> QED
  BY <1>3, <1>4
-----------------------------------------------------------------------------
(* The maps after k packets of s, compared with e.                         *)

Line(p) == Bucket(p, Len(p))
Lines(s, k) == {Line(s[i]) : i \in 1..k}
Hits(s, k, b) == {i \in 1..k : Line(s[i]) = b}
Misses(s, e, k, b) ==
    {i \in Hits(s, k, b) : SubSeq(s[i], 1, Len(s[i]) - 2) # e[i]}
MissedBits(s, e, k, b) ==
    UNION {{i} \X BitsApart(e[i], s[i], Len(e[i])) : i \in Misses(s, e, k, b)}

Counted(s, k, c) ==
    /\ DOMAIN c = Lines(s, k)
    /\ \A b \in DOMAIN c : c[b] = Cardinality(Hits(s, k, b))

Tallies(s, e, k, c, er, be) ==
    /\ Counted(s, k, c)
    /\ DOMAIN er = {b \in DOMAIN c : Misses(s, e, k, b) # {}}
    /\ DOMAIN be = DOMAIN er
    /\ \A b \in DOMAIN er : /\ er[b] = Cardinality(Misses(s, e, k, b))
                             /\ IsFiniteSet(MissedBits(s, e, k, b))
                             /\ be[b] = Cardinality(MissedBits(s, e, k, b))

LEMMA HitsFinite ==
    \A s, e, k, b : k \in Nat =>
        /\ IsFiniteSet(Hits(s, k, b)) /\ Cardinality(Hits(s, k, b)) \in Nat
        /\ IsFiniteSet(Misses(s, e, k, b)) /\ Cardinality(Misses(s, e, k, b)) \in Nat
<1> SUFFICES ASSUME NEW s, NEW e, NEW k \in Nat, NEW b
             PROVE  /\ IsFiniteSet(Hits(s, k, b)) /\ Cardinality(Hits(s, k, b)) \in Nat
                    /\ IsFiniteSet(Misses(s, e, k, b))
                    /\ Cardinality(Misses(s, e, k, b)) \in Nat
  OBVIOUS
<1>1. IsFiniteSet(1..k)
  <2>1. 1 \in Int /\ k \in Int
    OBVIOUS
  <2> QED
    BY <2>1, FS_Interval, Zenon
<1>2. Hits(s, k, b) \in SUBSET (1..k) /\ Misses(s, e, k, b) \in SUBSET Hits(s, k, b)
  BY DEF Hits, Misses
<1>3. IsFiniteSet(Hits(s, k, b)) /\ IsFiniteSet(Misses(s, e, k, b))
  BY <1>1, <1>2, FS_Subset
<1> QED
  BY <1>3, FS_CardinalityType

LEMMA TalliesNone ==
    \A s, e : Counted(s, 0, NoMap) /\ Tallies(s, e, 0, NoMap, NoMap, NoMap)
<1>1. \A i \in 1..0 : FALSE
  OBVIOUS
<1>2. DOMAIN NoMap = {}
  BY DEF NoMap
<1> QED
  BY <1>1, <1>2 DEF Counted, Tallies, Lines

\* With one more packet, the line it is on has one more.
HitsMore(s, k, c, b) ==
    /\ DOMAIN Added(c, b, 1) = DOMAIN c \cup {b}
    /\ DOMAIN Added(c, b, 1) = Lines(s, k + 1)
    /\ \A d \in DOMAIN Added(c, b, 1) :
          Added(c, b, 1)[d] = Cardinality(Hits(s, k + 1, d))
    /\ Hits(s, k + 1, b) = Hits(s, k, b) \cup {k + 1}
    /\ \A d : d # b => Hits(s, k + 1, d) = Hits(s, k, d)
    /\ \A d : k + 1 \notin Hits(s, k, d)
    /\ \A d : d \notin DOMAIN c => Hits(s, k, d) = {}

LEMMA HitsNext ==
    ASSUME NEW s, NEW k \in Nat, NEW c, NEW b, b = Line(s[k + 1]),
           Counted(s, k, c)
    PROVE  HitsMore(s, k, c, b) /\ Counted(s, k + 1, Added(c, b, 1))
<1> USE DEF Counted
<1>1. 1..(k + 1) = (1..k) \cup {k + 1} /\ k + 1 \notin 1..k
  OBVIOUS
<1>2. Hits(s, k + 1, b) = Hits(s, k, b) \cup {k + 1}
  BY <1>1 DEF Hits
<1>3. \A d : d # b => Hits(s, k + 1, d) = Hits(s, k, d)
  BY <1>1 DEF Hits
<1>4. \A d : k + 1 \notin Hits(s, k, d)
  BY <1>1 DEF Hits
<1>5. \A d : d \notin DOMAIN c => Hits(s, k, d) = {}
  BY DEF Hits, Lines
<1>6. PICK x \in Nat : x = Cardinality(Hits(s, k, b))
  BY HitsFinite
<1>7. (b \in DOMAIN c => x = c[b]) /\ (b \notin DOMAIN c => x = 0)
  BY <1>5, <1>6, FS_EmptySet
<1>8. \A d \in DOMAIN c : c[d] \in Int
  <2> SUFFICES ASSUME NEW d \in DOMAIN c PROVE c[d] \in Int
    OBVIOUS
  <2>1. Cardinality(Hits(s, k, d)) \in Nat
    BY HitsFinite
  <2>2. c[d] = Cardinality(Hits(s, k, d))
    OBVIOUS
  <2> QED
    BY <2>1, <2>2
<1>9. PICK f : f = Added(c, b, 1)
  OBVIOUS
<1>10. /\ DOMAIN f = DOMAIN c \cup {b} /\ f[b] = x + 1
       /\ \A d \in DOMAIN c : d # b => f[d] = c[d]
  <2>1. /\ DOMAIN f = DOMAIN c \cup {b}
        /\ (b \in DOMAIN c => f[b] = c[b] + 1) /\ (b \notin DOMAIN c => f[b] = 0 + 1)
        /\ \A d \in DOMAIN c : d # b => f[d] = c[d] + 0
    BY <1>9 DEF Added
  <2> QED
    BY <1>7, <1>8, <2>1
<1>11. Cardinality(Hits(s, k + 1, b)) = x + 1
  <2>1. /\ IsFiniteSet(Hits(s, k, b)) /\ k + 1 \notin Hits(s, k, b)
        /\ Hits(s, k + 1, b) = Hits(s, k, b) \cup {k + 1}
    BY <1>2, <1>4, HitsFinite
  <2> QED
    BY <1>6, <2>1, FS_AddElement
<1>12. ASSUME NEW d \in DOMAIN f PROVE f[d] = Cardinality(Hits(s, k + 1, d))
  <2>1. CASE d = b
    BY <1>10, <1>11, <2>1
  <2>2. CASE d # b
    <3>1. d \in DOMAIN c
      BY <1>10, <2>2
    <3> QED
      BY <1>3, <1>10, <2>2, <3>1
  <2> QED
    BY <2>1, <2>2
<1>13. DOMAIN c \cup {b} = Lines(s, k + 1)
  BY <1>1 DEF Lines
<1> QED
  BY <1>2, <1>3, <1>4, <1>5, <1>9, <1>10, <1>12, <1>13 DEF HitsMore

\* A packet that is right changes no other map.
LEMMA TalliesRightOne ==
    ASSUME NEW s, NEW e, NEW k \in Nat, NEW c, NEW er, NEW be,
           Tallies(s, e, k, c, er, be), NEW b, b = Line(s[k + 1]),
           SubSeq(s[k + 1], 1, Len(s[k + 1]) - 2) = e[k + 1]
    PROVE  Tallies(s, e, k + 1, Added(c, b, 1), er, be)
<1>1. PICK f : f = Added(c, b, 1)
  OBVIOUS
<1>2. /\ DOMAIN f = DOMAIN c \cup {b} /\ DOMAIN f = Lines(s, k + 1)
      /\ \A d \in DOMAIN f : f[d] = Cardinality(Hits(s, k + 1, d))
      /\ Hits(s, k + 1, b) = Hits(s, k, b) \cup {k + 1}
      /\ \A d : d # b => Hits(s, k + 1, d) = Hits(s, k, d)
      /\ \A d : d \notin DOMAIN c => Hits(s, k, d) = {}
  <2>1. Counted(s, k, c)
    BY DEF Tallies
  <2>2. HitsMore(s, k, c, b)
    BY <2>1, HitsNext
  <2> QED
    BY <1>1, <2>2 DEF HitsMore
<1>3. \A d : Misses(s, e, k + 1, d) = Misses(s, e, k, d)
  BY <1>2 DEF Misses
<1>4. \A d : MissedBits(s, e, k + 1, d) = MissedBits(s, e, k, d)
  BY <1>3 DEF MissedBits
<1>5. DOMAIN er = {d \in DOMAIN f : Misses(s, e, k + 1, d) # {}}
  <2>1. \A d : d \notin DOMAIN c => Misses(s, e, k, d) = {}
    BY <1>2 DEF Misses
  <2> QED
    BY <1>2, <1>3, <2>1 DEF Counted, Tallies
<1> QED
  BY <1>1, <1>2, <1>3, <1>4, <1>5 DEF Counted, Tallies

\* One that is wrong is counted on its line, and the bits in which it is.
LEMMA TalliesWrongOne ==
    ASSUME NEW s, NEW e, NEW k \in Nat, NEW c, NEW er, NEW be,
           Tallies(s, e, k, c, er, be), NEW b, b = Line(s[k + 1]),
           SubSeq(s[k + 1], 1, Len(s[k + 1]) - 2) # e[k + 1],
           NEW B, B = BitsApart(e[k + 1], s[k + 1], Len(e[k + 1])), IsFiniteSet(B),
           NEW n, n = Cardinality(B)
    PROVE  Tallies(s, e, k + 1, Added(c, b, 1), Added(er, b, 1), Added(be, b, n))
<1>1. PICK f : f = Added(c, b, 1)
  OBVIOUS
<1>2. /\ DOMAIN f = DOMAIN c \cup {b} /\ DOMAIN f = Lines(s, k + 1)
      /\ \A d \in DOMAIN f : f[d] = Cardinality(Hits(s, k + 1, d))
      /\ Hits(s, k + 1, b) = Hits(s, k, b) \cup {k + 1}
      /\ \A d : d # b => Hits(s, k + 1, d) = Hits(s, k, d)
      /\ \A d : k + 1 \notin Hits(s, k, d)
      /\ \A d : d \notin DOMAIN c => Hits(s, k, d) = {}
  <2>1. Counted(s, k, c)
    BY DEF Tallies
  <2>2. HitsMore(s, k, c, b)
    BY <2>1, HitsNext
  <2> QED
    BY <1>1, <2>2 DEF HitsMore
<1>3. /\ Misses(s, e, k + 1, b) = Misses(s, e, k, b) \cup {k + 1}
      /\ \A d : d # b => Misses(s, e, k + 1, d) = Misses(s, e, k, d)
      /\ k + 1 \notin Misses(s, e, k, b)
  BY <1>2 DEF Misses
<1>4. /\ MissedBits(s, e, k + 1, b) = MissedBits(s, e, k, b) \cup ({k + 1} \X B)
      /\ \A d : d # b => MissedBits(s, e, k + 1, d) = MissedBits(s, e, k, d)
      /\ \A x \in B : <<k + 1, x>> \notin MissedBits(s, e, k, b)
  BY <1>3 DEF MissedBits
<1>5. \A d : d \notin DOMAIN er => Misses(s, e, k, d) = {} /\ MissedBits(s, e, k, d) = {}
  BY <1>2 DEF Counted, Tallies, Misses, MissedBits
<1>6. PICK x \in Nat : x = Cardinality(Misses(s, e, k, b))
  BY HitsFinite
<1>7. IsFiniteSet(MissedBits(s, e, k, b))
  BY <1>5, FS_EmptySet DEF Counted, Tallies
<1>8. PICK y \in Nat : y = Cardinality(MissedBits(s, e, k, b))
  BY <1>7, FS_CardinalityType
<1>9. /\ (b \in DOMAIN er => x = er[b]) /\ (b \notin DOMAIN er => x = 0)
      /\ (b \in DOMAIN be => y = be[b]) /\ (b \notin DOMAIN be => y = 0)
  BY <1>5, <1>6, <1>8, FS_EmptySet DEF Counted, Tallies
<1>10. \A d \in DOMAIN er : er[d] \in Int /\ be[d] \in Int
  <2>1. ASSUME NEW d \in DOMAIN er PROVE er[d] \in Nat /\ be[d] \in Nat
    BY HitsFinite, FS_CardinalityType DEF Counted, Tallies
  <2> QED
    BY <2>1
<1>11. PICK m \in Nat : m = n
  BY FS_CardinalityType
<1>12. PICK g : g = Added(er, b, 1)
  OBVIOUS
<1>13. PICK h : h = Added(be, b, n)
  OBVIOUS
<1>14. /\ DOMAIN g = DOMAIN er \cup {b} /\ g[b] = x + 1
       /\ \A d \in DOMAIN er : d # b => g[d] = er[d]
  <2>1. \A d \in DOMAIN er : er[d] \in Int
    BY <1>10
  <2>2. /\ DOMAIN g = DOMAIN er \cup {b}
        /\ (b \in DOMAIN er => g[b] = er[b] + 1) /\ (b \notin DOMAIN er => g[b] = 0 + 1)
        /\ \A d \in DOMAIN er : d # b => g[d] = er[d] + 0
    BY <1>12 DEF Added
  <2> QED
    BY <1>9, <2>1, <2>2
<1>15. /\ DOMAIN h = DOMAIN er \cup {b} /\ h[b] = y + m
       /\ \A d \in DOMAIN er : d # b => h[d] = be[d]
  <2>1. DOMAIN be = DOMAIN er /\ m \in Int /\ y \in Int
    BY DEF Counted, Tallies
  <2>2. \A d \in DOMAIN be : be[d] \in Int
    BY <1>10, <2>1
  <2>3. h = Added(be, b, m)
    BY <1>11, <1>13
  <2>4. /\ DOMAIN h = DOMAIN be \cup {b}
        /\ (b \in DOMAIN be => h[b] = be[b] + m) /\ (b \notin DOMAIN be => h[b] = 0 + m)
        /\ \A d \in DOMAIN be : d # b => h[d] = be[d] + 0
    BY <2>3 DEF Added
  <2> QED
    BY <1>9, <2>1, <2>2, <2>4
<1>16. Cardinality(Misses(s, e, k + 1, b)) = x + 1
  <2>1. IsFiniteSet(Misses(s, e, k, b))
    BY HitsFinite
  <2> QED
    BY <1>3, <1>6, <2>1, FS_AddElement
<1>17. /\ IsFiniteSet(MissedBits(s, e, k + 1, b))
       /\ Cardinality(MissedBits(s, e, k + 1, b)) = y + m
  <2>1. PICK A : A = MissedBits(s, e, k, b)
    OBVIOUS
  <2>2. IsFiniteSet(A) /\ \A x1 \in B : <<k + 1, x1>> \notin A
    BY <1>4, <1>7, <2>1
  <2>3. /\ IsFiniteSet(A \cup ({k + 1} \X B))
        /\ Cardinality(A \cup ({k + 1} \X B)) = Cardinality(A) + Cardinality(B)
    BY <2>2, PieceAdds, Zenon
  <2> QED
    BY <1>4, <1>8, <1>11, <2>1, <2>3
<1>18. DOMAIN g = {d \in DOMAIN f : Misses(s, e, k + 1, d) # {}}
  <2>1. \A d : d \in DOMAIN g => d \in DOMAIN f /\ Misses(s, e, k + 1, d) # {}
    BY <1>2, <1>3, <1>14 DEF Counted, Tallies
  <2>2. \A d : d \in DOMAIN f /\ Misses(s, e, k + 1, d) # {} => d \in DOMAIN g
    BY <1>2, <1>3, <1>5, <1>14
  <2> QED
    BY <2>1, <2>2
<1>19. ASSUME NEW d \in DOMAIN g
       PROVE  /\ g[d] = Cardinality(Misses(s, e, k + 1, d))
              /\ IsFiniteSet(MissedBits(s, e, k + 1, d))
              /\ h[d] = Cardinality(MissedBits(s, e, k + 1, d))
  <2>1. CASE d = b
    BY <1>14, <1>15, <1>16, <1>17, <2>1
  <2>2. CASE d # b
    <3>1. d \in DOMAIN er
      BY <1>14, <2>2
    <3>2. /\ er[d] = Cardinality(Misses(s, e, k, d))
          /\ IsFiniteSet(MissedBits(s, e, k, d))
          /\ be[d] = Cardinality(MissedBits(s, e, k, d))
      BY <3>1 DEF Counted, Tallies
    <3> QED
      BY <1>3, <1>4, <1>14, <1>15, <2>2, <3>1, <3>2
  <2> QED
    BY <2>1, <2>2
<1> QED
  BY <1>1, <1>2, <1>12, <1>13, <1>14, <1>15, <1>18, <1>19 DEF Counted, Tallies
-----------------------------------------------------------------------------
(* The parser.                                                             *)

\* What the i-th packet saved is compared with, while the parser is at work.
Compared == [i \in DOMAIN saved |-> IF phase = "by_msg" THEN Message ELSE sent[i]]

\* Their records' sizes fit, and the packets are as long.
Reads(e) == \A i \in DOMAIN saved : Len(e[i]) <= 255
Fits(e) == Reads(e) /\ \A i \in DOMAIN saved : Len(saved[i]) = Len(e[i]) + 2

\* The parser has read k packets.
Reading(k) ==
    /\ rx \in Readers
    /\ IF rx.good THEN rx.pos = Offset(saved)[k] ELSE k = Len(saved)
    /\ Reads(Compared) =>
          /\ Counted(saved, k, cnt)
          /\ phase = "by_txfile" /\ rx.good =>
                tx \in Readers /\ tx.good /\ tx.pos = Offset(sent)[k]
    /\ Fits(Compared) => Tallies(saved, Compared, k, cnt, error, bit_err)

DumpTypes ==
    /\ rxFile \in Packed /\ txFile \in Packed
    /\ saved \in Seq(Packed) /\ sent \in Seq(Packed) /\ Len(saved) <= Len(sent)
    /\ begun \in SUBSET Nat /\ \A i \in DOMAIN saved : Len(saved[i]) \in begun
    /\ phase \in {"record", "by_msg", "by_txfile", "report", "fault"}

DumpInv ==
    /\ DumpTypes
    /\ Whole(txFile, sent)
    /\ phase = "record" =>
          Whole(rxFile, saved) /\ cnt = NoMap /\ error = NoMap /\ bit_err = NoMap
    /\ phase \in {"by_msg", "by_txfile"} =>
          /\ Holds(rxFile, saved) /\ Ended(rxFile, Offset(saved)[Len(saved)], begun)
          /\ begun \subseteq 2..255 => \E k \in 0..Len(saved) : Reading(k)
    /\ phase = "by_msg" => tx = [Reader(Message) EXCEPT !.size = Len(Message)]
    /\ TalliesRight

LEMMA Beginning ==
    ASSUME NEW b \in Packed, NEW d \in Packed, NEW n \in Nat, n <= Len(b), n <= Len(d),
           \A j \in 1..n : b[j] = d[j]
    PROVE  /\ SubSeq(b, 1, n) = SubSeq(d, 1, n)
           /\ n = Len(d) => SubSeq(d, 1, n) = d
<1>1. SubSeq(b, 1, n) = SubSeq(d, 1, n)
  OBVIOUS
<1>2. ASSUME n = Len(d) PROVE SubSeq(d, 1, n) = d
  <2>1. d = [i \in 1..n |-> d[i]]
    BY <1>2 DEF Packed
  <2> QED
    BY <2>1
<1> QED
  BY <1>1, <1>2

LEMMA OnItsLine ==
    ASSUME NEW d \in Packed, 2 <= Len(d), NEW r, Holding(r, d)
    PROVE  Bucket(r.buffer, r.size) = Line(d)
<1>1. PICK n \in Nat : n = Len(d)
  BY LenProperties DEF Packed
<1>2. PICK b \in Packed : b = r.buffer
  BY DEF Holding, Readers
<1>3. r.size = n /\ \A j \in 1..n : b[j] = d[j]
  BY <1>1, <1>2 DEF Holding
<1>4. n - 1 \in 1..n
  BY <1>1
<1> QED
  BY <1>1, <1>2, <1>3, <1>4 DEF Bucket, Line

\* The parser compares and counts what it has read as the properties do.
ComparedAs(t, r, m, d) ==
    /\ Differs(t, r) <=> SubSeq(d, 1, Len(d) - 2) # m
    /\ IsFiniteSet(BitsApart(m, d, Len(m)))
    /\ BitErrors(t.buffer, r.buffer, t.size) = Cardinality(BitsApart(m, d, Len(m)))

LEMMA Compares ==
    ASSUME NEW m \in Packed, NEW d \in Packed, Len(d) = Len(m) + 2,
           NEW t, NEW r, Holding(t, m), Holding(r, d)
    PROVE  ComparedAs(t, r, m, d)
<1>1. PICK n \in Nat : n = Len(m)
  BY LenProperties DEF Packed
<1>2. PICK a \in Packed : a = t.buffer
  BY DEF Holding, Readers
<1>3. PICK b \in Packed : b = r.buffer
  BY DEF Holding, Readers
<1>4. t.size = n /\ n <= Len(a) /\ \A j \in 1..n : a[j] = m[j]
  BY <1>1, <1>2 DEF Holding
<1>5. r.size = n + 2 /\ n + 2 <= Len(b) /\ \A j \in 1..(n + 2) : b[j] = d[j]
  BY <1>1, <1>3 DEF Holding
<1>6. n <= Len(b) /\ n <= Len(d) /\ Len(d) = n + 2 /\ Len(b) \in Nat
  BY <1>1, <1>5, LenProperties DEF Packed
<1>7. \A j \in 1..n : b[j] = d[j] /\ j \in 1..Len(a) /\ j \in 1..Len(b)
                      /\ j \in 1..Len(m) /\ j \in 1..Len(d)
  BY <1>1, <1>4, <1>5, <1>6, LenProperties DEF Packed
<1>9. SubSeq(a, 1, n) = m
  <2>1. n <= Len(m)
    BY <1>1
  <2> QED
    BY <1>1, <1>4, <2>1, Beginning
<1>10. SubSeq(b, 1, n) = SubSeq(d, 1, n)
  BY <1>6, <1>7, Beginning
<1>11. Differs(t, r) <=> SubSeq(d, 1, Len(d) - 2) # m
  <2>1. Len(d) - 2 = n
    BY <1>6
  <2> QED
    BY <1>2, <1>3, <1>4, <1>9, <1>10, <2>1 DEF Differs
<1>12. \A j \in 1..n : a[j] \in Octets /\ b[j] \in Octets
  BY <1>7, ElementOfSeq DEF Packed
<1>13. IsFiniteSet(BitsApart(a, b, n)) /\ BitErrors(a, b, n) = Cardinality(BitsApart(a, b, n))
  BY <1>12, BitsCounted
<1>14. BitsApart(a, b, n) = BitsApart(m, d, n)
  BY <1>4, <1>7 DEF BitsApart
<1> QED
  BY <1>1, <1>2, <1>3, <1>4, <1>11, <1>13, <1>14 DEF ComparedAs
-----------------------------------------------------------------------------
(* The steps.                                                              *)

LEMMA DataPacked ==
    /\ Message \in Packed
    /\ \A m \in Messages : m \in Packed
    /\ \A p \in Packets : p \in Packed
    /\ \A g \in Garbage : g \in Packed
BY DumpFileAssumption DEF Packed, Octets

LEMMA EmptyFile == Whole(<< >>, << >>)
<1>1. PICK p \in Seq(Packed) : p = << >> /\ Len(p) = 0
  <2>1. << >> \in Seq(Packed) /\ Len(<< >>) = 0
    OBVIOUS
  <2> QED
    BY <2>1
<1>2. Offset(p)[0] = 0
  BY <1>1, OffsetIs
<1>3. \A i \in 1..0 : FALSE
  OBVIOUS
<1> QED
  BY <1>1, <1>2, <1>3 DEF Whole, Holds

LEMMA DumpInvInit == DumpInit => DumpInv
<1> SUFFICES ASSUME DumpInit PROVE DumpInv
  OBVIOUS
<1>1. DumpTypes
  BY DEF DumpInit, DumpTypes, Packed
<1> QED
  BY <1>1, EmptyFile DEF DumpInit, DumpInv, TalliesRight

LEMMA Transfers ==
    ASSUME DumpInv, NEW msg \in Messages, Transfer(msg)
    PROVE  DumpInv'
<1>1. /\ rxFile \in Packed /\ txFile \in Packed
      /\ saved \in Seq(Packed) /\ sent \in Seq(Packed) /\ Len(saved) <= Len(sent)
      /\ begun \in SUBSET Nat /\ \A i \in DOMAIN saved : Len(saved[i]) \in begun
      /\ Whole(txFile, sent) /\ Whole(rxFile, saved) /\ phase = "record"
      /\ cnt = NoMap /\ error = NoMap /\ bit_err = NoMap
  BY DEF DumpInv, DumpTypes, Transfer
<1>2. /\ phase' = "record" /\ cnt' = NoMap /\ error' = NoMap /\ bit_err' = NoMap
  BY <1>1 DEF Transfer, maps
<1>3. /\ sent' \in Seq(Packed) /\ Len(sent') = Len(sent) + 1
      /\ txFile' \in Packed /\ Whole(txFile, sent)'
  <2>1. msg \in Packed /\ sent' = Append(sent, msg) /\ txFile' = txFile \o Record(msg)
    BY DataPacked DEF Transfer
  <2>2. txFile \o Record(msg) \in Packed /\ Whole(txFile \o Record(msg), Append(sent, msg))
    BY <1>1, <2>1, Recorded
  <2>3. Append(sent, msg) \in Seq(Packed) /\ Len(Append(sent, msg)) = Len(sent) + 1
    BY <1>1, <2>1, AppendProperties
  <2>4. Whole(txFile', sent')
    BY <2>1, <2>2
  <2> QED
    BY <2>1, <2>2, <2>3, <2>4
<1> DEFINE Saves ==
             /\ saved' \in Seq(Packed) /\ Len(saved') <= Len(saved) + 1
             /\ rxFile' \in Packed /\ Whole(rxFile', saved')
             /\ begun' \in SUBSET Nat /\ \A i \in DOMAIN saved' : Len(saved'[i]) \in begun'
<1>4. Saves
  <2>1. CASE UNCHANGED <<rxFile, saved, begun>>
    BY <1>1, <2>1, LenProperties
  <2>2. ASSUME NEW p \in Packets, rxFile' = rxFile \o Record(p),
               saved' = Append(saved, p), begun' = begun \cup {Len(p)}
        PROVE  Saves
    <3>1. p \in Packed /\ Len(p) \in Nat
      BY DataPacked, LenProperties DEF Packed
    <3>2. rxFile \o Record(p) \in Packed /\ Whole(rxFile \o Record(p), Append(saved, p))
      BY <1>1, <3>1, Recorded
    <3>3. /\ Append(saved, p) \in Seq(Packed) /\ Len(Append(saved, p)) = Len(saved) + 1
          /\ DOMAIN Append(saved, p) = 1..(Len(saved) + 1)
          /\ DOMAIN saved = 1..Len(saved) /\ Len(saved) \in Nat
          /\ \A i \in 1..Len(saved) : Append(saved, p)[i] = saved[i]
          /\ Append(saved, p)[Len(saved) + 1] = p
      BY <1>1, <3>1, AppendProperties, LenProperties
    <3>4. \A i \in 1..(Len(saved) + 1) : i \in 1..Len(saved) \/ i = Len(saved) + 1
      BY <3>3
    <3>5. \A i \in DOMAIN saved' : Len(saved'[i]) \in begun'
      BY <1>1, <2>2, <3>3, <3>4
    <3>6. Whole(rxFile', saved')
      BY <2>2, <3>2
    <3>7. rxFile' \in Packed /\ saved' \in Seq(Packed) /\ Len(saved') <= Len(saved) + 1
      BY <2>2, <3>2, <3>3
    <3>8. begun' \in SUBSET Nat
      BY <1>1, <2>2, <3>1
    <3> QED
      BY <3>5, <3>6, <3>7, <3>8
  <2> QED
    BY <2>1, <2>2 DEF Transfer
<1>5. Len(saved') <= Len(sent')
  BY <1>1, <1>3, <1>4, LenProperties
<1>6. DumpTypes'
  BY <1>2, <1>3, <1>4, <1>5 DEF DumpTypes
<1>7. Whole(rxFile, saved)'
  BY <1>4 DEF Whole
<1> QED
  BY <1>2, <1>3, <1>6, <1>7 DEF DumpInv, TalliesRight

LEMMA Restarts ==
    ASSUME DumpInv, Restart PROVE DumpInv'
<1>1. /\ phase = "record" /\ phase' = "record"
      /\ rxFile' = << >> /\ saved' = << >> /\ begun' = {} /\ txFile' = << >> /\ sent' = << >>
      /\ cnt' = NoMap /\ error' = NoMap /\ bit_err' = NoMap
  BY DEF DumpInv, Restart, maps
<1>2. DumpTypes'
  BY <1>1 DEF DumpTypes, Packed
<1>3. Whole(txFile', sent') /\ Whole(rxFile', saved')
  BY <1>1, EmptyFile
<1>4. Whole(txFile, sent)' /\ Whole(rxFile, saved)'
  BY <1>3
<1> QED
  BY <1>1, <1>2, <1>4 DEF DumpInv, TalliesRight

LEMMA Parses ==
    ASSUME DumpInv, NEW mode \in {"by_msg", "by_txfile"}, Parse(mode)
    PROVE  DumpInv'
<1>1. /\ rxFile \in Packed /\ txFile \in Packed
      /\ saved \in Seq(Packed) /\ sent \in Seq(Packed) /\ Len(saved) <= Len(sent)
      /\ begun \in SUBSET Nat /\ \A i \in DOMAIN saved : Len(saved[i]) \in begun
      /\ Whole(txFile, sent) /\ Whole(rxFile, saved)
      /\ cnt = NoMap /\ error = NoMap /\ bit_err = NoMap
  BY DEF DumpInv, DumpTypes, Parse
<1>2. /\ phase' = mode /\ txFile' = txFile /\ sent' = sent /\ saved' = saved
      /\ cnt' = NoMap /\ error' = NoMap /\ bit_err' = NoMap
  BY <1>1 DEF Parse, maps
<1>3. /\ rxFile' \in Packed /\ Holds(rxFile', saved)
      /\ Ended(rxFile', Offset(saved)[Len(saved)], begun')
      /\ begun' \in SUBSET Nat /\ begun \subseteq begun'
  <2>1. CASE UNCHANGED <<rxFile, begun>>
    BY <1>1, <2>1 DEF Whole, Ended
  <2>2. ASSUME NEW p \in Packets, NEW n \in 1..4, n <= Len(p),
               rxFile' = rxFile \o SubSeq(Record(p), 1, n), begun' = begun \cup {Len(p)}
        PROVE  /\ rxFile' \in Packed /\ Holds(rxFile', saved)
               /\ Ended(rxFile', Offset(saved)[Len(saved)], begun')
               /\ begun' \in SUBSET Nat /\ begun \subseteq begun'
    <3>1. p \in Packed /\ Len(p) \in Nat /\ n \in 1..Len(p)
      BY <2>2, DataPacked, LenProperties DEF Packed
    <3>2. PICK sizes : sizes = begun'
      OBVIOUS
    <3>3. Len(p) \in sizes
      BY <2>2, <3>2
    <3>4. /\ rxFile \o SubSeq(Record(p), 1, n) \in Packed
          /\ Holds(rxFile \o SubSeq(Record(p), 1, n), saved)
          /\ Ended(rxFile \o SubSeq(Record(p), 1, n), Offset(saved)[Len(saved)], sizes)
      BY <1>1, <3>1, <3>3, CutOff
    <3>5. begun' \in SUBSET Nat /\ begun \subseteq begun'
      BY <1>1, <2>2, <3>1
    <3> QED
      BY <2>2, <3>2, <3>4, <3>5
  <2> QED
    BY <2>1, <2>2 DEF Parse
<1>4. PICK g \in Packed : rx' = Reader(g)
  <2>1. PICK g \in Garbage : rx' = Reader(g)
    BY DEF Parse
  <2> QED
    BY <2>1, DataPacked, Zenon
<1>5. /\ mode = "by_msg" => tx' = [Reader(Message) EXCEPT !.size = Len(Message)]
      /\ mode = "by_txfile" => tx' = Reader(<< >>)
  BY DEF Parse
<1>6. Reader(g) \in Readers /\ Reader(g).good /\ Reader(g).pos = 0
  BY DEF Reader, Readers
<1>7. mode = "by_txfile" => tx' \in Readers /\ tx'.good /\ tx'.pos = 0
  <2>1. << >> \in Packed
    BY DEF Packed
  <2>2. Reader(<< >>) \in Readers /\ Reader(<< >>).good /\ Reader(<< >>).pos = 0
    BY <2>1 DEF Reader, Readers
  <2> QED
    BY <1>5, <2>2
<1>8. Offset(saved)[0] = 0 /\ Offset(sent)[0] = 0
  BY <1>1, OffsetIs
<1>9. Reading(0)'
  <2>1. Counted(saved', 0, cnt') /\ Tallies(saved', Compared', 0, cnt', error', bit_err')
    BY <1>2, TalliesNone
  <2>2. rx' \in Readers /\ rx'.good /\ rx'.pos = Offset(saved')[0]
    BY <1>2, <1>4, <1>6, <1>8
  <2>3. phase' = "by_txfile" => tx' \in Readers /\ tx'.good /\ tx'.pos = Offset(sent')[0]
    BY <1>2, <1>7, <1>8
  <2> QED
    BY <2>1, <2>2, <2>3 DEF Reading
<1>10. 0 \in 0..Len(saved')
  BY <1>1, <1>2, LenProperties
<1>11. DumpTypes'
  BY <1>1, <1>2, <1>3 DEF DumpTypes
<1>12. Whole(txFile, sent)' /\ Holds(rxFile, saved)' /\ Ended(rxFile, Offset(saved)[Len(saved)], begun)'
  BY <1>1, <1>2, <1>3
<1> QED
  BY <1>2, <1>5, <1>9, <1>10, <1>11, <1>12 DEF DumpInv, TalliesRight

\* What is read is counted: the packets the parser has read are one more, or it
\* is at their end.
LEMMA ReadsOn ==
    ASSUME DumpInv, Turn, begun \subseteq 2..255
    PROVE  phase' = phase /\ \E k \in 0..Len(saved) : Reading(k)'
<1>1. /\ rxFile \in Packed /\ txFile \in Packed
      /\ saved \in Seq(Packed) /\ sent \in Seq(Packed) /\ Len(saved) <= Len(sent)
      /\ \A i \in DOMAIN saved : Len(saved[i]) \in begun
      /\ Whole(txFile, sent) /\ Holds(rxFile, saved)
      /\ Ended(rxFile, Offset(saved)[Len(saved)], begun)
      /\ phase = "by_msg" => tx = [Reader(Message) EXCEPT !.size = Len(Message)]
      /\ phase \in {"by_msg", "by_txfile"}
  BY DEF DumpInv, DumpTypes, Turn
<1>2. PICK k \in 0..Len(saved) : Reading(k)
  BY <1>1 DEF DumpInv
<1>3. PICK r : r = ReadRecord(rxFile, rx)
  OBVIOUS
<1>4. PICK t : t = IF phase = "by_msg" THEN tx ELSE ReadRecord(txFile, tx)
  OBVIOUS
<1>5. PICK b : b = Bucket(r.buffer, r.size)
  OBVIOUS
<1>6. /\ tx' = t /\ rx' = r /\ saved' = saved /\ sent' = sent
      /\ ~Overruns(rx) =>
            /\ phase' = phase
            /\ ~Counts(t, r) => UNCHANGED maps
            /\ Counts(t, r) =>
                  /\ cnt' = Added(cnt, b, 1)
                  /\ Differs(t, r) =>
                        /\ error' = Added(error, b, 1)
                        /\ bit_err' = Added(bit_err, b,
                                        BitErrors(t.buffer, r.buffer, t.size))
                  /\ ~Differs(t, r) => error' = error /\ bit_err' = bit_err
  BY <1>3, <1>4, <1>5 DEF Turn, files
<1>7. ~Overruns(rx) => Compared' = Compared
  BY <1>6 DEF Compared
<1>8. Ended(rxFile, Offset(saved)[Len(saved)], 2..255)
  BY <1>1 DEF Ended
<1>9. PICK n \in Nat : n = Len(saved)
  BY <1>1, LenProperties
<1>10. ASSUME r \in Readers, ~r.good, ~Overruns(rx), k = n
       PROVE  phase' = phase /\ Reading(k)'
  <2>1. cnt' = cnt /\ error' = error /\ bit_err' = bit_err /\ phase' = phase
    BY <1>6, <1>10 DEF Counts, maps
  <2>2. Compared' = Compared
    BY <1>7, <1>10
  <2>3. (Fits(Compared)' <=> Fits(Compared)) /\ (Reads(Compared)' <=> Reads(Compared))
    BY <1>6, <2>2 DEF Fits, Reads
  <2>4. /\ Reads(Compared) => Counted(saved', k, cnt')
        /\ Fits(Compared) => Tallies(saved', Compared', k, cnt', error', bit_err')
    BY <1>2, <1>6, <2>1, <2>2 DEF Reading
  <2> QED
    BY <1>6, <1>9, <1>10, <2>1, <2>3, <2>4 DEF Reading
<1>11. CASE ~rx.good
  <2>1. r = rx /\ ~Overruns(rx)
    BY <1>3, <1>11 DEF ReadRecord, Overruns
  <2>2. rx \in Readers /\ k = n
    BY <1>2, <1>9, <1>11 DEF Reading
  <2> QED
    BY <1>10, <1>11, <2>1, <2>2
<1>12. CASE rx.good /\ k = n
  <2>1. rx \in Readers /\ rx.pos = Offset(saved)[Len(saved)]
    BY <1>2, <1>9, <1>12 DEF Reading
  <2>2. /\ r \in Readers /\ ~r.good
        /\ ~(rx.pos < Len(rxFile) /\ Number(rxFile[rx.pos + 1]) < 2)
    <3>1. PICK x \in Readers : x = rx
      BY <2>1
    <3>2. x.good /\ Ended(rxFile, x.pos, 2..255) /\ r = ReadRecord(rxFile, x)
      BY <1>3, <1>8, <1>12, <2>1, <3>1
    <3>3. /\ r \in Readers /\ ~r.good
          /\ ~(x.pos < Len(rxFile) /\ Number(rxFile[x.pos + 1]) < 2)
      BY <1>1, <3>2, ReadsEnd
    <3> QED
      BY <3>1, <3>3
  <2>3. ~Overruns(rx)
    BY <2>2 DEF Overruns
  <2> QED
    BY <1>10, <1>12, <2>2, <2>3
<1>13. CASE rx.good /\ k # n
  <2>1. k \in 0..(Len(saved) - 1) /\ k + 1 \in 1..Len(saved) /\ k + 1 \in 1..Len(sent)
        /\ k \in 0..(Len(sent) - 1) /\ k + 1 \in 0..Len(saved)
    BY <1>1, <1>9, <1>13, LenProperties
  <2>2. PICK d \in Packed : d = saved[k + 1]
    BY <1>1, <2>1, ElementOfSeq
  <2>3. Len(d) \in Nat /\ 2 <= Len(d) /\ Len(d) <= 255
    <3>1. DOMAIN saved = 1..Len(saved)
      BY <1>1, LenProperties
    <3>2. Len(d) \in 2..255
      BY <1>1, <2>1, <2>2, <3>1
    <3>3. \A x \in 2..255 : x \in Nat /\ 2 <= x /\ x <= 255
      OBVIOUS
    <3> QED
      BY <3>2, <3>3, Zenon
  <2>4. /\ rx.pos < Len(rxFile) /\ Number(rxFile[rx.pos + 1]) = Len(d)
        /\ r.pos = Offset(saved)[k + 1] /\ Holding(r, d)
    <3>1. PICK x \in Readers : x = rx /\ x.good /\ x.pos = Offset(saved)[k]
      BY <1>2, <1>13 DEF Reading
    <3>2. r = ReadRecord(rxFile, x) /\ Len(saved[k + 1]) <= 255
      BY <1>3, <2>2, <2>3, <3>1, Zenon
    <3>3. /\ x.pos < Len(rxFile) /\ Number(rxFile[x.pos + 1]) = Len(saved[k + 1])
          /\ r.pos = Offset(saved)[k + 1] /\ Holding(r, saved[k + 1])
      BY <1>1, <2>1, <3>1, <3>2, ReadsRecord
    <3> QED
      BY <2>2, <3>1, <3>3
  <2>5. ~Overruns(rx)
    <3>1. \A y \in Nat : 2 <= y => ~(y < 2)
      OBVIOUS
    <3>2. ~(Len(d) < 2)
      BY <2>3, <3>1, Zenon
    <3> QED
      BY <2>4, <3>2, Zenon DEF Overruns
  <2>6. phase' = phase /\ Compared' = Compared
    BY <1>6, <1>7, <2>5
  <2>7. (Fits(Compared)' <=> Fits(Compared)) /\ (Reads(Compared)' <=> Reads(Compared))
    BY <1>6, <2>6 DEF Fits, Reads
  <2>8. b = Line(d) /\ b = Line(saved[k + 1]) /\ k \in Nat
    BY <1>5, <1>9, <2>2, <2>3, <2>4, OnItsLine
  <2>9. PICK e : e = Compared
    OBVIOUS
  <2>10. PICK m \in Packed :
            m = e[k + 1] /\ m = (IF phase = "by_msg" THEN Message ELSE sent[k + 1])
    <3>1. e[k + 1] = (IF phase = "by_msg" THEN Message ELSE sent[k + 1])
      <4>1. k + 1 \in DOMAIN saved
        BY <1>1, <2>1, LenProperties
      <4> QED
        BY <2>9, <4>1 DEF Compared
    <3>2. sent[k + 1] \in Packed
      BY <1>1, <2>1, ElementOfSeq
    <3> QED
      BY <3>1, <3>2, DataPacked
  <2>11. k + 1 \in DOMAIN saved /\ Len(m) \in Nat
    BY <1>1, <2>1, <2>10, LenProperties DEF Packed
  <2>12. ASSUME Reads(Compared)
         PROVE  /\ Holding(t, m) /\ Counts(t, r) /\ Counted(saved', k + 1, cnt')
                /\ phase = "by_txfile" => t \in Readers /\ t.good /\ t.pos = Offset(sent)[k + 1]
    <3>1. Len(m) <= 255
      BY <2>9, <2>10, <2>11, <2>12 DEF Reads
    <3>2. /\ Holding(t, m)
          /\ phase = "by_txfile" => t \in Readers /\ t.good /\ t.pos = Offset(sent)[k + 1]
      <4>1. CASE phase = "by_msg"
        <5>1. m = Message /\ t = [pos |-> 0, good |-> TRUE, size |-> Len(m), buffer |-> m]
          BY <1>1, <1>4, <2>10, <4>1 DEF Reader
        <5>2. /\ t \in Readers /\ t.good /\ t.size = Len(m) /\ t.buffer = m
          BY <2>11, <5>1 DEF Readers
        <5> QED
          BY <2>11, <4>1, <5>2 DEF Holding
      <4>2. CASE phase = "by_txfile"
        <5>1. PICK x \in Readers : x = tx /\ x.good /\ x.pos = Offset(sent)[k]
          BY <1>2, <1>13, <2>12, <4>2 DEF Reading
        <5>2. t = ReadRecord(txFile, x) /\ sent[k + 1] = m /\ Holds(txFile, sent)
          BY <1>1, <1>4, <2>10, <4>2, <5>1 DEF Whole
        <5>3. t.pos = Offset(sent)[k + 1] /\ Holding(t, sent[k + 1])
          BY <1>1, <2>1, <3>1, <5>1, <5>2, ReadsRecord
        <5> QED
          BY <5>2, <5>3 DEF Holding
      <4> QED
        BY <1>1, <4>1, <4>2
    <3>3. Counts(t, r)
      BY <2>4, <3>2 DEF Counts, Holding
    <3>4. Counted(saved, k, cnt)
      BY <1>2, <2>12 DEF Reading
    <3>5. Counted(saved, k + 1, Added(cnt, b, 1))
      BY <2>8, <3>4, HitsNext
    <3>6. cnt' = Added(cnt, b, 1)
      BY <1>6, <2>5, <3>3
    <3> QED
      BY <1>6, <3>2, <3>3, <3>5, <3>6
  <2>13. ASSUME Fits(Compared)
         PROVE  Tallies(saved', Compared', k + 1, cnt', error', bit_err')
    <3>1. Holding(t, m) /\ Counts(t, r)
      BY <2>12, <2>13 DEF Fits
    <3>2. Len(d) = Len(m) + 2
      BY <2>2, <2>9, <2>10, <2>11, <2>13 DEF Fits
    <3>3. PICK B : B = BitsApart(m, d, Len(m))
      OBVIOUS
    <3>4. /\ Differs(t, r) <=> SubSeq(d, 1, Len(d) - 2) # m
          /\ IsFiniteSet(B) /\ BitErrors(t.buffer, r.buffer, t.size) = Cardinality(B)
      <4>1. ComparedAs(t, r, m, d)
        BY <2>4, <3>1, <3>2, Compares
      <4> QED
        BY <3>3, <4>1 DEF ComparedAs
    <3>5. Tallies(saved, e, k, cnt, error, bit_err)
      BY <1>2, <2>9, <2>13 DEF Reading
    <3>6. Tallies(saved, e, k + 1, cnt', error', bit_err')
      <4>1. CASE Differs(t, r)
        <5>1. /\ cnt' = Added(cnt, b, 1) /\ error' = Added(error, b, 1)
              /\ bit_err' = Added(bit_err, b, Cardinality(B))
          BY <1>6, <2>5, <3>1, <3>4, <4>1
        <5>2. /\ SubSeq(saved[k + 1], 1, Len(saved[k + 1]) - 2) # e[k + 1]
              /\ B = BitsApart(e[k + 1], saved[k + 1], Len(e[k + 1])) /\ IsFiniteSet(B)
          BY <2>2, <2>10, <3>3, <3>4, <4>1
        <5>3. Tallies(saved, e, k + 1, Added(cnt, b, 1), Added(error, b, 1),
                      Added(bit_err, b, Cardinality(B)))
          BY <2>8, <3>5, <5>2, TalliesWrongOne
        <5> QED
          BY <5>1, <5>3
      <4>2. CASE ~Differs(t, r)
        <5>1. cnt' = Added(cnt, b, 1) /\ error' = error /\ bit_err' = bit_err
          BY <1>6, <2>5, <3>1, <4>2
        <5>2. SubSeq(saved[k + 1], 1, Len(saved[k + 1]) - 2) = e[k + 1]
          BY <2>2, <2>10, <3>4, <4>2
        <5>3. Tallies(saved, e, k + 1, Added(cnt, b, 1), error, bit_err)
          BY <2>8, <3>5, <5>2, TalliesRightOne
        <5> QED
          BY <5>1, <5>3
      <4> QED
        BY <4>1, <4>2
    <3> QED
      BY <1>6, <2>6, <2>9, <3>6
  <2>14. Reading(k + 1)'
    BY <1>6, <2>4, <2>6, <2>7, <2>12, <2>13 DEF Reading, Holding
  <2> QED
    BY <2>1, <2>6, <2>14
<1> QED
  BY <1>9, <1>11, <1>12, <1>13, <1>10

LEMMA Turns ==
    ASSUME DumpInv, Turn PROVE DumpInv'
<1>1. /\ DumpTypes /\ Whole(txFile, sent) /\ Holds(rxFile, saved)
      /\ Ended(rxFile, Offset(saved)[Len(saved)], begun)
      /\ phase \in {"by_msg", "by_txfile"}
      /\ phase = "by_msg" => tx = [Reader(Message) EXCEPT !.size = Len(Message)]
  BY DEF DumpInv, Turn
<1>2. /\ UNCHANGED <<txFile, rxFile, sent, saved, begun>> /\ phase' \in {phase, "fault"}
      /\ phase = "by_msg" => tx' = tx
  BY DEF Turn, files
<1>3. DumpTypes'
  BY <1>1, <1>2 DEF DumpTypes
<1>4. Whole(txFile, sent)' /\ Holds(rxFile, saved)'
      /\ Ended(rxFile, Offset(saved)[Len(saved)], begun)'
  BY <1>1, <1>2
<1>5. ASSUME begun \subseteq 2..255
      PROVE  phase' = phase /\ \E k \in 0..Len(saved') : Reading(k)'
  <2>1. phase' = phase /\ \E k \in 0..Len(saved) : Reading(k)'
    BY <1>5, ReadsOn
  <2> QED
    BY <1>2, <2>1
<1>6. phase' # "record" /\ phase' # "report"
  BY <1>1, <1>2
<1>7. TalliesRight'
  BY <1>1, <1>2, <1>5, <1>6 DEF TalliesRight
<1> QED
  BY <1>1, <1>2, <1>3, <1>4, <1>5, <1>6, <1>7 DEF DumpInv

LEMMA Reports ==
    ASSUME DumpInv, Report PROVE DumpInv'
<1>1. /\ DumpTypes /\ Whole(txFile, sent) /\ phase \in {"by_msg", "by_txfile"} /\ ~rx.good
      /\ phase = "by_msg" => tx = [Reader(Message) EXCEPT !.size = Len(Message)]
      /\ phase = "by_txfile" => ~tx.good
      /\ begun \subseteq 2..255 => \E k \in 0..Len(saved) : Reading(k)
  BY DEF DumpInv, Report
<1>2. /\ UNCHANGED <<txFile, rxFile, sent, saved, source, begun, tx, rx, cnt, error, bit_err>>
      /\ phase' = "report"
  BY DEF Report, files, maps
<1>3. DumpTypes' /\ Whole(txFile, sent)'
  BY <1>1, <1>2 DEF DumpTypes
<1>4. PICK n \in Nat : n = Len(saved) /\ DOMAIN saved = 1..n
  BY <1>1, LenProperties DEF DumpTypes
<1>5. PICK e : e = Compared
  OBVIOUS
<1>6. \A i \in 1..n : Pairing(i) = e[i]
  <2>1. CASE phase = "by_msg"
    <3>1. tx.good
      BY <1>1, <2>1 DEF Reader
    <3> QED
      BY <1>4, <1>5, <2>1, <3>1 DEF Pairing, Compared
  <2>2. CASE phase = "by_txfile"
    BY <1>1, <1>4, <1>5, <2>2 DEF Pairing, Compared
  <2> QED
    BY <1>1, <2>1, <2>2
<1>7. \A b : Received(b) = Hits(saved, n, b)
  BY <1>4 DEF Received, Hits, Line
<1>8. ASSUME SizesFit
      PROVE  /\ Reads(Compared) /\ \E k \in 0..n : Reading(k)
             /\ DOMAIN cnt = {Bucket(saved[i], Len(saved[i])) : i \in DOMAIN saved}
             /\ \A b \in DOMAIN cnt : cnt[b] = Cardinality(Received(b))
  <2>1. Reads(Compared)
    BY <1>4, <1>5, <1>6, <1>8 DEF SizesFit, Reads
  <2>2. PICK k \in 0..n : Reading(k)
    BY <1>1, <1>4, <1>8 DEF SizesFit
  <2>3. Counted(saved, n, cnt)
    BY <1>1, <1>4, <2>1, <2>2 DEF Reading
  <2>4. Lines(saved, n) = {Bucket(saved[i], Len(saved[i])) : i \in DOMAIN saved}
    BY <1>4 DEF Lines, Line
  <2> QED
    BY <1>7, <2>1, <2>2, <2>3, <2>4 DEF Counted
<1>9. ASSUME Regular
      PROVE  /\ DOMAIN error = {b \in DOMAIN cnt : Wrong(b) # {}}
             /\ DOMAIN bit_err = DOMAIN error
             /\ \A b \in DOMAIN error :
                   /\ error[b] = Cardinality(Wrong(b))
                   /\ bit_err[b] = Cardinality(WrongBits(b))
  <2>1. \A i \in 1..n : source[i] = e[i] /\ Len(saved[i]) = Len(e[i]) + 2
    BY <1>4, <1>6, <1>9 DEF Regular
  <2>2. \A b : Wrong(b) = Misses(saved, e, n, b)
    <3>1. \A b : \A i \in Hits(saved, n, b) : source[i] = e[i]
      BY <2>1 DEF Hits
    <3> QED
      BY <1>7, <3>1 DEF Wrong, Misses
  <2>3. \A b : WrongBits(b) = MissedBits(saved, e, n, b)
    <3>1. \A b : \A i \in Misses(saved, e, n, b) : source[i] = e[i]
      BY <2>1 DEF Misses, Hits
    <3> QED
      BY <2>2, <3>1 DEF WrongBits, MissedBits
  <2>4. PICK k \in 0..n : Reads(Compared) /\ Reading(k)
    BY <1>8, <1>9 DEF Regular
  <2>5. Fits(Compared)
    BY <1>4, <1>5, <2>1, <2>4 DEF Fits
  <2>6. Tallies(saved, e, n, cnt, error, bit_err)
    BY <1>1, <1>4, <1>5, <2>4, <2>5 DEF Reading
  <2> QED
    BY <2>2, <2>3, <2>6 DEF Tallies
<1>10. TalliesRight'
  <2>1. (Regular' <=> Regular) /\ (SizesFit' <=> SizesFit)
    BY <1>2 DEF Regular, SizesFit, Pairing
  <2>2. \A b : Received(b)' = Received(b)
    BY <1>2 DEF Received
  <2>3. \A b : Wrong(b)' = Wrong(b)
    BY <1>2, <2>2 DEF Wrong
  <2>4. \A b : WrongBits(b)' = WrongBits(b)
    BY <1>2, <2>3 DEF WrongBits
  <2> QED
    BY <1>2, <1>8, <1>9, <2>1, <2>2, <2>3, <2>4 DEF TalliesRight
<1> QED
  BY <1>2, <1>3, <1>10 DEF DumpInv

LEMMA DumpKeeps == DumpInv /\ [DumpNext]_dumpVars => DumpInv'
<1> SUFFICES ASSUME DumpInv, [DumpNext]_dumpVars PROVE DumpInv'
  OBVIOUS
<1>1. CASE UNCHANGED dumpVars
  <2>1. UNCHANGED <<txFile, rxFile, sent, saved, source, begun, phase, tx, rx, cnt, error, bit_err>>
    BY <1>1 DEF dumpVars, files, maps
  <2>2. \A k : Reading(k)' <=> Reading(k)
    BY <2>1 DEF Reading, Compared, Fits, Reads
  <2>3. TalliesRight' <=> TalliesRight
    BY <2>1 DEF TalliesRight, Regular, SizesFit, Pairing, Received, Wrong, WrongBits
  <2> QED
    BY <2>1, <2>2, <2>3 DEF DumpInv, DumpTypes
<1>2. ASSUME NEW msg \in Messages, Transfer(msg) PROVE DumpInv'
  BY <1>2, Transfers
<1>3. CASE Restart
  BY <1>3, Restarts
<1>4. ASSUME NEW mode \in {"by_msg", "by_txfile"}, Parse(mode) PROVE DumpInv'
  BY <1>4, Parses
<1>5. CASE Turn
  BY <1>5, Turns
<1>6. CASE Report
  BY <1>6, Reports
<1> QED
  BY <1>1, <1>2, <1>3, <1>4, <1>5, <1>6 DEF DumpNext

\* What is recorded lies in the files record behind record, whatever is received
\* between two starts; and the parser is where a packet saved begins, its maps
\* right for those before it, by the messages it compares them with.
THEOREM DumpSafety == DumpSpec => []DumpInv
BY DumpInvInit, DumpKeeps, PTL DEF DumpSpec

\* The report of a dump counts every packet saved whole, once and under its RSSI,
\* whatever was lost; and, if every packet is compared with the message it was
\* sent as, the packets and the bits that are not as they were sent, for any
\* messages and any packets.
THEOREM TalliesOfThePackets == DumpSpec => []TalliesRight
<1>1. DumpInv => TalliesRight
  BY DEF DumpInv
<1> QED
  BY <1>1, DumpSafety, PTL

\* What is shown of the dump files, and of the packets and settings encoded, is
\* shown of the two enumerated together.
THEOREM DataRuns == DataSpec => SetupSpec /\ DumpSpec
<1>1. DataInit => SetupInit /\ DumpInit
  BY DEF DataInit
<1>2. [DataNext]_<<vars, dumpVars>> => [SetupNext]_vars /\ [DumpNext]_dumpVars
  BY DEF DataNext
<1> QED
  BY <1>1, <1>2, PTL DEF DataSpec, SetupSpec, DumpSpec
=============================================================================

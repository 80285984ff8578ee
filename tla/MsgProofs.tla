----------------------------- MODULE MsgProofs -----------------------------
(***************************************************************************)
(* Messages as bytes, for packets of any length: crc16 computes the        *)
(* remainder of a polynomial division, what encode writes decode reads, a  *)
(* frame with one byte spoilt is refused, and the board gets the settings  *)
(* that Configure was given.                                               *)
(***************************************************************************)
EXTENDS Settings, SequenceTheorems, WellFoundedInduction, TLAPS

Octets == SUBSET (0..7)
Words == SUBSET (0..15)
-----------------------------------------------------------------------------
(* Induction and recursion on the naturals, said of sets and functions.    *)

LEMMA Induct ==
    ASSUME NEW T, 0 \in T, \A n \in Nat : n \in T => n + 1 \in T
    PROVE  Nat \subseteq T
<1> DEFINE R == OpToRel(<, Nat)
           U == Nat \ T
<1>1. IsWellFoundedOn(R, Nat)
  BY NatLessThanWellFounded
<1>2. \A x, y \in Nat : x < y => <<x, y>> \in R
  BY DEF OpToRel
<1> HIDE DEF R
<1> SUFFICES ASSUME U # {} PROVE FALSE
  OBVIOUS
<1>3. PICK x \in U : \A y \in U : <<y, x>> \notin R
  BY <1>1, WFMin
<1>4. x # 0 /\ x - 1 \in Nat /\ x - 1 < x
  OBVIOUS
<1>5. x - 1 \in T
  BY <1>2, <1>3, <1>4
<1>6. (x - 1) + 1 \in T
  BY <1>4, <1>5
<1> QED
  BY <1>6

\* Functions that start with a and go on with the steps F.
Iterations(n, S, a, F) ==
    {f \in [0..n -> S] : f[0] = a /\ \A i \in 1..n : f[i] = F[i][f[i - 1]]}

LEMMA Iterates ==
    ASSUME NEW N \in Nat, NEW S, NEW a \in S, NEW F \in [1..N -> [S -> S]]
    PROVE  \E f : f \in Iterations(N, S, a, F)
<1> DEFINE Runs(n) == \E f : f \in Iterations(n, S, a, F)
           T == {n \in Nat : n <= N => Runs(n)}
<1>1. 0 \in T
  <2>1. [i \in 0..0 |-> a] \in [0..0 -> S] /\ [i \in 0..0 |-> a][0] = a
    OBVIOUS
  <2>2. \A i \in 1..0 : FALSE
    OBVIOUS
  <2>3. Runs(0)
    BY <2>1, <2>2 DEF Iterations
  <2> HIDE DEF Runs
  <2> QED
    BY <2>3
<1>2. ASSUME NEW n \in Nat, n \in T PROVE n + 1 \in T
  <2> SUFFICES ASSUME n + 1 <= N PROVE Runs(n + 1)
    OBVIOUS
  <2>1. n <= N /\ n \in 0..n /\ n + 1 \in 1..N
    OBVIOUS
  <2>2. PICK f \in [0..n -> S] : f[0] = a /\ \A i \in 1..n : f[i] = F[i][f[i - 1]]
    BY <1>2, <2>1 DEF Iterations
  <2> DEFINE g == [i \in 0..(n + 1) |-> IF i = n + 1 THEN F[n + 1][f[n]] ELSE f[i]]
  <2>3. F[n + 1][f[n]] \in S
    BY <2>1
  <2>4. g \in [0..(n + 1) -> S] /\ g[0] = a
    BY <2>2, <2>3
  <2>5. ASSUME NEW i \in 1..(n + 1) PROVE g[i] = F[i][g[i - 1]]
    <3>1. i - 1 \in 0..n /\ i \in 0..(n + 1) /\ i - 1 # n + 1
      OBVIOUS
    <3>2. g[i - 1] = f[i - 1]
      BY <3>1
    <3>3. CASE i = n + 1
      BY <3>1, <3>2, <3>3
    <3>4. CASE i # n + 1
      <4>1. i \in 1..n /\ g[i] = f[i]
        BY <3>1, <3>4
      <4> QED
        BY <2>2, <3>2, <4>1
    <3> QED
      BY <3>3, <3>4
  <2> QED
    BY <2>4, <2>5 DEF Iterations
<1> HIDE DEF T
<1>3. Nat \subseteq T
  BY <1>1, <1>2, Induct
<1> QED
  BY <1>3 DEF T
-----------------------------------------------------------------------------
(* The shift register.                                                     *)

LEMMA XorIn == \A a, b, x : x \in Xor(a, b) <=> ~(x \in a <=> x \in b)
BY DEF Xor

LEMMA XorWords == \A a, b \in Words : Xor(a, b) \in Words
BY DEF Xor, Words

LEMMA OctetsAreWords == Octets \subseteq Words
BY DEF Octets, Words

\* Each bit moves up by one, the highest out, and bits 15, 2 and 0 change if it
\* was set.
LEMMA StepBits ==
    ASSUME NEW w \in Words
    PROVE  /\ ShiftStep(w) \in Words
           /\ \A e \in 0..15 :
                 e \in ShiftStep(w) <=>
                     ~((e # 0 /\ e - 1 \in w) <=> (15 \in w /\ e \in Poly))
<1>1. ShiftLeft(w) \in Words /\ Poly \in Words
  BY DEF ShiftLeft, Words, Poly
<1>2. \A e \in 0..15 : e \in ShiftLeft(w) <=> e # 0 /\ e - 1 \in w
  <2> SUFFICES ASSUME NEW e \in 0..15
               PROVE  e \in ShiftLeft(w) <=> e # 0 /\ e - 1 \in w
    OBVIOUS
  <2>1. ASSUME e \in ShiftLeft(w) PROVE e # 0 /\ e - 1 \in w
    BY <2>1 DEF ShiftLeft, Words
  <2>2. ASSUME e # 0, e - 1 \in w PROVE e \in ShiftLeft(w)
    <3>1. e - 1 \in w \ {15} /\ (e - 1) + 1 = e
      BY <2>2
    <3> QED
      BY <3>1 DEF ShiftLeft
  <2> QED
    BY <2>1, <2>2
<1>3. CASE 15 \in w
  <2>1. ShiftStep(w) = Xor(ShiftLeft(w), Poly)
    BY <1>3 DEF ShiftStep
  <2> QED
    BY <1>1, <1>2, <1>3, <2>1, XorWords, XorIn
<1>4. CASE 15 \notin w
  <2>1. ShiftStep(w) = ShiftLeft(w)
    BY <1>4 DEF ShiftStep
  <2> QED
    BY <1>1, <1>2, <1>4, <2>1
<1> QED
  BY <1>3, <1>4

\* Bit 0 tells whether the highest bit went out, so that no two words become one.
LEMMA StepInjective ==
    ASSUME NEW u \in Words, NEW v \in Words, ShiftStep(u) = ShiftStep(v)
    PROVE  u = v
<1>1. 15 \in u <=> 15 \in v
  <2>1. 0 \in Poly /\ 0 \in 0..15
    BY DEF Poly
  <2> QED
    BY <2>1, StepBits
<1>2. ASSUME NEW b \in 0..14 PROVE b \in u <=> b \in v
  <2>1. b + 1 \in 0..15 /\ b + 1 # 0 /\ (b + 1) - 1 = b
    OBVIOUS
  <2> QED
    BY <1>1, <2>1, StepBits
<1>3. \A b \in 0..15 : b \in 0..14 \/ b = 15
  OBVIOUS
<1> QED
  <2>1. \A b \in 0..15 : b \in u <=> b \in v
    BY <1>1, <1>2, <1>3
  <2> QED
    BY <2>1 DEF Words
-----------------------------------------------------------------------------
(* crc16, its two loops apart.                                             *)

Shifting(x, n) ==
    LET turn[i \in 0..n] == IF i = 0 THEN x ELSE ShiftStep(turn[i - 1]) IN turn

After(data) ==
    LET after[d \in 0..Len(data)] ==
          IF d = 0 THEN {}
          ELSE Shifting(Xor(after[d - 1], data[d]), Shifts(d, Len(data)))
                   [Shifts(d, Len(data))]
    IN  after

LEMMA CrcIsAfter == \A data : crc16(data) = After(data)[Len(data)]
BY DEF crc16, After, Shifting

LEMMA ShiftingIs ==
    ASSUME NEW x \in Words, NEW n \in Nat
    PROVE  /\ Shifting(x, n) \in [0..n -> Words]
           /\ Shifting(x, n)[0] = x
           /\ \A i \in 1..n : Shifting(x, n)[i] = ShiftStep(Shifting(x, n)[i - 1])
<1> DEFINE F == [i \in 1..n |-> [c \in Words |-> ShiftStep(c)]]
           Is(f) == f = [i \in 0..n |-> IF i = 0 THEN x ELSE ShiftStep(f[i - 1])]
<1>1. F \in [1..n -> [Words -> Words]]
  BY StepBits
<1>2. PICK f \in [0..n -> Words] : f[0] = x /\ \A i \in 1..n : f[i] = F[i][f[i - 1]]
  <2> HIDE DEF F
  <2>1. \E f : f \in Iterations(n, Words, x, F)
    BY <1>1, Iterates
  <2> QED
    BY <2>1 DEF Iterations
<1>3. Is(f)
  <2>1. ASSUME NEW i \in 0..n
        PROVE  f[i] = IF i = 0 THEN x ELSE ShiftStep(f[i - 1])
    <3>1. CASE i # 0
      <4>1. i \in 1..n /\ i - 1 \in 0..n
        BY <3>1
      <4>2. f[i - 1] \in Words
        BY <4>1
      <4> QED
        BY <1>2, <3>1, <4>1, <4>2
    <3> QED
      BY <1>2, <3>1
  <2>2. f = [i \in 0..n |-> f[i]]
    OBVIOUS
  <2> QED
    BY <2>1, <2>2
<1> DEFINE g == Shifting(x, n)
<1>4. Is(g)
  <2>1. g = CHOOSE h : Is(h)
    BY DEF Shifting
  <2> HIDE DEF Is, g
  <2> QED
    BY <1>3, <2>1
<1> HIDE DEF g
<1>5. g[0] = x /\ \A i \in 1..n : g[i] = ShiftStep(g[i - 1])
  BY <1>4
<1>6. \A i \in 0..n : g[i] \in Words
  <2> DEFINE T == {i \in Nat : i \in 0..n => g[i] \in Words}
  <2>1. 0 \in T
    BY <1>5
  <2>2. ASSUME NEW i \in Nat, i \in T PROVE i + 1 \in T
    <3> SUFFICES ASSUME i + 1 \in 0..n PROVE g[i + 1] \in Words
      OBVIOUS
    <3>1. i \in 0..n /\ i + 1 \in 1..n /\ (i + 1) - 1 = i
      OBVIOUS
    <3>2. g[i] \in Words /\ g[i + 1] = ShiftStep(g[i])
      BY <1>5, <2>2, <3>1
    <3> QED
      BY <3>2, StepBits
  <2> HIDE DEF T
  <2>3. Nat \subseteq T
    BY <2>1, <2>2, Induct
  <2> QED
    BY <2>3 DEF T
<1>7. g \in [0..n -> Words]
  BY <1>4, <1>6
<1> QED
  BY <1>5, <1>7 DEF g

Turned(x, k) == Shifting(x, k)[k]

LEMMA TurnedWords == \A x \in Words, k \in Nat : Turned(x, k) \in Words
<1> SUFFICES ASSUME NEW x \in Words, NEW k \in Nat PROVE Turned(x, k) \in Words
  OBVIOUS
<1>1. k \in 0..k
  OBVIOUS
<1> QED
  BY <1>1, ShiftingIs DEF Turned

LEMMA ShiftsNat == \A d, n : Shifts(d, n) \in Nat
BY DEF Shifts

LEMMA AfterIs ==
    ASSUME NEW p \in Seq(Octets)
    PROVE  /\ After(p) \in [0..Len(p) -> Words]
           /\ After(p)[0] = {}
           /\ \A d \in 1..Len(p) :
                 After(p)[d] = Turned(Xor(After(p)[d - 1], p[d]), Shifts(d, Len(p)))
<1> DEFINE n == Len(p)
           F == [d \in 1..n |-> [c \in Words |-> Turned(Xor(c, p[d]), Shifts(d, n))]]
           Is(f) == f = [d \in 0..n |->
                           IF d = 0 THEN {}
                           ELSE Shifting(Xor(f[d - 1], p[d]), Shifts(d, n))[Shifts(d, n)]]
<1>1. n \in Nat /\ \A d \in 1..n : p[d] \in Words
  BY LenProperties, ElementOfSeq, OctetsAreWords
<1>2. \A d \in 1..n, c \in Words : Turned(Xor(c, p[d]), Shifts(d, n)) \in Words
  BY <1>1, XorWords, TurnedWords, ShiftsNat
<1> HIDE DEF n
<1>3. PICK f \in [0..n -> Words] :
          f[0] = {} /\ \A d \in 1..n : f[d] = Turned(Xor(f[d - 1], p[d]), Shifts(d, n))
  <2>1. F \in [1..n -> [Words -> Words]]
    BY <1>2
  <2>2. {} \in Words
    BY DEF Words
  <2> HIDE DEF F
  <2>3. \E f : f \in Iterations(n, Words, {}, F)
    BY <1>1, <2>1, <2>2, Iterates
  <2>4. PICK f \in [0..n -> Words] : f[0] = {} /\ \A d \in 1..n : f[d] = F[d][f[d - 1]]
    BY <2>3 DEF Iterations
  <2>5. ASSUME NEW d \in 1..n PROVE f[d] = Turned(Xor(f[d - 1], p[d]), Shifts(d, n))
    <3>1. d - 1 \in 0..n
      BY <1>1
    <3>2. f[d - 1] \in Words
      BY <3>1
    <3> QED
      BY <2>4, <3>2 DEF F
  <2> QED
    BY <2>4, <2>5
<1>4. Is(f)
  <2>1. ASSUME NEW d \in 0..n
        PROVE  f[d] = IF d = 0 THEN {}
                      ELSE Shifting(Xor(f[d - 1], p[d]), Shifts(d, n))[Shifts(d, n)]
    <3>1. CASE d # 0
      <4>1. d \in 1..n
        BY <3>1
      <4> QED
        BY <1>3, <3>1, <4>1 DEF Turned
    <3> QED
      BY <1>3, <3>1
  <2>2. f = [d \in 0..n |-> f[d]]
    OBVIOUS
  <2> QED
    BY <2>1, <2>2
<1> DEFINE g == After(p)
<1>5. Is(g)
  <2>1. g = CHOOSE h : Is(h)
    BY DEF After, n
  <2> HIDE DEF Is, g
  <2> QED
    BY <1>4, <2>1
<1> HIDE DEF g
<1>6. g[0] = {}
  BY <1>1, <1>5
<1>7. \A d \in 1..n : g[d] = Turned(Xor(g[d - 1], p[d]), Shifts(d, n))
  <2> SUFFICES ASSUME NEW d \in 1..n
               PROVE  g[d] = Turned(Xor(g[d - 1], p[d]), Shifts(d, n))
    OBVIOUS
  <2>1. d \in 0..n /\ d # 0
    OBVIOUS
  <2> QED
    BY <1>5, <2>1 DEF Turned
<1>8. \A d \in 0..n : g[d] \in Words
  <2> DEFINE T == {d \in Nat : d \in 0..n => g[d] \in Words}
  <2>1. 0 \in T
    BY <1>6 DEF Words
  <2>2. ASSUME NEW d \in Nat, d \in T PROVE d + 1 \in T
    <3> SUFFICES ASSUME d + 1 \in 0..n PROVE g[d + 1] \in Words
      OBVIOUS
    <3>1. d \in 0..n /\ d + 1 \in 1..n /\ (d + 1) - 1 = d
      BY <1>1
    <3>2. g[d] \in Words /\ g[d + 1] = Turned(Xor(g[d], p[d + 1]), Shifts(d + 1, n))
      BY <1>7, <2>2, <3>1
    <3> QED
      BY <1>2, <3>1, <3>2
  <2> HIDE DEF T
  <2>3. Nat \subseteq T
    BY <2>1, <2>2, Induct
  <2> QED
    BY <2>3 DEF T
<1>9. g \in [0..n -> Words]
  <2>1. g = [d \in 0..n |-> g[d]]
    BY <1>5
  <2> QED
    BY <1>8, <2>1
<1> QED
  BY <1>6, <1>7, <1>9 DEF g, n

LEMMA CrcWord == \A p \in Seq(Octets) : crc16(p) \in Words
<1> SUFFICES ASSUME NEW p \in Seq(Octets) PROVE crc16(p) \in Words
  OBVIOUS
<1>1. Len(p) \in 0..Len(p)
  BY LenProperties
<1> QED
  BY <1>1, AfterIs, CrcIsAfter
-----------------------------------------------------------------------------
(* crc16 divides.  The register, at x^t, and the bytes still to come are    *)
(* the polynomial with its exponents above t + 15 taken out.                *)

\* One step of the division, on exponent e.
Reduce(g, e) == IF e \in g THEN Xor(g, {e, e - 1, e - 14, e - 16}) ELSE g

LEMMA ReduceNat ==
    ASSUME NEW g \in SUBSET Nat, NEW e \in Nat, e >= 16
    PROVE  Reduce(g, e) \in SUBSET Nat
<1>1. {e, e - 1, e - 14, e - 16} \in SUBSET Nat
  OBVIOUS
<1> QED
  BY <1>1 DEF Reduce, Xor

Simulates(c, t, rest, g) ==
    \A x \in Nat : x \in g <=> ~((x >= t /\ x - t \in c) <=> x \in rest)

\* A shift and a step of the division keep the register in its place.
LEMMA ShiftReduces ==
    ASSUME NEW c \in Words, NEW t \in Nat, t >= 1,
           NEW rest \in SUBSET Nat, \A x \in rest : x < t + 15,
           NEW g \in SUBSET Nat, Simulates(c, t, rest, g)
    PROVE  Simulates(ShiftStep(c), t - 1, rest, Reduce(g, t + 15))
<1> SUFFICES ASSUME NEW x \in Nat
             PROVE  x \in Reduce(g, t + 15) <=>
                    ~((x >= t - 1 /\ x - (t - 1) \in ShiftStep(c)) <=> x \in rest)
  BY DEF Simulates
<1>1. t + 15 \in g <=> 15 \in c
  <2>1. t + 15 \in Nat /\ t + 15 >= t /\ (t + 15) - t = 15 /\ t + 15 \notin rest
    OBVIOUS
  <2> QED
    BY <2>1 DEF Simulates
<1>2. x \in Reduce(g, t + 15) <=>
          ~(x \in g <=> (15 \in c /\ x \in {t + 15, t + 14, t + 1, t - 1}))
  <2>1. (t + 15) - 1 = t + 14 /\ (t + 15) - 14 = t + 1 /\ (t + 15) - 16 = t - 1
    OBVIOUS
  <2>2. Reduce(g, t + 15)
            = IF 15 \in c THEN Xor(g, {t + 15, t + 14, t + 1, t - 1}) ELSE g
    BY <1>1, <2>1 DEF Reduce
  <2> QED
    BY <2>2, XorIn
<1>3. x \in g <=> ~((x >= t /\ x - t \in c) <=> x \in rest)
  BY DEF Simulates
<1>4. (x >= t - 1 /\ x - (t - 1) \in ShiftStep(c)) <=>
          ~((x >= t /\ x - t \in c) <=>
                (15 \in c /\ x \in {t + 15, t + 14, t + 1, t - 1}))
  <2>1. CASE x < t - 1 \/ x > t + 15
    <3>1. ~(x >= t /\ x - t \in c)
      BY <2>1 DEF Words
    <3>2. ~(x >= t - 1 /\ x - (t - 1) \in ShiftStep(c))
      BY <2>1, StepBits DEF Words
    <3>3. x \notin {t + 15, t + 14, t + 1, t - 1}
      BY <2>1
    <3> QED
      BY <3>1, <3>2, <3>3
  <2>2. CASE x = t + 15
    <3>1. x >= t /\ x - t = 15 /\ x - (t - 1) = 16
      BY <2>2
    <3>2. x - (t - 1) \notin ShiftStep(c)
      BY <3>1, StepBits DEF Words
    <3> QED
      BY <2>2, <3>1, <3>2
  <2>3. CASE x >= t - 1 /\ x <= t + 14
    <3>1. PICK y \in 0..15 : y = x - (t - 1)
      BY <2>3
    <3>2. y \in ShiftStep(c) <=> ~((y # 0 /\ y - 1 \in c) <=> (15 \in c /\ y \in Poly))
      BY StepBits
    <3>3. y - 1 = x - t /\ (y # 0 <=> x >= t)
      BY <2>3, <3>1
    <3>4. y \in Poly <=> x \in {t + 15, t + 14, t + 1, t - 1}
      BY <2>3, <3>1 DEF Poly
    <3> QED
      BY <2>3, <3>1, <3>2, <3>3, <3>4
  <2> QED
    BY <2>1, <2>2, <2>3
<1> QED
  BY <1>2, <1>3, <1>4, Zenon

\* Divisions: what is left of a polynomial once its exponents above e are out.
Divisions(top) ==
    {B \in [15..top -> SUBSET Nat] : \A e \in 16..top : B[e - 1] = Reduce(B[e], e)}

LEMMA TurnReduces ==
    ASSUME NEW x \in Words, NEW k \in Nat, NEW t \in Nat, k <= t,
           NEW rest \in SUBSET Nat, \A y \in rest : y < t - k + 16,
           NEW top \in Nat, t + 15 <= top, NEW B \in Divisions(top),
           Simulates(x, t, rest, B[t + 15])
    PROVE  Simulates(Turned(x, k), t - k, rest, B[t - k + 15])
<1> DEFINE T == {i \in Nat : i \in 0..k =>
                    Simulates(Shifting(x, k)[i], t - i, rest, B[t - i + 15])}
<1>1. 0 \in T
  <2>1. t - 0 = t /\ Shifting(x, k)[0] = x
    BY ShiftingIs
  <2> QED
    BY <2>1
<1>2. ASSUME NEW i \in Nat, i \in T PROVE i + 1 \in T
  <2> SUFFICES ASSUME i + 1 \in 0..k
               PROVE  Simulates(Shifting(x, k)[i + 1], t - (i + 1), rest, B[t - (i + 1) + 15])
    OBVIOUS
  <2>1. i \in 0..k /\ i + 1 \in 1..k /\ (i + 1) - 1 = i
    OBVIOUS
  <2>2. PICK s \in Nat : s = t - i
    OBVIOUS
  <2>3. s >= 1 /\ s + 15 \in 16..top /\ t - (i + 1) = s - 1 /\ s - 1 + 15 = (s + 15) - 1
    BY <2>2
  <2>4. PICK c \in Words : c = Shifting(x, k)[i]
    BY <2>1, ShiftingIs
  <2>5. Shifting(x, k)[i + 1] = ShiftStep(c)
    <3>1. Shifting(x, k)[i + 1] = ShiftStep(Shifting(x, k)[(i + 1) - 1])
      BY <2>1, ShiftingIs, Zenon
    <3> QED
      BY <2>1, <2>4, <3>1, Zenon
  <2>6. Simulates(c, s, rest, B[s + 15])
    BY <1>2, <2>1, <2>2, <2>4
  <2>7. B[s + 15] \in SUBSET Nat /\ B[(s + 15) - 1] = Reduce(B[s + 15], s + 15)
    BY <2>3 DEF Divisions
  <2>8. \A y \in rest : y < s + 15
    BY <2>2
  <2>9. Simulates(ShiftStep(c), s - 1, rest, Reduce(B[s + 15], s + 15))
    BY <2>3, <2>6, <2>7, <2>8, ShiftReduces
  <2> QED
    BY <2>3, <2>5, <2>7, <2>9
<1> HIDE DEF T
<1>3. Nat \subseteq T
  BY <1>1, <1>2, Induct
<1>4. k \in T /\ k \in 0..k
  BY <1>3
<1> QED
  BY <1>4 DEF T, Turned

\* The exponents of a packet, byte by byte.
LEMMA PolynomialBits ==
    ASSUME NEW p \in Seq(Octets)
    PROVE  /\ Polynomial(p) \in SUBSET (16..(8 * Len(p) + 15))
           /\ \A d \in 1..Len(p), b \in 0..7 :
                 8 * (Len(p) - d) + b + 16 \in Polynomial(p) <=> b \in p[d]
<1> DEFINE n == Len(p)
<1>1. n \in Nat /\ DOMAIN p = 1..n /\ \A d \in 1..n : p[d] \in Octets
  BY LenProperties, ElementOfSeq
<1>2. \A x : x \in Polynomial(p) <=>
          \E d \in 1..n : \E b \in p[d] : x = 8 * (n - d) + b + 16
  BY <1>1 DEF Polynomial
<1> HIDE DEF n
<1>3. ASSUME NEW x \in Polynomial(p) PROVE x \in 16..(8 * n + 15)
  <2>1. PICK d \in 1..n : \E b \in p[d] : x = 8 * (n - d) + b + 16
    BY <1>2
  <2>2. PICK b \in p[d] : x = 8 * (n - d) + b + 16
    BY <2>1
  <2>3. b \in 0..7
    BY <1>1 DEF Octets
  <2> QED
    BY <1>1, <2>2, <2>3
<1>4. ASSUME NEW d \in 1..n, NEW b \in 0..7, 8 * (n - d) + b + 16 \in Polynomial(p)
      PROVE  b \in p[d]
  <2>1. PICK d2 \in 1..n : \E b2 \in p[d2] : 8 * (n - d) + b + 16 = 8 * (n - d2) + b2 + 16
    BY <1>2, <1>4
  <2>2. PICK b2 \in p[d2] : 8 * (n - d) + b + 16 = 8 * (n - d2) + b2 + 16
    BY <2>1
  <2>3. b2 \in 0..7
    BY <1>1 DEF Octets
  <2>4. d = d2 /\ b = b2
    BY <1>1, <2>2, <2>3
  <2> QED
    BY <2>4
<1>5. \A d \in 1..n, b \in 0..7 : b \in p[d] => 8 * (n - d) + b + 16 \in Polynomial(p)
  BY <1>2
<1> QED
  BY <1>3, <1>4, <1>5 DEF n

\* The exponents of the bytes from byte d + 1 on.
Rest(p, d) == {e \in Polynomial(p) : e < 8 * (Len(p) - d) + 16}

\* To take byte d + 1 into the register is to take it from the rest.
LEMMA ByteJoins ==
    ASSUME NEW p \in Seq(Octets), NEW d \in 0..(Len(p) - 1), NEW c \in Words,
           NEW g \in SUBSET Nat,
           Simulates(c, 8 * (Len(p) - d) + 8, Rest(p, d), g)
    PROVE  Simulates(Xor(c, p[d + 1]), 8 * (Len(p) - d) + 8, Rest(p, d + 1), g)
<1> DEFINE f == Polynomial(p)
<1>1. PICK n \in Nat : n = Len(p)
  BY LenProperties
<1>2. PICK t \in Nat : t = 8 * (n - d) + 8
  BY <1>1
<1>3. d + 1 \in 1..n /\ p[d + 1] \in Octets
  BY <1>1, ElementOfSeq
<1>4. 8 * (n - (d + 1)) + 16 = t /\ 8 * (n - d) + 16 = t + 8
  BY <1>1, <1>2
<1>5. \A b \in 0..7 : t + b \in f <=> b \in p[d + 1]
  <2>1. ASSUME NEW b \in 0..7 PROVE t + b \in f <=> b \in p[d + 1]
    <3>1. 8 * (n - (d + 1)) + b + 16 = t + b
      BY <1>4
    <3>2. 8 * (n - (d + 1)) + b + 16 \in f <=> b \in p[d + 1]
      BY <1>1, <1>3, PolynomialBits
    <3> QED
      BY <3>1, <3>2
  <2> QED
    BY <2>1
<1>6. f \in SUBSET Nat
  BY <1>1, PolynomialBits
<1> HIDE DEF f
<1>7. /\ Rest(p, d) = {e \in f : e < t + 8}
      /\ Rest(p, d + 1) = {e \in f : e < t}
  BY <1>1, <1>4 DEF Rest, f
<1>8. ASSUME NEW x \in Nat
      PROVE  x \in Rest(p, d) <=>
             ~((x >= t /\ x - t \in p[d + 1]) <=> x \in Rest(p, d + 1))
  <2>1. CASE x < t \/ x >= t + 8
    <3>1. x - t \notin 0..7
      BY <2>1
    <3>2. x - t \notin p[d + 1]
      BY <1>3, <3>1 DEF Octets
    <3> QED
      BY <1>7, <2>1, <3>2
  <2>2. CASE x >= t /\ x < t + 8
    <3>1. PICK b \in 0..7 : x = t + b
      BY <2>2
    <3>2. x - t = b
      BY <3>1
    <3>3. x \in f <=> x - t \in p[d + 1]
      BY <1>5, <3>1, <3>2
    <3>4. (x \in Rest(p, d) <=> x \in f) /\ x \notin Rest(p, d + 1)
      BY <1>7, <2>2
    <3> QED
      BY <2>2, <3>3, <3>4
  <2> QED
    BY <2>1, <2>2
<1>9. Simulates(c, t, Rest(p, d), g)
  BY <1>1, <1>2
<1>10. Simulates(Xor(c, p[d + 1]), t, Rest(p, d + 1), g)
  <2> SUFFICES ASSUME NEW x \in Nat
               PROVE  x \in g <=>
                      ~((x >= t /\ x - t \in Xor(c, p[d + 1])) <=> x \in Rest(p, d + 1))
    BY DEF Simulates
  <2>1. x \in g <=> ~((x >= t /\ x - t \in c) <=> x \in Rest(p, d))
    BY <1>9 DEF Simulates
  <2>2. x - t \in Xor(c, p[d + 1]) <=> ~(x - t \in c <=> x - t \in p[d + 1])
    BY XorIn
  <2> QED
    BY <1>8, <2>1, <2>2, Zenon
<1> QED
  BY <1>1, <1>2, <1>10

\* The register after each byte.
LEMMA RegisterSimulates ==
    ASSUME NEW p \in Seq(Octets), NEW B \in Divisions(8 * Len(p) + 23),
           B[8 * Len(p) + 23] = Polynomial(p), Len(p) # 0
    PROVE  Simulates(crc16(p), 0, {}, B[15])
<1>1. PICK n \in Nat : n = Len(p)
  BY LenProperties
<1>2. PICK top \in Nat : top = 8 * n + 23
  BY <1>1
<1>3. /\ After(p) \in [0..n -> Words] /\ After(p)[0] = {}
      /\ \A d \in 1..n : After(p)[d] = Turned(Xor(After(p)[d - 1], p[d]), Shifts(d, n))
  BY <1>1, AfterIs
<1>4. \A d \in 1..n : p[d] \in Words
  BY <1>1, ElementOfSeq, OctetsAreWords
<1>5. B \in Divisions(top) /\ B[top] = Polynomial(p) /\ n # 0
  BY <1>1, <1>2
<1>6. \A d : Rest(p, d) \in SUBSET Nat /\ \A y \in Rest(p, d) : y < 8 * (n - d) + 16
  <2>1. Polynomial(p) \in SUBSET Nat
    BY <1>1, PolynomialBits
  <2> QED
    BY <1>1, <2>1 DEF Rest
<1> DEFINE T == {d \in Nat : d < n =>
                    Simulates(After(p)[d], 8 * (n - d) + 8, Rest(p, d), B[8 * (n - d) + 23])}
\* One turn, from the register after byte d.
<1>7. ASSUME NEW d \in 0..(n - 1), NEW k \in Nat, k <= 8 * (n - d) + 8, d \in T,
             Shifts(d + 1, n) = k,
             k <= 16
      PROVE  Simulates(After(p)[d + 1], 8 * (n - d) + 8 - k, Rest(p, d + 1),
                       B[8 * (n - d) + 8 - k + 15])
  <2>1. PICK t \in Nat : t = 8 * (n - d) + 8
    OBVIOUS
  <2>2. PICK c \in Words : c = After(p)[d]
    BY <1>3
  <2>3. d + 1 \in 1..n /\ (d + 1) - 1 = d
    OBVIOUS
  <2>4. Xor(c, p[d + 1]) \in Words
    BY <1>4, <2>3, XorWords
  <2>5. t + 15 = 8 * (n - d) + 23 /\ t + 15 \in 15..top
    BY <1>2, <2>1
  <2>6. B[t + 15] \in SUBSET Nat
    BY <1>5, <2>5 DEF Divisions
  <2>7. Simulates(c, t, Rest(p, d), B[t + 15])
    BY <1>7, <2>1, <2>2, <2>5
  <2>8. Simulates(Xor(c, p[d + 1]), t, Rest(p, d + 1), B[t + 15])
    BY <1>1, <2>1, <2>6, <2>7, ByteJoins
  <2>9. \A y \in Rest(p, d + 1) : y < t - k + 16
    <3>1. 8 * (n - (d + 1)) + 16 = t
      BY <2>1
    <3> QED
      BY <1>6, <1>7, <3>1
  <2>10. t + 15 <= top /\ k <= t /\ Rest(p, d + 1) \in SUBSET Nat
    BY <1>6, <1>7, <2>1, <2>5
  <2>11. Simulates(Turned(Xor(c, p[d + 1]), k), t - k, Rest(p, d + 1), B[t - k + 15])
    BY <1>5, <2>4, <2>8, <2>9, <2>10, TurnReduces
  <2>12. After(p)[d + 1] = Turned(Xor(c, p[d + 1]), k)
    BY <1>3, <1>7, <2>2, <2>3
  <2> QED
    BY <2>1, <2>11, <2>12
<1>8. 0 \in T
  <2>1. Rest(p, 0) = Polynomial(p)
    <3>1. \A e \in Polynomial(p) : e < 8 * (n - 0) + 16
      BY <1>1, PolynomialBits
    <3> QED
      BY <1>1, <3>1 DEF Rest
  <2>2. 8 * (n - 0) + 23 = top
    BY <1>2
  <2>3. Simulates({}, 8 * (n - 0) + 8, Polynomial(p), Polynomial(p))
    BY DEF Simulates
  <2> QED
    BY <1>3, <1>5, <2>1, <2>2, <2>3
<1>9. ASSUME NEW d \in Nat, d \in T PROVE d + 1 \in T
  <2> SUFFICES ASSUME d + 1 < n
               PROVE  Simulates(After(p)[d + 1], 8 * (n - (d + 1)) + 8, Rest(p, d + 1),
                                B[8 * (n - (d + 1)) + 23])
    OBVIOUS
  <2>1. /\ d \in 0..(n - 1) /\ Shifts(d + 1, n) = 8 /\ 8 <= 8 * (n - d) + 8
        /\ 8 * (n - d) + 8 - 8 = 8 * (n - (d + 1)) + 8
        /\ 8 * (n - d) + 8 - 8 + 15 = 8 * (n - (d + 1)) + 23
    BY DEF Shifts
  <2> HIDE DEF T
  <2> QED
    BY <1>7, <1>9, <2>1
<1> HIDE DEF T
<1>10. Nat \subseteq T
  BY <1>8, <1>9, Induct
<1>11. PICK d \in 0..(n - 1) : d + 1 = n
  <2>1. n - 1 \in 0..(n - 1) /\ (n - 1) + 1 = n
    BY <1>5
  <2> QED
    BY <2>1
<1>12. /\ Shifts(d + 1, n) = 16 /\ 16 <= 8 * (n - d) + 8
       /\ 8 * (n - d) + 8 - 16 = 0 /\ 8 * (n - d) + 8 - 16 + 15 = 15
  BY <1>11 DEF Shifts
<1>13. Simulates(After(p)[n], 0, Rest(p, n), B[15])
  <2>1. d \in T /\ 16 \in Nat /\ 16 <= 16
    BY <1>10
  <2>2. Simulates(After(p)[d + 1], 8 * (n - d) + 8 - 16, Rest(p, d + 1),
                  B[8 * (n - d) + 8 - 16 + 15])
    BY <1>7, <1>12, <2>1
  <2> QED
    BY <1>11, <1>12, <2>2
<1>14. Rest(p, n) = {}
  <2>1. \A e \in Polynomial(p) : ~(e < 8 * (n - n) + 16)
    BY <1>1, PolynomialBits
  <2> QED
    BY <1>1, <2>1 DEF Rest
<1> QED
  BY <1>1, <1>13, <1>14, CrcIsAfter

\* The division of Remainder, and above it the polynomial as it was.
LEMMA RemainderIs ==
    ASSUME NEW n \in Nat, NEW f \in SUBSET (16..(8 * n + 15))
    PROVE  /\ Remainder(f, 8 * n + 15) \in SUBSET Nat
           /\ n = 0 => Remainder(f, 8 * n + 15) = f
           /\ \E B \in Divisions(8 * n + 23) :
                 B[8 * n + 23] = f /\ B[15] = Remainder(f, 8 * n + 15)
<1>1. PICK D \in Nat : D = 8 * n + 15
  OBVIOUS
<1>2. D >= 15 /\ f \in SUBSET Nat /\ \A e \in f : e <= D
  BY <1>1
<1> DEFINE Next15(g, e) ==
             IF e + 1 \in g THEN Xor(g, {e + 1, e, e - 13, e - 15}) ELSE g
           Is(h) == h = [e \in 15..D |-> IF e = D THEN f ELSE Next15(h[e + 1], e)]
<1>3. \A g \in SUBSET Nat, e \in 15..(D - 1) : Next15(g, e) = Reduce(g, e + 1)
  <2> SUFFICES ASSUME NEW g \in SUBSET Nat, NEW e \in 15..(D - 1)
               PROVE  Next15(g, e) = Reduce(g, e + 1)
    OBVIOUS
  <2>1. (e + 1) - 1 = e /\ (e + 1) - 14 = e - 13 /\ (e + 1) - 16 = e - 15
    OBVIOUS
  <2> QED
    BY <2>1 DEF Reduce
<1> DEFINE F == [i \in 1..(D - 15) |-> [g \in SUBSET Nat |-> Reduce(g, D - i + 1)]]
<1>4. F \in [1..(D - 15) -> [SUBSET Nat -> SUBSET Nat]]
  <2>1. \A i \in 1..(D - 15) : D - i + 1 \in Nat /\ D - i + 1 >= 16
    BY <1>2
  <2> QED
    BY <2>1, ReduceNat
<1>5. PICK r \in [0..(D - 15) -> SUBSET Nat] :
          r[0] = f /\ \A i \in 1..(D - 15) : r[i] = F[i][r[i - 1]]
  <2>1. D - 15 \in Nat
    BY <1>2
  <2> HIDE DEF F
  <2>2. \E r : r \in Iterations(D - 15, SUBSET Nat, f, F)
    BY <1>2, <1>4, <2>1, Iterates
  <2> QED
    BY <2>2 DEF Iterations
<1> DEFINE h == [e \in 15..D |-> r[D - e]]
<1>6. Is(h)
  <2>1. ASSUME NEW e \in 15..D
        PROVE  r[D - e] = IF e = D THEN f ELSE Next15(h[e + 1], e)
    <3>1. CASE e = D
      <4>1. D - e = 0
        BY <3>1
      <4> QED
        BY <1>5, <3>1, <4>1
    <3>2. CASE e # D
      <4>1. /\ e + 1 \in 15..D /\ D - e \in 1..(D - 15) /\ e \in 15..(D - 1)
            /\ D - (e + 1) = (D - e) - 1 /\ D - (D - e) + 1 = e + 1
            /\ (D - e) - 1 \in 0..(D - 15)
        BY <3>2
      <4>2. h[e + 1] = r[(D - e) - 1] /\ h[e + 1] \in SUBSET Nat
        BY <1>5, <4>1
      <4>3. r[D - e] = F[D - e][r[(D - e) - 1]]
        BY <1>5, <4>1
      <4>4. F[D - e][r[(D - e) - 1]] = Reduce(r[(D - e) - 1], e + 1)
        BY <4>1, <4>2
      <4>5. Next15(h[e + 1], e) = Reduce(h[e + 1], e + 1)
        BY <1>3, <4>1, <4>2
      <4> QED
        BY <3>2, <4>2, <4>3, <4>4, <4>5
    <3> QED
      BY <3>1, <3>2
  <2> QED
    BY <2>1
<1> DEFINE below == CHOOSE g : Is(g)
<1>7. Is(below)
  <2> HIDE DEF Is, h
  <2> QED
    BY <1>6
<1>8. Remainder(f, D) = below[15]
  BY DEF Remainder
<1> HIDE DEF below, h
<1>9. /\ below[D] = f
      /\ \A e \in 15..(D - 1) : below[e] = Next15(below[e + 1], e)
  <2> HIDE DEF Next15
  <2>1. \A e \in 15..D : below[e] = IF e = D THEN f ELSE Next15(below[e + 1], e)
    BY <1>7
  <2>2. D \in 15..D /\ \A e \in 15..(D - 1) : e \in 15..D /\ e # D
    BY <1>2
  <2> QED
    BY <2>1, <2>2
<1>10. \A e \in 15..D : below[e] \in SUBSET Nat
  <2> DEFINE T == {i \in Nat : i \in 0..(D - 15) => below[D - i] \in SUBSET Nat}
  <2>1. 0 \in T
    <3>1. D - 0 = D
      OBVIOUS
    <3> QED
      BY <1>2, <1>9, <3>1
  <2>2. ASSUME NEW i \in Nat, i \in T PROVE i + 1 \in T
    <3> SUFFICES ASSUME i + 1 \in 0..(D - 15) PROVE below[D - (i + 1)] \in SUBSET Nat
      OBVIOUS
    <3>1. PICK e \in 15..(D - 1) : e = D - (i + 1)
      OBVIOUS
    <3>2. e + 1 = D - i /\ i \in 0..(D - 15) /\ e + 1 \in Nat /\ e + 1 >= 16
      BY <3>1
    <3>3. below[e + 1] \in SUBSET Nat
      BY <2>2, <3>2
    <3>4. below[e] = Reduce(below[e + 1], e + 1)
      BY <1>3, <1>9, <3>3
    <3> QED
      BY <3>1, <3>2, <3>3, <3>4, ReduceNat
  <2> HIDE DEF T
  <2>3. Nat \subseteq T
    BY <2>1, <2>2, Induct
  <2>4. ASSUME NEW e \in 15..D PROVE below[e] \in SUBSET Nat
    <3>1. D - e \in Nat /\ D - e \in 0..(D - 15) /\ D - (D - e) = e
      OBVIOUS
    <3>2. D - e \in T
      BY <2>3, <3>1
    <3> QED
      BY <3>1, <3>2 DEF T
  <2> QED
    BY <2>4
<1> DEFINE B == [e \in 15..(D + 8) |-> IF e >= D THEN f ELSE below[e]]
<1>11. B \in [15..(D + 8) -> SUBSET Nat]
  BY <1>2, <1>10
<1>12. ASSUME NEW e \in 16..(D + 8) PROVE B[e - 1] = Reduce(B[e], e)
  <2>1. e - 1 \in 15..(D + 8) /\ e \in 15..(D + 8)
    OBVIOUS
  <2>2. CASE e > D
    <3>1. e \notin f
      BY <1>2, <2>2
    <3>2. B[e] = f /\ B[e - 1] = f
      BY <2>1, <2>2
    <3> QED
      BY <3>1, <3>2 DEF Reduce
  <2>3. CASE e <= D
    <3>1. B[e] = below[e]
      BY <1>9, <2>1, <2>3
    <3>2. B[e - 1] = below[e - 1] /\ e - 1 \in 15..(D - 1) /\ (e - 1) + 1 = e
      BY <2>1, <2>3
    <3>3. below[e] \in SUBSET Nat
      BY <1>10, <2>3
    <3> HIDE DEF B, Next15
    <3>4. below[e - 1] = Next15(below[(e - 1) + 1], e - 1)
      BY <1>9, <3>2
    <3>5. Next15(below[e], e - 1) = Reduce(below[e], (e - 1) + 1)
      BY <1>3, <3>2, <3>3
    <3> QED
      BY <3>1, <3>2, <3>4, <3>5
  <2> QED
    BY <2>2, <2>3
<1>13. B[D + 8] = f /\ B[15] = below[15] /\ below[15] \in SUBSET Nat
  <2>1. 15 \in 15..(D + 8) /\ D + 8 \in 15..(D + 8) /\ 15 \in 15..D
    BY <1>2
  <2>2. B[15] = below[15]
    BY <1>2, <1>9, <2>1
  <2>3. B[D + 8] = f
    BY <2>1
  <2> QED
    BY <1>10, <2>1, <2>2, <2>3
<1>14. D + 8 = 8 * n + 23 /\ (n = 0 => D = 15)
  BY <1>1
<1> HIDE DEF B, below, F, Is
<1>15. B \in Divisions(D + 8)
  BY <1>11, <1>12 DEF Divisions
<1> QED
  BY <1>1, <1>8, <1>9, <1>13, <1>14, <1>15

LEMMA CrcIsRemainder ==
    ASSUME NEW p \in Seq(Octets)
    PROVE  crc16(p) = Remainder(Polynomial(p), 8 * Len(p) + 15)
<1>1. PICK n \in Nat : n = Len(p)
  BY LenProperties
<1>2. Polynomial(p) \in SUBSET (16..(8 * n + 15))
  BY <1>1, PolynomialBits
<1>3. Remainder(Polynomial(p), 8 * n + 15) \in SUBSET Nat
  BY <1>2, RemainderIs
<1>4. PICK B \in Divisions(8 * n + 23) :
          B[8 * n + 23] = Polynomial(p) /\ B[15] = Remainder(Polynomial(p), 8 * n + 15)
  BY <1>2, RemainderIs
<1>5. CASE n # 0
  <2>1. Simulates(crc16(p), 0, {}, B[15])
    BY <1>1, <1>4, <1>5, RegisterSimulates
  <2>2. \A x \in Nat : x \in B[15] <=> x \in crc16(p)
    BY <2>1 DEF Simulates
  <2>3. crc16(p) \in SUBSET Nat
    BY CrcWord DEF Words
  <2> QED
    BY <1>1, <1>3, <1>4, <2>2, <2>3
<1>6. CASE n = 0
  <2>1. crc16(p) = {}
    BY <1>1, <1>6, CrcIsAfter, AfterIs
  <2>2. Polynomial(p) = {}
    BY <1>2, <1>6
  <2>3. Remainder(Polynomial(p), 8 * n + 15) = Polynomial(p)
    BY <1>2, <1>6, RemainderIs
  <2> QED
    BY <1>1, <2>1, <2>2, <2>3
<1> QED
  BY <1>5, <1>6
-----------------------------------------------------------------------------
(* encode and decode.                                                      *)

LEMMA WordBytes ==
    /\ \A w \in Words : /\ LowByte(w) \in Octets /\ HighByte(w) \in Octets
                        /\ Word(LowByte(w), HighByte(w)) = w
    /\ \A a, b, c, d \in Octets : Word(a, b) = Word(c, d) => a = c /\ b = d
<1>1. ASSUME NEW w \in Words
      PROVE  /\ LowByte(w) \in Octets /\ HighByte(w) \in Octets
             /\ Word(LowByte(w), HighByte(w)) = w
  <2>1. LowByte(w) \in Octets /\ HighByte(w) \in Octets
    BY DEF LowByte, HighByte, Octets, Words
  <2>2. ASSUME NEW x \in w PROVE x \in Word(LowByte(w), HighByte(w))
    <3>1. x \in 0..15
      BY DEF Words
    <3>2. CASE x \in 0..7
      BY <3>2 DEF Word, LowByte
    <3>3. CASE x \in 8..15
      <4>1. x - 8 \in HighByte(w) /\ x = (x - 8) + 8
        BY <3>3 DEF HighByte
      <4> QED
        BY <4>1 DEF Word
    <3> QED
      BY <3>1, <3>2, <3>3
  <2>3. ASSUME NEW x \in Word(LowByte(w), HighByte(w)) PROVE x \in w
    <3>1. CASE x \in LowByte(w)
      BY <3>1 DEF LowByte
    <3>2. CASE \E b \in HighByte(w) : x = b + 8
      <4>1. PICK b \in HighByte(w) : x = b + 8
        BY <3>2
      <4>2. PICK y \in w \cap 8..15 : b = y - 8
        BY DEF HighByte
      <4>3. y = x
        BY <4>1, <4>2
      <4> QED
        BY <4>3
    <3> QED
      BY <3>1, <3>2 DEF Word
  <2> QED
    BY <2>1, <2>2, <2>3
<1>2. ASSUME NEW a \in Octets, NEW b \in Octets, NEW c \in Octets, NEW d \in Octets,
             Word(a, b) = Word(c, d)
      PROVE  a = c /\ b = d
  <2>1. ASSUME NEW s \in Octets, NEW t \in Octets
        PROVE  /\ \A x \in 0..7 : x \in Word(s, t) <=> x \in s
               /\ \A x \in 0..7 : x + 8 \in Word(s, t) <=> x \in t
    <3>1. \A x \in s : x \in 0..7
      BY DEF Octets
    <3>2. \A x \in t : x \in 0..7 /\ x + 8 \notin 0..7
      BY DEF Octets
    <3>3. \A x, y \in 0..7 : x + 8 = y + 8 => x = y
      OBVIOUS
    <3> QED
      BY <3>1, <3>2, <3>3 DEF Word
  <2>2. \A x \in 0..7 : (x \in a <=> x \in c) /\ (x \in b <=> x \in d)
    BY <1>2, <2>1
  <2> QED
    BY <2>2 DEF Octets
<1> QED
  BY <1>1, <1>2

\* A frame is the packet and two bytes; decode takes it apart again.
LEMMA Framed ==
    ASSUME NEW p \in Seq(Octets)
    PROVE  /\ encode(p) \in Seq(Octets)
           /\ Len(encode(p)) = Len(p) + 2 /\ Len(p) \in Nat
           /\ \A i \in 1..Len(p) : encode(p)[i] = p[i]
           /\ encode(p)[Len(p) + 1] = LowByte(crc16(p))
           /\ encode(p)[Len(p) + 2] = HighByte(crc16(p))
<1> DEFINE m == Memory(crc16(p))
<1>1. /\ m \in Seq(Octets) /\ Len(m) = 2
      /\ m[1] = LowByte(crc16(p)) /\ m[2] = HighByte(crc16(p))
  BY CrcWord, WordBytes DEF Memory
<1> HIDE DEF m
<1>2. /\ p \o m \in Seq(Octets) /\ Len(p \o m) = Len(p) + Len(m) /\ Len(p) \in Nat
      /\ \A i \in 1..(Len(p) + Len(m)) :
            (p \o m)[i] = IF i <= Len(p) THEN p[i] ELSE m[i - Len(p)]
  BY <1>1, ConcatProperties, LenProperties
<1>3. encode(p) = p \o m
  BY DEF encode, m
<1> QED
  BY <1>1, <1>2, <1>3

\* A packet whose size field is right, and a buffer that begins with f.
Sized(p) == p \in Seq(Octets) /\ Len(p) >= 4 /\ Size(p) = Len(p) - 4

Begins(v, f) ==
    /\ v \in Seq(Octets) /\ Len(f) <= Len(v)
    /\ \A i \in 1..Len(f) : v[i] = f[i]

LEMMA BufferBegins ==
    \A f, old \in Seq(Octets) : Begins(f, f) /\ Begins(f \o old, f)
<1> SUFFICES ASSUME NEW f \in Seq(Octets), NEW old \in Seq(Octets)
             PROVE  Begins(f, f) /\ Begins(f \o old, f)
  OBVIOUS
<1>1. Len(f) \in Nat /\ Len(old) \in Nat
  BY LenProperties
<1>2. /\ f \o old \in Seq(Octets) /\ Len(f \o old) = Len(f) + Len(old)
      /\ \A i \in 1..(Len(f) + Len(old)) :
            (f \o old)[i] = IF i <= Len(f) THEN f[i] ELSE old[i - Len(f)]
  BY ConcatProperties
<1> QED
  BY <1>1, <1>2 DEF Begins

\* What decode makes of a buffer with a packet and two bytes at its beginning.
LEMMA Decoded ==
    ASSUME NEW p, Sized(p), NEW v \in Seq(Octets), Len(p) + 2 <= Len(v),
           \A i \in 1..Len(p) : v[i] = p[i]
    PROVE  decode(v) = [packet  |-> p,
                        success |-> crc16(p) = Word(v[Len(p) + 1], v[Len(p) + 2])]
<1>1. Len(p) \in Nat /\ Len(p) >= 4 /\ p \in Seq(Octets) /\ Len(v) \in Nat
  BY LenProperties DEF Sized
<1>2. SubSeq(v, 1, Len(p)) = p
  <2>1. /\ SubSeq(v, 1, Len(p)) \in Seq(Octets) /\ Len(SubSeq(v, 1, Len(p))) = Len(p)
        /\ \A i \in 1..Len(p) : SubSeq(v, 1, Len(p))[i] = v[i]
    BY <1>1
  <2> QED
    BY <1>1, <2>1, SeqEqual
<1>3. 4 + Size(v) = Len(p)
  <2>1. v[3] = p[3] /\ v[4] = p[4]
    BY <1>1
  <2>2. Size(v) = Size(p)
    BY <2>1 DEF Size
  <2> QED
    BY <1>1, <2>2 DEF Sized
<1> QED
  BY <1>2, <1>3 DEF decode

LEMMA DecodeEncode ==
    ASSUME NEW p, Sized(p), NEW v, Begins(v, encode(p))
    PROVE  decode(v) = [packet |-> p, success |-> TRUE]
<1>1. p \in Seq(Octets) /\ Len(p) \in Nat
  BY LenProperties DEF Sized
<1>2. /\ v \in Seq(Octets) /\ Len(p) + 2 <= Len(v) /\ \A i \in 1..Len(p) : v[i] = p[i]
      /\ v[Len(p) + 1] = LowByte(crc16(p)) /\ v[Len(p) + 2] = HighByte(crc16(p))
  <2>1. PICK f : f = encode(p)
    OBVIOUS
  <2>2. /\ Len(f) = Len(p) + 2
        /\ \A i \in 1..Len(p) : f[i] = p[i]
        /\ f[Len(p) + 1] = LowByte(crc16(p)) /\ f[Len(p) + 2] = HighByte(crc16(p))
    BY <1>1, <2>1, Framed
  <2>3. /\ Len(p) + 1 \in 1..Len(f) /\ Len(p) + 2 \in 1..Len(f)
        /\ \A i \in 1..Len(p) : i \in 1..Len(f)
    BY <1>1, <2>2
  <2>4. /\ v \in Seq(Octets) /\ Len(f) <= Len(v) /\ \A i \in 1..Len(f) : v[i] = f[i]
    BY <2>1 DEF Begins
  <2>5. v[Len(p) + 1] = f[Len(p) + 1] /\ v[Len(p) + 2] = f[Len(p) + 2]
    BY <2>3, <2>4, Zenon
  <2>6. \A i \in 1..Len(p) : v[i] = p[i]
    BY <2>2, <2>3, <2>4, Zenon
  <2> QED
    BY <2>2, <2>4, <2>5, <2>6
<1>3. crc16(p) = Word(v[Len(p) + 1], v[Len(p) + 2])
  BY <1>1, <1>2, CrcWord, WordBytes
<1> QED
  BY <1>2, <1>3, Decoded
-----------------------------------------------------------------------------
(* Two packets that differ in one byte have different CRCs.                *)

LEMMA TurnedInjective ==
    ASSUME NEW x \in Words, NEW y \in Words, NEW k \in Nat, Turned(x, k) = Turned(y, k)
    PROVE  x = y
<1> DEFINE T == {i \in Nat : i \in 0..k => Shifting(x, k)[k - i] = Shifting(y, k)[k - i]}
<1>1. 0 \in T
  <2>1. k - 0 = k
    OBVIOUS
  <2> QED
    BY <2>1 DEF Turned
<1>2. ASSUME NEW i \in Nat, i \in T PROVE i + 1 \in T
  <2> SUFFICES ASSUME i + 1 \in 0..k PROVE Shifting(x, k)[k - (i + 1)] = Shifting(y, k)[k - (i + 1)]
    OBVIOUS
  <2> PICK j \in 1..k : j = k - i
    OBVIOUS
  <2>1. i \in 0..k /\ k - (i + 1) = j - 1 /\ j - 1 \in 0..k
    OBVIOUS
  <2>2. Shifting(x, k)[j] = Shifting(y, k)[j]
    BY <1>2, <2>1
  <2>3. /\ Shifting(x, k)[j] = ShiftStep(Shifting(x, k)[j - 1]) /\ Shifting(x, k)[j - 1] \in Words
        /\ Shifting(y, k)[j] = ShiftStep(Shifting(y, k)[j - 1]) /\ Shifting(y, k)[j - 1] \in Words
    <3>1. /\ Shifting(x, k) \in [0..k -> Words] /\ Shifting(y, k) \in [0..k -> Words]
          /\ \A l \in 1..k : Shifting(x, k)[l] = ShiftStep(Shifting(x, k)[l - 1])
          /\ \A l \in 1..k : Shifting(y, k)[l] = ShiftStep(Shifting(y, k)[l - 1])
      BY ShiftingIs, Zenon
    <3> QED
      BY <2>1, <3>1, Zenon
  <2>4. Shifting(x, k)[j - 1] = Shifting(y, k)[j - 1]
    BY <2>2, <2>3, StepInjective
  <2> QED
    BY <2>1, <2>4
<1> HIDE DEF T
<1>3. Nat \subseteq T
  BY <1>1, <1>2, Induct
<1>4. k \in T /\ k \in 0..k /\ k - k = 0
  BY <1>3
<1>5. Shifting(x, k)[0] = Shifting(y, k)[0]
  BY <1>4 DEF T
<1> QED
  BY <1>5, ShiftingIs

LEMMA XorInjective == \A a, b, c : Xor(a, b) = Xor(a, c) => b = c
<1> SUFFICES ASSUME NEW a, NEW b, NEW c, Xor(a, b) = Xor(a, c) PROVE b = c
  OBVIOUS
<1>1. \A x : x \in b <=> x \in c
  BY XorIn
<1> QED
  BY <1>1

LEMMA XorSymmetric == \A a, b : Xor(a, b) = Xor(b, a)
BY DEF Xor

LEMMA CrcTellsApart ==
    ASSUME NEW p \in Seq(Octets), NEW q \in Seq(Octets), Len(p) = Len(q),
           NEW i \in 1..Len(p), p[i] # q[i],
           \A j \in 1..Len(p) : j # i => p[j] = q[j]
    PROVE  crc16(p) # crc16(q)
<1> DEFINE n == Len(p)
           a == After(p)
           b == After(q)
           k(d) == Shifts(d, n)
           T == {d \in Nat : d \in 0..n => (a[d] = b[d] <=> d < i)}
<1>1. /\ n \in Nat /\ \A d \in 0..n : a[d] \in Words /\ b[d] \in Words
      /\ \A d \in 1..n : p[d] \in Words /\ q[d] \in Words
      /\ a[0] = {} /\ b[0] = {}
      /\ \A d \in 1..n : a[d] = Turned(Xor(a[d - 1], p[d]), k(d))
      /\ \A d \in 1..n : b[d] = Turned(Xor(b[d - 1], q[d]), k(d))
  <2>1. n \in Nat /\ n = Len(q) /\ \A d \in 1..n : p[d] \in Words /\ q[d] \in Words
    BY LenProperties, ElementOfSeq, OctetsAreWords
  <2>2. /\ a \in [0..n -> Words] /\ a[0] = {}
        /\ \A d \in 1..n : a[d] = Turned(Xor(a[d - 1], p[d]), k(d))
    BY AfterIs
  <2>3. /\ b \in [0..Len(q) -> Words] /\ b[0] = {}
        /\ \A d \in 1..Len(q) : b[d] = Turned(Xor(b[d - 1], q[d]), Shifts(d, Len(q)))
    BY AfterIs
  <2> HIDE DEF a, b, n
  <2> QED
    BY <2>1, <2>2, <2>3
<1> HIDE DEF n, a, b, k
<1>2. 0 \in T
  <2>1. a[0] = b[0] /\ 0 < i
    BY <1>1
  <2> QED
    BY <2>1
<1>3. ASSUME NEW d \in Nat, d \in T PROVE d + 1 \in T
  <2> SUFFICES ASSUME d + 1 \in 0..n PROVE a[d + 1] = b[d + 1] <=> d + 1 < i
    OBVIOUS
  <2> PICK e \in 1..n : e = d + 1
    BY <1>1
  <2>1. d \in 0..n /\ e - 1 = d /\ i \in Nat
    BY <1>1 DEF n
  <2>2. a[d] = b[d] <=> d < i
    BY <1>3, <2>1
  <2>3. /\ Xor(a[d], p[e]) \in Words /\ Xor(b[d], q[e]) \in Words /\ k(e) \in Nat
        /\ a[e] = Turned(Xor(a[d], p[e]), k(e)) /\ b[e] = Turned(Xor(b[d], q[e]), k(e))
    BY <1>1, <2>1, XorWords, ShiftsNat DEF k
  <2>4. a[e] = b[e] <=> Xor(a[d], p[e]) = Xor(b[d], q[e])
    BY <2>3, TurnedInjective
  <2>5. CASE e < i
    BY <2>1, <2>2, <2>4, <2>5 DEF n
  <2>6. CASE e = i
    <3>1. Xor(a[d], p[e]) # Xor(b[d], q[e])
      BY <2>1, <2>2, <2>6, XorInjective
    <3> QED
      BY <3>1, <2>4, <2>6
  <2>7. CASE e > i
    <3>1. p[e] = q[e] /\ a[d] # b[d]
      BY <2>1, <2>2, <2>7 DEF n
    <3>2. Xor(a[d], p[e]) # Xor(b[d], q[e])
      BY <3>1, XorInjective, XorSymmetric
    <3> QED
      BY <3>2, <2>1, <2>4, <2>7
  <2> QED
    BY <2>1, <2>5, <2>6, <2>7
<1> HIDE DEF T
<1>4. Nat \subseteq T
  BY <1>2, <1>3, Induct
<1>5. n \in 0..n /\ ~(n < i)
  BY <1>1 DEF n
<1>6. a[n] # b[n]
  BY <1>1, <1>4, <1>5 DEF T
<1> QED
  BY <1>6, CrcIsAfter DEF a, b, n

LEMMA SpoiltRefused ==
    ASSUME NEW p, Sized(p), NEW i \in 1..Len(encode(p)), i \notin {3, 4},
           NEW spoilt \in Octets, spoilt # encode(p)[i],
           NEW u, Begins(u, [encode(p) EXCEPT ![i] = spoilt])
    PROVE  ~decode(u).success
<1> DEFINE n == Len(p)
           v == encode(p)
<1>0. p \in Seq(Octets) /\ n >= 4
  BY DEF Sized
<1>1. /\ v \in Seq(Octets) /\ Len(v) = n + 2 /\ n \in Nat
      /\ \A j \in 1..n : v[j] = p[j]
      /\ v[n + 1] = LowByte(crc16(p)) /\ v[n + 2] = HighByte(crc16(p))
  BY <1>0, Framed
<1> HIDE DEF v, n
<1>2. i \in 1..(n + 2)
  BY <1>1 DEF v
<1>3. /\ u \in Seq(Octets) /\ n + 2 <= Len(u)
      /\ \A j \in 1..(n + 2) : u[j] = IF j = i THEN spoilt ELSE v[j]
  <2> DEFINE w == [v EXCEPT ![i] = spoilt]
  <2>1. /\ w \in Seq(Octets) /\ Len(w) = n + 2
        /\ \A j \in 1..(n + 2) : w[j] = IF j = i THEN spoilt ELSE v[j]
    BY <1>1, <1>2, ExceptSeq
  <2>2. Begins(u, w)
    BY DEF v
  <2> HIDE DEF w
  <2> QED
    BY <2>1, <2>2 DEF Begins
<1>4. /\ crc16(p) \in Words
      /\ LowByte(crc16(p)) \in Octets /\ HighByte(crc16(p)) \in Octets
      /\ Word(LowByte(crc16(p)), HighByte(crc16(p))) = crc16(p)
  BY <1>0, CrcWord, WordBytes
<1>5. CASE i \in 1..n
  <2> DEFINE q == [p EXCEPT ![i] = spoilt]
  <2>1. /\ q \in Seq(Octets) /\ Len(q) = n
        /\ \A j \in 1..n : q[j] = IF j = i THEN spoilt ELSE p[j]
    BY <1>0, <1>5, ExceptSeq DEF n
  <2> HIDE DEF q
  <2>2. \A j \in 1..n : u[j] = q[j]
    <3>1. \A j \in 1..n : j \in 1..(n + 2)
      BY <1>1
    <3> QED
      BY <1>1, <1>3, <2>1, <3>1, Zenon
  <2>3. decode(u).success = (crc16(q) = Word(u[n + 1], u[n + 2]))
    <3>0. Sized(q)
      <4>1. q[3] = p[3] /\ q[4] = p[4]
        <5>1. 3 \in 1..n /\ 4 \in 1..n /\ 3 # i /\ 4 # i
          BY <1>0, <1>1
        <5> QED
          BY <2>1, <5>1, Zenon
      <4>2. Size(q) = Size(p)
        BY <4>1 DEF Size
      <4> QED
        BY <2>1, <4>2 DEF Sized, n
    <3>1. u \in Seq(Octets) /\ Len(q) + 2 <= Len(u) /\ \A j \in 1..Len(q) : u[j] = q[j]
      BY <1>3, <2>1, <2>2
    <3>2. decode(u) = [packet |-> q, success |-> crc16(q) = Word(u[Len(q) + 1], u[Len(q) + 2])]
      BY <3>0, <3>1, Decoded
    <3> QED
      BY <2>1, <3>2
  <2>4. u[n + 1] = LowByte(crc16(p)) /\ u[n + 2] = HighByte(crc16(p))
    BY <1>1, <1>3, <1>5
  <2>5. crc16(p) # crc16(q)
    <3>1. p[i] # q[i] /\ \A j \in 1..n : j # i => p[j] = q[j]
      BY <1>1, <1>5, <2>1 DEF v
    <3> QED
      BY <3>1, <1>0, <1>5, <2>1, CrcTellsApart DEF n
  <2> QED
    BY <1>4, <2>3, <2>4, <2>5 DEF v
<1>6. CASE i \in n + 1..n + 2
  <2>1. \A j \in 1..n : u[j] = p[j]
    BY <1>1, <1>3, <1>6
  <2>2. decode(u).success = (crc16(p) = Word(u[n + 1], u[n + 2]))
    BY <1>3, <2>1, Decoded DEF n
  <2>3. /\ u[n + 1] \in Octets /\ u[n + 2] \in Octets
        /\ u[n + 1] # LowByte(crc16(p)) \/ u[n + 2] # HighByte(crc16(p))
    <3>1. n + 1 \in 1..(n + 2) /\ n + 2 \in 1..(n + 2)
      BY <1>1
    <3>2. u[n + 1] \in Octets /\ u[n + 2] \in Octets
      BY <3>1, <1>3, ElementOfSeq
    <3>3. CASE i = n + 1
      BY <3>1, <3>3, <1>1, <1>3 DEF v
    <3>4. CASE i = n + 2
      BY <3>1, <3>4, <1>1, <1>3 DEF v
    <3> QED
      BY <3>2, <3>3, <3>4, <1>1, <1>6
  <2>4. Word(u[n + 1], u[n + 2]) # crc16(p)
    BY <1>4, <2>3, WordBytes
  <2> QED
    BY <2>2, <2>4 DEF v
<1> QED
  BY <1>1, <1>2, <1>5, <1>6
-----------------------------------------------------------------------------
(* Bytes as numbers.                                                       *)

LEMMA Powers ==
    /\ 2^0 = 1 /\ 2^1 = 2 /\ 2^2 = 4 /\ 2^3 = 8 /\ 2^4 = 16 /\ 2^5 = 32 /\ 2^6 = 64
    /\ 2^7 = 128 /\ 2^8 = 256
OBVIOUS

LEMMA Digits ==
    ASSUME NEW n \in 0..255
    PROVE  n = (n % 2) + 2 * ((n \div 2) % 2) + 4 * ((n \div 4) % 2) + 8 * ((n \div 8) % 2)
               + 16 * ((n \div 16) % 2) + 32 * ((n \div 32) % 2) + 64 * ((n \div 64) % 2)
               + 128 * ((n \div 128) % 2)
OBVIOUS

\* The value of a bit.
Digit(byte, b, value) == IF b \in byte THEN value ELSE 0

LEMMA NumberIs ==
    ASSUME NEW byte
    PROVE  Number(byte) = Digit(byte, 0, 1) + Digit(byte, 1, 2) + Digit(byte, 2, 4)
                          + Digit(byte, 3, 8) + Digit(byte, 4, 16) + Digit(byte, 5, 32)
                          + Digit(byte, 6, 64) + Digit(byte, 7, 128)
<1> DEFINE F == [b \in 1..8 |-> [s \in Nat |-> s + Digit(byte, b - 1, 2^(b - 1))]]
           Is(f) == f = [b \in 0..8 |->
                           IF b = 0 THEN 0
                           ELSE f[b - 1] + (IF b - 1 \in byte THEN 2^(b - 1) ELSE 0)]
<1>1. \A b \in 1..8 : Digit(byte, b - 1, 2^(b - 1)) \in Nat
  <2>1. \A b \in 1..8 : b - 1 \in 0..7
    OBVIOUS
  <2>2. ASSUME NEW c \in 0..7 PROVE 2^c \in Nat
    <3>1. CASE c = 0 \/ c = 1 \/ c = 2 \/ c = 3
      <4>1. CASE c = 0
        BY <4>1
      <4>2. CASE c = 1
        BY <4>2
      <4>3. CASE c = 2
        BY <4>3
      <4>4. CASE c = 3
        BY <4>4
      <4> QED
        BY <3>1, <4>1, <4>2, <4>3, <4>4
    <3>2. CASE c = 4 \/ c = 5 \/ c = 6 \/ c = 7
      <4>1. CASE c = 4
        BY <4>1
      <4>2. CASE c = 5
        BY <4>2
      <4>3. CASE c = 6
        BY <4>3
      <4>4. CASE c = 7
        BY <4>4
      <4> QED
        BY <3>2, <4>1, <4>2, <4>3, <4>4
    <3> QED
      BY <3>1, <3>2
  <2> QED
    BY <2>1, <2>2 DEF Digit
<1>2. PICK f \in [0..8 -> Nat] :
          f[0] = 0 /\ \A b \in 1..8 : f[b] = f[b - 1] + Digit(byte, b - 1, 2^(b - 1))
  <2>1. F \in [1..8 -> [Nat -> Nat]]
    BY <1>1
  <2> HIDE DEF F
  <2>2. \E f : f \in Iterations(8, Nat, 0, F)
    BY <2>1, Iterates
  <2>3. PICK f \in [0..8 -> Nat] : f[0] = 0 /\ \A b \in 1..8 : f[b] = F[b][f[b - 1]]
    BY <2>2 DEF Iterations
  <2>4. \A b \in 1..8 : f[b - 1] \in Nat
    OBVIOUS
  <2> QED
    BY <2>3, <2>4 DEF F
<1>3. Is(f)
  <2>1. ASSUME NEW b \in 0..8
        PROVE  f[b] = IF b = 0 THEN 0
                      ELSE f[b - 1] + (IF b - 1 \in byte THEN 2^(b - 1) ELSE 0)
    <3>1. CASE b # 0
      <4>1. b \in 1..8
        BY <3>1
      <4> QED
        BY <1>2, <3>1, <4>1 DEF Digit
    <3> QED
      BY <1>2, <3>1
  <2>2. f = [b \in 0..8 |-> f[b]]
    OBVIOUS
  <2> QED
    BY <2>1, <2>2
<1> DEFINE sum == CHOOSE h : Is(h)
<1>4. Number(byte) = sum[8]
  BY DEF Number
<1>5. Is(sum)
  <2> HIDE DEF Is
  <2> QED
    BY <1>3
<1> HIDE DEF sum
<1>6. /\ sum[0] = 0 /\ sum[1] = sum[0] + Digit(byte, 0, 1)
      /\ sum[2] = sum[1] + Digit(byte, 1, 2) /\ sum[3] = sum[2] + Digit(byte, 2, 4)
      /\ sum[4] = sum[3] + Digit(byte, 3, 8) /\ sum[5] = sum[4] + Digit(byte, 4, 16)
      /\ sum[6] = sum[5] + Digit(byte, 5, 32) /\ sum[7] = sum[6] + Digit(byte, 6, 64)
      /\ sum[8] = sum[7] + Digit(byte, 7, 128)
  BY <1>5, Powers DEF Digit
<1>7. \A b, v \in Nat : Digit(byte, b, v) \in Nat
  BY DEF Digit
<1> QED
  BY <1>4, <1>6, <1>7

LEMMA ByteOctet == \A n : Byte(n) \in Octets
BY DEF Byte, Octets

LEMMA NumberOctet == \A byte : Number(byte) \in 0..255
<1> SUFFICES ASSUME NEW byte PROVE Number(byte) \in 0..255
  OBVIOUS
<1>1. PICK low \in 0..15 : low = Digit(byte, 0, 1) + Digit(byte, 1, 2)
                                 + Digit(byte, 2, 4) + Digit(byte, 3, 8)
  BY DEF Digit
<1>2. \A s \in 0..15 : s + Digit(byte, 4, 16) + Digit(byte, 5, 32) + Digit(byte, 6, 64)
                        + Digit(byte, 7, 128) \in 0..255
  BY DEF Digit
<1>3. low + Digit(byte, 4, 16) + Digit(byte, 5, 32) + Digit(byte, 6, 64)
      + Digit(byte, 7, 128) \in 0..255
  BY <1>2, Zenon
<1>4. Number(byte) = low + Digit(byte, 4, 16) + Digit(byte, 5, 32) + Digit(byte, 6, 64)
                     + Digit(byte, 7, 128)
  BY <1>1, NumberIs, Zenon
<1> QED
  BY <1>3, <1>4, Zenon

LEMMA BitsOfByte ==
    ASSUME NEW n \in Nat
    PROVE  /\ 0 \in Byte(n) <=> n % 2 = 1
           /\ 1 \in Byte(n) <=> (n \div 2) % 2 = 1
           /\ 2 \in Byte(n) <=> (n \div 4) % 2 = 1
           /\ 3 \in Byte(n) <=> (n \div 8) % 2 = 1
           /\ 4 \in Byte(n) <=> (n \div 16) % 2 = 1
           /\ 5 \in Byte(n) <=> (n \div 32) % 2 = 1
           /\ 6 \in Byte(n) <=> (n \div 64) % 2 = 1
           /\ 7 \in Byte(n) <=> (n \div 128) % 2 = 1
<1>1. \A b \in 0..7 : b \in Byte(n) <=> (n \div 2^b) % 2 = 1
  BY DEF Byte
<1> QED
  BY <1>1, Powers

LEMMA NumberOfByte == \A n \in 0..255 : Number(Byte(n)) = n
<1> SUFFICES ASSUME NEW n \in 0..255 PROVE Number(Byte(n)) = n
  OBVIOUS
<1>1. /\ Digit(Byte(n), 0, 1) = n % 2
      /\ Digit(Byte(n), 1, 2) = 2 * ((n \div 2) % 2)
      /\ Digit(Byte(n), 2, 4) = 4 * ((n \div 4) % 2)
      /\ Digit(Byte(n), 3, 8) = 8 * ((n \div 8) % 2)
      /\ Digit(Byte(n), 4, 16) = 16 * ((n \div 16) % 2)
      /\ Digit(Byte(n), 5, 32) = 32 * ((n \div 32) % 2)
      /\ Digit(Byte(n), 6, 64) = 64 * ((n \div 64) % 2)
      /\ Digit(Byte(n), 7, 128) = 128 * ((n \div 128) % 2)
  BY BitsOfByte DEF Digit
<1> QED
  BY <1>1, NumberIs, Digits
-----------------------------------------------------------------------------
(* The settings.                                                           *)

SettingsType ==
    [PKTLEN : Octets, PKTCTRL0 : Octets, MDMCFG4 : Octets,
     IOCFG0 : Octets, MODE : Octets, STATUS : Octets]

\* A client that is configured has the settings it was asked for, and sends no
\* other packet than the SETUP_REQ with them.
SetupInv ==
    /\ packet = << >> \/ Sized(packet)
    /\ m_settings \in SettingsType
    /\ IsEnabled =>
          /\ packet = << >> \/ packet = SetupReq(m_settings)
          /\ asked.size \in Nat /\ asked.mode \in {TX, RX}
          /\ m_settings.PKTLEN = Byte(asked.size)
          /\ m_settings.PKTCTRL0 = {}
          /\ m_settings.MDMCFG4 = asked.MDMCFG4
          /\ m_settings.MODE = asked.mode
          /\ m_settings.IOCFG0 = IF asked.mode = TX THEN Byte(6) ELSE Byte(0)

LEMMA DistinctBytes ==
    /\ Byte(0) = {} /\ 0 \in Byte(1)
    /\ Byte(6) # Byte(0) /\ TX # RX
<1>1. /\ Number(Byte(0)) = 0 /\ Number(Byte(6)) = 6
      /\ Number(TX) = 16 /\ Number(RX) = 32
  BY NumberOfByte DEF TX, RX
<1>2. Byte(0) = {}
  <2>1. /\ 0 \notin Byte(0) /\ 1 \notin Byte(0) /\ 2 \notin Byte(0) /\ 3 \notin Byte(0)
        /\ 4 \notin Byte(0) /\ 5 \notin Byte(0) /\ 6 \notin Byte(0) /\ 7 \notin Byte(0)
    BY BitsOfByte
  <2>2. \A b \in Byte(0) : b = 0 \/ b = 1 \/ b = 2 \/ b = 3 \/ b = 4 \/ b = 5 \/ b = 6 \/ b = 7
    BY ByteOctet DEF Octets
  <2> QED
    BY <2>1, <2>2
<1>3. 0 \in Byte(1)
  BY Powers DEF Byte
<1> QED
  BY <1>1, <1>2, <1>3

LEMMA BitsCleared ==
    /\ \A byte : SET_BITS(byte, 2, 0, Byte(0)) = {}
    /\ \A byte : \A len \in Octets : SET_BITS(byte, 8, 0, len) = len
    /\ \A byte \in Octets : SET_BIT(byte, 2, Byte(0)) \in Octets
<1>1. LogicalNot(2^2 - 1) = {} /\ LogicalNot(2^8 - 1) = {}
  BY Powers DEF LogicalNot
<1>2. \A byte : SET_BITS(byte, 2, 0, Byte(0)) = {}
  BY <1>1, DistinctBytes DEF SET_BITS
<1>3. ASSUME NEW byte, NEW len \in Octets PROVE SET_BITS(byte, 8, 0, len) = len
  <2>1. len \cap 0..(8 - 1) = len /\ \A b \in len : b + 0 = b
    <3>1. 0..(8 - 1) = 0..7 /\ \A b \in 0..7 : b + 0 = b
      OBVIOUS
    <3> QED
      BY <3>1 DEF Octets
  <2> QED
    BY <1>1, <2>1 DEF SET_BITS
<1>4. \A byte \in Octets : SET_BIT(byte, 2, Byte(0)) \in Octets
  BY DistinctBytes DEF SET_BIT, Octets
<1> QED
  BY <1>2, <1>3, <1>4

\* activate clears the packet control register, and sets length, mode and signal.
LEMMA Activated ==
    ASSUME NEW s \in SettingsType, NEW mode \in {TX, RX}, NEW n \in Nat
    PROVE  activate(mode, Byte(n), s) =
               [PKTLEN |-> Byte(n), PKTCTRL0 |-> {}, MDMCFG4 |-> s.MDMCFG4,
                IOCFG0 |-> IF mode = TX THEN Byte(6) ELSE Byte(0),
                MODE |-> mode, STATUS |-> Byte(1)]
<1> DEFINE s1 == SetMode(mode, s)
           s2 == SetCRCEnable(Byte(0), s1)
           s3 == SetPacketLength(Byte(n), s2)
<1>1. Byte(n) \in Octets /\ mode \in Octets
  BY ByteOctet DEF TX, RX
<1>2. s1 \in SettingsType /\ s1.MDMCFG4 = s.MDMCFG4 /\ s1.MODE = mode
  BY <1>1 DEF SetMode, SettingsType
<1> HIDE DEF s1
<1>3. s2 \in SettingsType /\ s2.MDMCFG4 = s.MDMCFG4 /\ s2.MODE = mode
  <2>1. s2 = [s1 EXCEPT !.PKTCTRL0 = SET_BIT(s1.PKTCTRL0, 2, Byte(0))]
    BY DEF SetCRCEnable
  <2>2. SET_BIT(s1.PKTCTRL0, 2, Byte(0)) \in Octets
    BY <1>2, BitsCleared DEF SettingsType
  <2> HIDE DEF s2
  <2> QED
    BY <1>2, <2>1, <2>2 DEF SettingsType
<1> HIDE DEF s2
<1>4. s3 = [s2 EXCEPT !.PKTCTRL0 = {}, !.PKTLEN = Byte(n)]
  BY <1>1, BitsCleared DEF SetPacketLength
<1>5. activate(mode, Byte(n), s) =
          [s3 EXCEPT !.IOCFG0 = IF mode = TX THEN Byte(6) ELSE Byte(0), !.STATUS = Byte(1)]
  BY DEF activate, s1, s2
<1> HIDE DEF s3
<1>6. s3 = [PKTLEN |-> Byte(n), PKTCTRL0 |-> {}, MDMCFG4 |-> s.MDMCFG4,
            IOCFG0 |-> s2.IOCFG0, MODE |-> mode, STATUS |-> s2.STATUS]
  BY <1>3, <1>4 DEF SettingsType
<1> QED
  BY <1>5, <1>6

LEMMA WithField ==
    ASSUME NEW s \in SettingsType, NEW b \in Octets
    PROVE  /\ [s EXCEPT !.PKTLEN = b] \in SettingsType
           /\ [s EXCEPT !.PKTCTRL0 = b] \in SettingsType
           /\ [s EXCEPT !.MDMCFG4 = b] \in SettingsType
           /\ [s EXCEPT !.IOCFG0 = b] \in SettingsType
<1>1. [s EXCEPT !.PKTLEN = b] \in SettingsType
  BY DEF SettingsType
<1>2. [s EXCEPT !.PKTCTRL0 = b] \in SettingsType
  BY DEF SettingsType
<1>3. [s EXCEPT !.MDMCFG4 = b] \in SettingsType
  BY DEF SettingsType
<1>4. [s EXCEPT !.IOCFG0 = b] \in SettingsType
  BY DEF SettingsType
<1> QED
  BY <1>1, <1>2, <1>3, <1>4

LEMMA InHandType ==
    ASSUME m_settings \in SettingsType PROVE InHand \subseteq SettingsType
<1>1. Declared \in SettingsType
  BY ByteOctet DEF Declared, SettingsType
<1>2. ASSUME NEW r PROVE Preset(r, Declared) \in SettingsType
  <2>1. Byte(255) \in Octets /\ Byte(5) \in Octets /\ Byte(r) \in Octets /\ Byte(6) \in Octets
    BY ByteOctet
  <2>2. PICK s \in SettingsType : s = Declared
    BY <1>1
  <2>3. PICK s1 \in SettingsType : s1 = [s EXCEPT !.PKTLEN = Byte(255)]
    <3>1. [s EXCEPT !.PKTLEN = Byte(255)] \in SettingsType
      BY <2>1, WithField
    <3> QED
      BY <3>1, Zenon
  <2>4. PICK s2 \in SettingsType : s2 = [s1 EXCEPT !.PKTCTRL0 = Byte(5)]
    <3>1. [s1 EXCEPT !.PKTCTRL0 = Byte(5)] \in SettingsType
      BY <2>1, WithField
    <3> QED
      BY <3>1, Zenon
  <2>5. PICK s3 \in SettingsType : s3 = [s2 EXCEPT !.MDMCFG4 = Byte(r)]
    <3>1. [s2 EXCEPT !.MDMCFG4 = Byte(r)] \in SettingsType
      BY <2>1, WithField
    <3> QED
      BY <3>1, Zenon
  <2>6. PICK s4 \in SettingsType : s4 = [s3 EXCEPT !.IOCFG0 = Byte(6)]
    <3>1. [s3 EXCEPT !.IOCFG0 = Byte(6)] \in SettingsType
      BY <2>1, WithField
    <3> QED
      BY <3>1, Zenon
  <2>7. Preset(r, s) = [[[[s EXCEPT !.PKTLEN = Byte(255)] EXCEPT !.PKTCTRL0 = Byte(5)]
                              EXCEPT !.MDMCFG4 = Byte(r)] EXCEPT !.IOCFG0 = Byte(6)]
    BY DEF Preset
  <2> QED
    BY <2>2, <2>3, <2>4, <2>5, <2>6, <2>7
<1>3. \A s \in SettingsType, c \in Controls :
          [s EXCEPT !.PKTCTRL0 = Byte(c)] \in SettingsType
  BY ByteOctet DEF SettingsType
<1> DEFINE plain == {Declared, Init500kbps(Declared), Init250kbps(Declared),
                     Init38kbps(Declared), Init2_4kbps(Declared), Init1_2kbps(Declared)}
<1>4. plain \subseteq SettingsType
  <2>1. /\ Init500kbps(Declared) \in SettingsType /\ Init250kbps(Declared) \in SettingsType
        /\ Init38kbps(Declared) \in SettingsType /\ Init2_4kbps(Declared) \in SettingsType
        /\ Init1_2kbps(Declared) \in SettingsType
    BY <1>2 DEF Init500kbps, Init250kbps, Init38kbps, Init2_4kbps, Init1_2kbps
  <2>2. ASSUME NEW x \in plain PROVE x \in SettingsType
    BY <1>1, <2>1
  <2> QED
    BY <2>2
<1>5. InHand = plain \cup {[s EXCEPT !.PKTCTRL0 = Byte(c)] : s \in plain, c \in Controls}
                     \cup {m_settings}
  BY DEF InHand
<1> HIDE DEF plain
<1> QED
  BY <1>3, <1>4, <1>5

LEMMA SizeBytes ==
    \A n \in 0..512 : Number(Byte(n)) + 256 * Number(Byte(n \div 256)) = n
<1> SUFFICES ASSUME NEW n \in 0..512
             PROVE  Number(Byte(n)) + 256 * Number(Byte(n \div 256)) = n
  OBVIOUS
<1> DEFINE q == n \div 256
           m == n % 256
<1>1. q \in 0..2 /\ m \in 0..255 /\ n = 256 * q + m
  OBVIOUS
<1>2. Number(Byte(q)) = q
  BY <1>1, NumberOfByte
<1>3. ASSUME NEW b \in 0..7
      PROVE  (n \div 2^b) % 2 = (m \div 2^b) % 2
  <2>1. \A w \in {1, 2, 4, 8, 16, 32, 64, 128} : (n \div w) % 2 = (m \div w) % 2
    <3>1. /\ (n \div 1) % 2 = (m \div 1) % 2 /\ (n \div 2) % 2 = (m \div 2) % 2
          /\ (n \div 4) % 2 = (m \div 4) % 2 /\ (n \div 8) % 2 = (m \div 8) % 2
          /\ (n \div 16) % 2 = (m \div 16) % 2 /\ (n \div 32) % 2 = (m \div 32) % 2
          /\ (n \div 64) % 2 = (m \div 64) % 2 /\ (n \div 128) % 2 = (m \div 128) % 2
      BY <1>1
    <3> HIDE DEF m
    <3> QED
      BY <3>1, Zenon
  <2>2. 2^b \in {1, 2, 4, 8, 16, 32, 64, 128}
    <3>1. CASE b = 0
      BY <3>1, Powers
    <3>2. CASE b = 1
      BY <3>2, Powers
    <3>3. CASE b = 2
      BY <3>3, Powers
    <3>4. CASE b = 3
      BY <3>4, Powers
    <3>5. CASE b = 4
      BY <3>5, Powers
    <3>6. CASE b = 5
      BY <3>6, Powers
    <3>7. CASE b = 6
      BY <3>7, Powers
    <3>8. CASE b = 7
      BY <3>8, Powers
    <3> QED
      BY <3>1, <3>2, <3>3, <3>4, <3>5, <3>6, <3>7, <3>8
  <2> HIDE DEF m
  <2> QED
    BY <2>1, <2>2, Zenon
<1>4. Byte(n) = Byte(m)
  <2> HIDE DEF m
  <2>1. \A b \in 0..7 : (n \div 2^b) % 2 = 1 <=> (m \div 2^b) % 2 = 1
    BY <1>3, Zenon
  <2>2. \A b : b \in Byte(n) <=> b \in Byte(m)
    BY <2>1, Zenon DEF Byte
  <2> QED
    BY <2>2, Zenon
<1>5. Number(Byte(n)) = m
  BY <1>1, <1>4, NumberOfByte
<1> HIDE DEF q, m
<1>6. Number(Byte(n)) + 256 * Number(Byte(q)) = n
  BY <1>1, <1>2, <1>5
<1> QED
  BY <1>6 DEF q

LEMMA FourBytes ==
    \A a, b, c, d \in Octets :
        /\ <<a, b, c, d>> \in Seq(Octets) /\ Len(<<a, b, c, d>>) = 4
        /\ <<a, b, c, d>>[3] = c /\ <<a, b, c, d>>[4] = d
OBVIOUS

\* A sequence behind one of four.
LEMMA Headed ==
    ASSUME NEW h \in Seq(Octets), NEW r \in Seq(Octets), Len(h) = 4
    PROVE  /\ h \o r \in Seq(Octets) /\ Len(h \o r) = 4 + Len(r)
           /\ (h \o r)[3] = h[3] /\ (h \o r)[4] = h[4]
<1>1. /\ h \o r \in Seq(Octets) /\ Len(h \o r) = Len(h) + Len(r)
      /\ \A i \in 1..(Len(h) + Len(r)) :
            (h \o r)[i] = IF i <= Len(h) THEN h[i] ELSE r[i - Len(h)]
  BY ConcatProperties
<1>2. Len(r) \in Nat
  BY LenProperties
<1>3. 3 \in 1..(Len(h) + Len(r)) /\ 4 \in 1..(Len(h) + Len(r)) /\ 3 <= Len(h) /\ 4 <= Len(h)
  BY <1>2
<1> QED
  BY <1>1, <1>3

LEMMA FourMore == \A k \in 0..512 : 4 + k >= 4 /\ k = (4 + k) - 4
OBVIOUS

LEMMA PacketSized ==
    ASSUME NEW type, NEW data \in Seq(Octets), Len(data) \in 0..512
    PROVE  Sized(Packet(type, data))
<1> DEFINE h == <<Byte(type), Byte(type \div 256), Byte(Len(data)), Byte(Len(data) \div 256)>>
           p == Packet(type, data)
<1>1. /\ h \in Seq(Octets) /\ Len(h) = 4
      /\ h[3] = Byte(Len(data)) /\ h[4] = Byte(Len(data) \div 256)
  <2>1. PICK a \in Octets, b \in Octets, c \in Octets, d \in Octets :
            /\ a = Byte(type) /\ b = Byte(type \div 256)
            /\ c = Byte(Len(data)) /\ d = Byte(Len(data) \div 256)
    BY ByteOctet, Zenon
  <2>2. h = <<a, b, c, d>>
    BY <2>1, Zenon
  <2> HIDE DEF h
  <2>3. h \in Seq(Octets) /\ Len(h) = 4 /\ h[3] = c /\ h[4] = d
    BY <2>2, FourBytes
  <2> QED
    BY <2>1, <2>3, Zenon
<1>2. p = h \o data
  BY DEF Packet
<1> HIDE DEF h, p
<1>3. /\ p \in Seq(Octets) /\ Len(p) = 4 + Len(data)
      /\ p[3] = Byte(Len(data)) /\ p[4] = Byte(Len(data) \div 256)
  BY <1>1, <1>2, Headed, Zenon
<1>4. Len(data) \in 0..512
  OBVIOUS
<1>5. Size(p) = Len(data)
  <2>1. Number(Byte(Len(data))) + 256 * Number(Byte(Len(data) \div 256)) = Len(data)
    BY <1>4, SizeBytes, Zenon
  <2> QED
    BY <1>3, <2>1 DEF Size
<1>6. p \in Seq(Octets) /\ Len(p) >= 4 /\ Size(p) = Len(p) - 4
  BY <1>3, <1>4, <1>5, FourMore, Zenon
<1> QED
  BY <1>6 DEF Sized, p

LEMMA BehindFour ==
    ASSUME NEW h \in Seq(Octets), NEW r \in Seq(Octets), Len(h) = 4, Len(r) = 6
    PROVE  /\ h \o r \in Seq(Octets) /\ Len(h \o r) = 10
           /\ (h \o r)[5] = r[1] /\ (h \o r)[6] = r[2] /\ (h \o r)[7] = r[3]
           /\ (h \o r)[8] = r[4] /\ (h \o r)[9] = r[5]
<1>1. /\ h \o r \in Seq(Octets) /\ Len(h \o r) = Len(h) + Len(r)
      /\ \A i \in 1..(Len(h) + Len(r)) :
            (h \o r)[i] = IF i <= Len(h) THEN h[i] ELSE r[i - Len(h)]
  BY ConcatProperties
<1>2. ASSUME NEW j \in 5..9 PROVE (h \o r)[j] = r[j - 4]
  <2>1. j \in 1..(Len(h) + Len(r)) /\ ~(j <= Len(h)) /\ j - Len(h) = j - 4
    OBVIOUS
  <2>2. (h \o r)[j] = IF j <= Len(h) THEN h[j] ELSE r[j - Len(h)]
    BY <1>1, <2>1, Zenon
  <2> QED
    BY <2>1, <2>2, Zenon
<1>3. 5 - 4 = 1 /\ 6 - 4 = 2 /\ 7 - 4 = 3 /\ 8 - 4 = 4 /\ 9 - 4 = 5
  OBVIOUS
<1>4. 5 \in 5..9 /\ 6 \in 5..9 /\ 7 \in 5..9 /\ 8 \in 5..9 /\ 9 \in 5..9
  OBVIOUS
<1>5. /\ (h \o r)[5] = r[5 - 4] /\ (h \o r)[6] = r[6 - 4] /\ (h \o r)[7] = r[7 - 4]
      /\ (h \o r)[8] = r[8 - 4] /\ (h \o r)[9] = r[9 - 4]
  BY <1>2, <1>4, Zenon
<1>6. h \o r \in Seq(Octets) /\ Len(h \o r) = 10
  BY <1>1
<1> QED
  BY <1>3, <1>5, <1>6, Zenon

\* Where the board finds the registers in the message.
LEMMA RequestBytes ==
    ASSUME NEW s \in SettingsType
    PROVE  /\ Sized(SetupReq(s)) /\ SetupReq(s) # << >>
           /\ SetupReq(s)[5] = s.PKTLEN /\ SetupReq(s)[6] = s.PKTCTRL0
           /\ SetupReq(s)[7] = s.MDMCFG4 /\ SetupReq(s)[8] = s.IOCFG0
           /\ SetupReq(s)[9] = s.MODE
<1> DEFINE r == Registers(s)
           h == <<Byte(3), Byte(3 \div 256), Byte(Len(r)), Byte(Len(r) \div 256)>>
<1>1. h \in Seq(Octets) /\ Len(h) = 4
  <2>1. /\ Byte(3) \in Octets /\ Byte(3 \div 256) \in Octets
        /\ Byte(Len(r)) \in Octets /\ Byte(Len(r) \div 256) \in Octets
    BY ByteOctet, Zenon
  <2> QED
    BY <2>1, FourBytes
<1>2. /\ r \in Seq(Octets) /\ Len(r) = 6
      /\ r[1] = s.PKTLEN /\ r[2] = s.PKTCTRL0 /\ r[3] = s.MDMCFG4
      /\ r[4] = s.IOCFG0 /\ r[5] = s.MODE
  BY DEF Registers, SettingsType
<1>3. SetupReq(s) = h \o r
  BY DEF SetupReq, Packet
<1>6. Sized(SetupReq(s))
  <2>1. Len(r) \in 0..512
    BY <1>2
  <2>2. SetupReq(s) = Packet(3, r)
    BY DEF SetupReq
  <2> HIDE DEF r
  <2> QED
    BY <1>2, <2>1, <2>2, PacketSized, Zenon
<1> HIDE DEF h, r
<1>4. /\ h \o r \in Seq(Octets) /\ Len(h \o r) = 10
      /\ (h \o r)[5] = r[1] /\ (h \o r)[6] = r[2] /\ (h \o r)[7] = r[3]
      /\ (h \o r)[8] = r[4] /\ (h \o r)[9] = r[5]
  BY <1>1, <1>2, BehindFour
<1>5. Len(<< >>) = 0
  BY EmptySeq
<1> QED
  BY <1>2, <1>3, <1>4, <1>5, <1>6

LEMMA SetupInvInit == SetupInit => SetupInv
<1> SUFFICES ASSUME SetupInit PROVE SetupInv
  OBVIOUS
<1>1. packet = << >> /\ m_settings = Declared
  BY DEF SetupInit, Init
<1>2. Declared \in SettingsType /\ Declared.STATUS = {}
  BY ByteOctet, DistinctBytes DEF Declared, SettingsType
<1> QED
  BY <1>1, <1>2 DEF SetupInv, IsEnabled

LEMMA SetupKeeps == SetupInv /\ [SetupNext]_vars => SetupInv'
<1> SUFFICES ASSUME SetupInv, [SetupNext]_vars PROVE SetupInv'
  OBVIOUS
<1>1. ASSUME NEW s \in InHand, NEW mode \in {TX, RX}, NEW n \in Sizes, Configure(s, mode, n)
      PROVE  SetupInv'
  <2>1. s \in SettingsType /\ n \in Nat
    BY InHandType, SettingsAssumption DEF SetupInv
  <2>2. /\ m_settings' =
             [PKTLEN |-> Byte(n), PKTCTRL0 |-> {}, MDMCFG4 |-> s.MDMCFG4,
              IOCFG0 |-> IF mode = TX THEN Byte(6) ELSE Byte(0),
              MODE |-> mode, STATUS |-> Byte(1)]
        /\ asked' = [MDMCFG4 |-> s.MDMCFG4, size |-> n, mode |-> mode]
        /\ packet' = << >>
    BY <1>1, <2>1, Activated DEF Configure
  <2>3. m_settings' \in SettingsType
    <3>1. {} \in Octets /\ mode \in Octets /\ s.MDMCFG4 \in Octets
      BY <2>1, ByteOctet DEF Octets, SettingsType, TX, RX
    <3> QED
      BY <2>2, <3>1, ByteOctet DEF SettingsType
  <2> QED
    BY <2>1, <2>2, <2>3 DEF SetupInv
<1>2. CASE SendSetupRequest
  <2>1. /\ packet' = SetupReq(m_settings) /\ UNCHANGED <<m_settings, asked>>
        /\ Sized(SetupReq(m_settings))
    BY <1>2, RequestBytes DEF SendSetupRequest, SetupInv
  <2> QED
    BY <2>1 DEF SetupInv, IsEnabled
<1>3. CASE OtherPacket
  <2>0. PICK type \in Types, n \in 0..MaxLength :
            \E data \in [1..n -> Bytes] : packet' = Packet(type, data)
    BY <1>3, Zenon DEF OtherPacket, Next, Build
  <2>1. PICK data \in [1..n -> Bytes] : packet' = Packet(type, data)
    BY <2>0
  <2>2. data \in Seq(Octets) /\ Len(data) \in 0..512
    <3>1. n \in 0..512 /\ n \in Nat
      BY MsgFormatAssumption DEF MAX_DATA_SIZE
    <3>2. data \in [1..n -> Octets]
      BY MsgFormatAssumption DEF Octets
    <3>3. data \in Seq(Octets)
      BY <3>1, <3>2, SeqDef
    <3>4. Len(data) = n
      BY <3>1, <3>2, <3>3, LenProperties
    <3> QED
      BY <3>1, <3>3, <3>4
  <2>3. Sized(packet')
    BY <2>1, <2>2, PacketSized
  <2>4. ~IsEnabled /\ UNCHANGED <<m_settings, asked>>
    BY <1>3 DEF OtherPacket
  <2> QED
    BY <2>3, <2>4 DEF SetupInv, IsEnabled
<1>4. CASE UNCHANGED vars
  BY <1>4 DEF vars, SetupInv, IsEnabled
<1> QED
  BY <1>1, <1>2, <1>3, <1>4 DEF SetupNext

\* SetupInv is inductive.
THEOREM SetupSafety == SetupSpec => []SetupInv
BY SetupInvInit, SetupKeeps, PTL DEF SetupSpec

LEMMA LeftoverBytes == Leftovers \subseteq Seq(Octets)
BY MsgFormatAssumption DEF Octets

LEMMA PacketBytes == ASSUME SetupInv PROVE packet \in Seq(Octets)
<1>1. << >> \in Seq(Octets)
  BY EmptySeq
<1> QED
  BY <1>1 DEF SetupInv, Sized

\* decode returns the packet that encode was given, and its CRC is right, for
\* packets of any bytes and any length, and with any bytes behind it.
THEOREM DecodesWhatWasEncoded == SetupSpec => []RoundTrip
<1>1. SetupInv => RoundTrip
  <2> SUFFICES ASSUME SetupInv, packet # << >>, NEW old \in Leftovers
               PROVE  decode(encode(packet) \o old) = [packet |-> packet, success |-> TRUE]
    BY DEF RoundTrip
  <2>1. Sized(packet) /\ encode(packet) \in Seq(Octets) /\ old \in Seq(Octets)
    BY LeftoverBytes, PacketBytes, Framed DEF SetupInv
  <2>2. Begins(encode(packet) \o old, encode(packet))
    BY <2>1, BufferBegins
  <2> QED
    BY <2>1, <2>2, DecodeEncode
<1> QED
  BY <1>1, SetupSafety, PTL

\* A frame with any one byte changed to any other is refused, but for the bytes
\* of the size, for packets of any bytes and any length.
THEOREM SpoiltBytesRefused == SetupSpec => []SpoiltByteRefused
<1>1. SetupInv => SpoiltByteRefused
  <2> SUFFICES ASSUME SetupInv, packet # << >>,
                      NEW i \in (1..Len(encode(packet))) \ {3, 4}, NEW old \in Leftovers,
                      NEW spoilt \in (SUBSET (0..7)) \ {encode(packet)[i]}
               PROVE  ~decode([encode(packet) EXCEPT ![i] = spoilt] \o old).success
    BY DEF SpoiltByteRefused
  <2> DEFINE f == encode(packet)
             w == [f EXCEPT ![i] = spoilt]
  <2>1. spoilt \in Octets /\ spoilt # f[i] /\ i \in 1..Len(f) /\ i \notin {3, 4}
    <3>1. \A S, T : \A y \in S \ T : y \in S /\ y \notin T
      BY Zenon
    <3>2. spoilt \in SUBSET (0..7) /\ spoilt \notin {f[i]}
      BY <3>1, Zenon
    <3>3. i \in 1..Len(f) /\ i \notin {3, 4}
      BY <3>1, Zenon
    <3> QED
      BY <3>2, <3>3, Zenon DEF Octets
  <2>2. Sized(packet) /\ f \in Seq(Octets) /\ old \in Seq(Octets)
    BY LeftoverBytes, PacketBytes, Framed DEF SetupInv
  <2>3. w \in Seq(Octets)
    BY <2>1, <2>2, ExceptSeq
  <2>4. Begins(w \o old, w)
    BY <2>2, <2>3, BufferBegins
  <2> QED
    BY <2>1, <2>2, <2>4, SpoiltRefused
<1> QED
  BY <1>1, SetupSafety, PTL

\* The board decodes the settings that Configure was given, whatever was
\* configured before, for any length asked for and any PKTCTRL0.
THEOREM BoardIsSetUp == SetupSpec => []BoardSetUp
<1>1. SetupInv => BoardSetUp
  <2> SUFFICES ASSUME SetupInv, IsEnabled, packet # << >> PROVE BoardSetUp
    BY DEF BoardSetUp
  <2> DEFINE heard == decode(encode(packet))
  <2>1. packet = SetupReq(m_settings) /\ Sized(packet) /\ m_settings \in SettingsType
    BY DEF SetupInv
  <2>2. heard.success /\ heard.packet = packet
    <3>1. Begins(encode(packet), encode(packet))
      BY PacketBytes, Framed, BufferBegins
    <3> QED
      BY <2>1, <3>1, DecodeEncode
  <2>3. /\ heard.packet[5] = m_settings.PKTLEN /\ heard.packet[6] = m_settings.PKTCTRL0
        /\ heard.packet[7] = m_settings.MDMCFG4 /\ heard.packet[8] = m_settings.IOCFG0
        /\ heard.packet[9] = m_settings.MODE
    BY <2>1, <2>2, RequestBytes
  <2> HIDE DEF heard
  <2>4. (m_settings.IOCFG0 = Byte(6)) = (asked.mode = TX)
    BY DistinctBytes DEF SetupInv
  <2>5. \A size \in Sizes : Accepts(size) = (Number(m_settings.PKTLEN) = size)
    BY DEF Accepts
  <2>6. Accepts(asked.size) = (asked.size \in 0..255)
    <3>1. m_settings.PKTLEN = Byte(asked.size)
      BY DEF SetupInv
    <3>2. asked.size = Number(Byte(asked.size)) <=> asked.size \in 0..255
      BY NumberOctet, NumberOfByte
    <3> QED
      BY <3>1, <3>2 DEF Accepts
  <2> QED
    BY <2>2, <2>3, <2>4, <2>5, <2>6 DEF BoardSetUp, SetupInv, heard
<1> QED
  BY <1>1, SetupSafety, PTL

\* The CRC is the remainder of the polynomial division, for packets of any bytes
\* and any length.
THEOREM CrcDivides == SetupSpec => []IsRemainder
<1>1. SetupInv => IsRemainder
  BY CrcIsRemainder, PacketBytes DEF IsRemainder
<1> QED
  BY <1>1, SetupSafety, PTL
=============================================================================

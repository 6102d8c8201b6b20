-------------------------- MODULE MonitoringProofs --------------------------
(***************************************************************************)
(* The theorems about the histogram behind the status page and about the  *)
(* failure detector, for every size of the histogram, every set of values *)
(* and every setting of the detector.                                      *)
(***************************************************************************)
EXTENDS Metrics, FailureDetector, FiniteSetTheorems, TLAPS

-----------------------------------------------------------------------------
(* Induction *)

(* A set of numbers has a least one. *)
LEMMA LeastNumber ==
    ASSUME NEW T \in SUBSET Nat, T # {}
    PROVE  \E x \in T : \A y \in T : x <= y
<1> DEFINE R == {ss \in Nat \X Nat : ss[1] < ss[2]}
<1>1. IsWellFoundedOn(R, Nat)
  BY NatLessThanWellFounded DEF OpToRel
<1>2. PICK x \in T : \A y \in T : <<y, x>> \notin R
  BY <1>1, WFMin, Zenon
<1>3. ASSUME NEW y \in T PROVE x <= y
  <2>1. x \in Nat /\ y \in Nat
    OBVIOUS
  <2>2. ~ (y < x)
    BY <1>2, <2>1, Zenon
  <2> QED
    BY <2>1, <2>2
<1> QED
  BY <1>3

(* A set that has 0, and with every number the next one, has them all. *)
LEMMA Induction ==
    ASSUME NEW P, 0 \in P, \A n \in Nat : n \in P => n + 1 \in P
    PROVE  Nat \subseteq P
<1> SUFFICES ASSUME NEW n \in Nat, n \notin P PROVE FALSE
  OBVIOUS
<1> DEFINE T == {k \in Nat : k \notin P}
<1>1. PICK x \in T : \A y \in T : x <= y
  <2>1. T \in SUBSET Nat /\ T # {}
    OBVIOUS
  <2> HIDE DEF T
  <2> QED
    BY <2>1, LeastNumber
<1>2. x \in Nat /\ x # 0 /\ x \notin P
  OBVIOUS
<1>3. x - 1 \in Nat /\ x - 1 + 1 = x
  BY <1>2
<1>4. x - 1 \in P
  BY <1>1, <1>3
<1> QED
  BY <1>2, <1>3, <1>4

(* A value that starts with a and goes from place to place by g *)
Follows(h, n, a, g) == h[0] = a /\ \A k \in 1 .. n : h[k] = g[k][h[k - 1]]

(* A function on the numbers that follows a step function exists. *)
LEMMA Recursion ==
    ASSUME NEW V, NEW a \in V, NEW g \in [Nat -> [V -> V]]
    PROVE  \E f \in [Nat -> V] : \A n \in Nat : Follows(f, n, a, g)
<1> DEFINE P == {n \in Nat : \E h \in [Nat -> V] : Follows(h, n, a, g)}
<1>1. 0 \in P
  <2> DEFINE h == [k \in Nat |-> a]
  <2>1. h \in [Nat -> V] /\ h[0] = a
    OBVIOUS
  <2> HIDE DEF h
  <2> QED
    BY <2>1 DEF Follows
<1>2. ASSUME NEW n \in Nat, n \in P PROVE n + 1 \in P
  <2>1. PICK h \in [Nat -> V] : Follows(h, n, a, g)
    BY <1>2
  <2> DEFINE h2 == [h EXCEPT ![n + 1] = g[n + 1][h[n]]]
  <2>2. g[n + 1][h[n]] \in V
    OBVIOUS
  <2>3. h2 \in [Nat -> V] /\ h2[n + 1] = g[n + 1][h[n]] /\ \A k \in 0 .. n : h2[k] = h[k]
    BY <2>2
  <2> HIDE DEF h2
  <2>4. h2[0] = a
    BY <2>1, <2>3 DEF Follows
  <2>5. ASSUME NEW k \in 1 .. n + 1 PROVE h2[k] = g[k][h2[k - 1]]
    <3>1. CASE k = n + 1
      BY <3>1, <2>3
    <3>2. CASE k \in 1 .. n
      <4>1. k \in 0 .. n /\ k - 1 \in 0 .. n
        BY <3>2
      <4>2. h[k] = g[k][h[k - 1]]
        BY <3>2, <2>1 DEF Follows
      <4> QED
        BY <4>1, <4>2, <2>3
    <3> QED
      BY <3>1, <3>2
  <2> QED
    BY <2>3, <2>4, <2>5 DEF Follows
<1>3. Nat \subseteq P
  <2> HIDE DEF P
  <2> QED
    BY <1>1, <1>2, Induction
<1> DEFINE H(n) == CHOOSE h \in [Nat -> V] : Follows(h, n, a, g)
           f == [n \in Nat |-> H(n)[n]]
<1>4. ASSUME NEW n \in Nat PROVE H(n) \in [Nat -> V] /\ Follows(H(n), n, a, g)
  <2>1. \E h \in [Nat -> V] : Follows(h, n, a, g)
    BY <1>3
  <2> QED
    BY <2>1, Zenon
<1> HIDE DEF H
<1>5. f \in [Nat -> V]
  BY <1>4
<1>6. ASSUME NEW n \in Nat, NEW m \in Nat, n <= m PROVE H(m)[n] = f[n]
  <2> DEFINE Q == {k \in Nat : k <= n => H(m)[k] = H(n)[k]}
  <2>1. 0 \in Q
    BY <1>4 DEF Follows
  <2>2. ASSUME NEW k \in Nat, k \in Q PROVE k + 1 \in Q
    <3> SUFFICES ASSUME k + 1 <= n PROVE H(m)[k + 1] = H(n)[k + 1]
      OBVIOUS
    <3>1. k + 1 \in 1 .. n /\ k + 1 \in 1 .. m /\ k + 1 - 1 = k /\ k <= n
      BY <1>6
    <3>2. H(m)[k] = H(n)[k]
      BY <2>2, <3>1
    <3>3. H(m)[k + 1] = g[k + 1][H(m)[k]] /\ H(n)[k + 1] = g[k + 1][H(n)[k]]
      BY <3>1, <1>4 DEF Follows
    <3> QED
      BY <3>2, <3>3
  <2>3. Nat \subseteq Q
    <3> HIDE DEF Q
    <3> QED
      BY <2>1, <2>2, Induction
  <2> QED
    BY <2>3
<1>7. ASSUME NEW n \in Nat PROVE Follows(f, n, a, g)
  <2>1. f[0] = a
    BY <1>4 DEF Follows
  <2>2. ASSUME NEW k \in 1 .. n PROVE f[k] = g[k][f[k - 1]]
    <3>1. k \in Nat /\ k - 1 \in Nat /\ k - 1 <= k /\ k \in 1 .. k
      OBVIOUS
    <3>2. H(k)[k - 1] = f[k - 1]
      BY <3>1, <1>6
    <3>3. H(k)[k] = g[k][H(k)[k - 1]]
      BY <3>1, <1>4 DEF Follows
    <3> QED
      BY <3>1, <3>2, <3>3
  <2> QED
    BY <2>1, <2>2, Zenon DEF Follows
<1> HIDE DEF f
<1> QED
  BY <1>5, <1>7
-----------------------------------------------------------------------------
(* Numbers *)

(* A set of numbers has a minimum. *)
LEMMA MinIs ==
    ASSUME NEW T \in SUBSET Nat, T # {}
    PROVE  Min(T) \in T /\ \A y \in T : Min(T) <= y
<1>1. \E x \in T : \A y \in T : x <= y
  BY LeastNumber
<1> QED
  BY <1>1, Zenon DEF Min

(* The smaller of two numbers *)
LEMMA MinOfTwo ==
    ASSUME NEW a \in Nat, NEW b \in Nat
    PROVE  Min({a, b}) = IF a <= b THEN a ELSE b
<1>1. {a, b} \in SUBSET Nat /\ {a, b} # {}
  OBVIOUS
<1>2. Min({a, b}) \in {a, b} /\ \A y \in {a, b} : Min({a, b}) <= y
  BY <1>1, MinIs
<1> QED
  BY <1>2

(* The larger of two numbers *)
LEMMA MaxOfTwo ==
    ASSUME NEW a \in Int, NEW b \in Int
    PROVE  Max({a, b}) = IF a <= b THEN b ELSE a
<1>1. \E x \in {a, b} : \A y \in {a, b} : x >= y
  OBVIOUS
<1>2. Max({a, b}) \in {a, b} /\ \A y \in {a, b} : Max({a, b}) >= y
  BY <1>1, Zenon DEF Max
<1> QED
  BY <1>2

(* The powers of two *)
LEMMA Powers ==
    /\ Pow2 \in [Nat -> Nat] /\ Pow2[0] = 1
    /\ \A n \in Nat : Pow2[n + 1] = 2 * Pow2[n]
<1> DEFINE g == [n \in Nat |-> [x \in Nat |-> 2 * x]]
<1>1. g \in [Nat -> [Nat -> Nat]] /\ \A n \in Nat : \A x \in Nat : g[n][x] = 2 * x
  OBVIOUS
<1>2. PICK f \in [Nat -> Nat] : \A n \in Nat : Follows(f, n, 1, g)
  <2> HIDE DEF g
  <2> QED
    BY <1>1, Recursion, Zenon
<1>3. f[0] = 1 /\ \A n \in Nat : n # 0 => f[n] = 2 * f[n - 1]
  <2>1. f[0] = 1
    BY <1>2 DEF Follows
  <2>2. ASSUME NEW n \in Nat, n # 0 PROVE f[n] = 2 * f[n - 1]
    <3>1. n \in 1 .. n /\ n - 1 \in Nat
      BY <2>2
    <3> HIDE DEF g
    <3>2. f[n] = g[n][f[n - 1]]
      BY <3>1, <1>2, Zenon DEF Follows
    <3> QED
      BY <3>1, <3>2, <1>1, Zenon
  <2> QED
    BY <2>1, <2>2
<1>4. f = [n \in Nat |-> IF n = 0 THEN 1 ELSE 2 * f[n - 1]]
  BY <1>3
<1>5. Pow2 = CHOOSE h : h = [n \in Nat |-> IF n = 0 THEN 1 ELSE 2 * h[n - 1]]
  BY DEF Pow2
<1>6. Pow2 = [n \in Nat |-> IF n = 0 THEN 1 ELSE 2 * Pow2[n - 1]]
  BY <1>4, <1>5, Zenon
<1>7. Pow2[0] = 1
  BY <1>6
<1>8. ASSUME NEW n \in Nat PROVE Pow2[n + 1] = 2 * Pow2[n]
  <2>1. n + 1 \in Nat /\ n + 1 # 0 /\ n + 1 - 1 = n
    OBVIOUS
  <2>2. Pow2[n + 1] = 2 * Pow2[n + 1 - 1]
    BY <2>1, <1>6
  <2> QED
    BY <2>1, <2>2
<1>9. ASSUME NEW n \in Nat PROVE Pow2[n] \in Nat
  <2> DEFINE P == {k \in Nat : Pow2[k] \in Nat}
  <2>1. 0 \in P
    BY <1>7
  <2>2. ASSUME NEW k \in Nat, k \in P PROVE k + 1 \in P
    BY <2>2, <1>8
  <2>3. Nat \subseteq P
    <3> HIDE DEF P
    <3> QED
      BY <2>1, <2>2, Induction
  <2> QED
    BY <2>3
<1> QED
  BY <1>6, <1>7, <1>8, <1>9

(* They are positive and grow. *)
LEMMA PowersGrow ==
    /\ \A n \in Nat : n < Pow2[n] /\ Pow2[n] >= 1
    /\ \A n, k \in Nat : Pow2[n] <= Pow2[n + k]
<1>1. ASSUME NEW n \in Nat PROVE n < Pow2[n] /\ Pow2[n] >= 1
  <2> DEFINE P == {k \in Nat : k < Pow2[k] /\ Pow2[k] >= 1}
  <2>1. 0 \in P
    BY Powers
  <2>2. ASSUME NEW k \in Nat, k \in P PROVE k + 1 \in P
    BY <2>2, Powers
  <2>3. Nat \subseteq P
    <3> HIDE DEF P
    <3> QED
      BY <2>1, <2>2, Induction
  <2> QED
    BY <2>3
<1>2. ASSUME NEW n \in Nat, NEW k \in Nat PROVE Pow2[n] <= Pow2[n + k]
  <2> DEFINE P == {j \in Nat : Pow2[n] <= Pow2[n + j]}
  <2>1. 0 \in P
    BY Powers
  <2>2. ASSUME NEW j \in Nat, j \in P PROVE j + 1 \in P
    <3>1. Pow2[n] \in Nat /\ Pow2[n + j] \in Nat /\ Pow2[n] <= Pow2[n + j]
      BY <2>2, Powers
    <3>2. n + j \in Nat /\ n + (j + 1) = (n + j) + 1
      OBVIOUS
    <3>3. Pow2[n + (j + 1)] = 2 * Pow2[n + j]
      BY <3>2, Powers
    <3> QED
      BY <3>1, <3>3
  <2>3. Nat \subseteq P
    <3> HIDE DEF P
    <3> QED
      BY <2>1, <2>2, Induction
  <2> QED
    BY <2>3
<1> QED
  BY <1>1, <1>2

(* Exponents add up. *)
LEMMA PowersMultiply ==
    ASSUME NEW n \in Nat, NEW k \in Nat
    PROVE  Pow2[k + n] = Pow2[n] * Pow2[k]
<1> DEFINE P == {j \in Nat : Pow2[j + n] = Pow2[n] * Pow2[j]}
<1>1. Pow2[n] \in Nat
  BY Powers
<1>2. 0 \in P
  BY <1>1, Powers
<1>3. ASSUME NEW j \in Nat, j \in P PROVE j + 1 \in P
  <2>1. Pow2[j] \in Nat /\ Pow2[j + 1] = 2 * Pow2[j]
    BY Powers
  <2>2. j + n \in Nat /\ (j + 1) + n = (j + n) + 1
    OBVIOUS
  <2>3. Pow2[(j + 1) + n] = 2 * Pow2[j + n]
    BY <2>2, Powers
  <2>4. Pow2[j + n] = Pow2[n] * Pow2[j]
    BY <1>3
  <2>5. 2 * (Pow2[n] * Pow2[j]) = Pow2[n] * (2 * Pow2[j])
    BY <1>1, <2>1
  <2> QED
    BY <2>1, <2>3, <2>4, <2>5
<1>4. Nat \subseteq P
  <2> HIDE DEF P
  <2> QED
    BY <1>2, <1>3, Induction
<1> QED
  BY <1>4

(* A product grows with a factor. *)
LEMMA ProductGrows ==
    ASSUME NEW a \in Nat, NEW b \in Nat, NEW c \in Nat, a <= b
    PROVE  a * c \in Nat /\ b * c \in Nat /\ a * c <= b * c /\ c * a <= c * b /\ c * a = a * c
  OBVIOUS

(* One more of a factor *)
LEMMA OneMore ==
    ASSUME NEW a \in Nat, NEW b \in Nat
    PROVE  (a + 1) * b = b * a + b /\ b * (a + 1) = b * a + b
<1>1. (a + 1) * b = b * a + b
  OBVIOUS
<1>2. b * (a + 1) = b * a + b
  OBVIOUS
<1> QED
  BY <1>1, <1>2, Zenon

(* h adds up s, starting with a. *)
AddsUp(h, n, a, s) == h = [k \in 0 .. n |-> IF k = 0 THEN a ELSE h[k - 1] + s[k]]

(* Such a function exists. *)
LEMMA SumsExist ==
    ASSUME NEW N \in Nat, NEW s, NEW a \in Nat, \A k \in 1 .. N : s[k] \in Nat
    PROVE  \E h : AddsUp(h, N, a, s)
<1> DEFINE t == [k \in Nat |-> IF k \in 1 .. N THEN s[k] ELSE 0]
           g == [k \in Nat |-> [x \in Nat |-> x + t[k]]]
<1>1. t \in [Nat -> Nat] /\ \A k \in 1 .. N : t[k] = s[k]
  OBVIOUS
<1> HIDE DEF t
<1>2. g \in [Nat -> [Nat -> Nat]] /\ \A k \in Nat : \A x \in Nat : g[k][x] = x + t[k]
  BY <1>1
<1> HIDE DEF g
<1>3. PICK f \in [Nat -> Nat] : \A n \in Nat : Follows(f, n, a, g)
  BY <1>2, Recursion, Zenon
<1>4. f[0] = a /\ \A k \in 1 .. N : f[k] = g[k][f[k - 1]]
  BY <1>3 DEF Follows
<1>5. ASSUME NEW k \in 1 .. N PROVE f[k] = f[k - 1] + s[k] /\ k - 1 \in 0 .. N
  <2>1. k \in Nat /\ k - 1 \in Nat /\ k - 1 \in 0 .. N
    OBVIOUS
  <2>2. f[k - 1] \in Nat /\ f[k] = g[k][f[k - 1]]
    BY <2>1, <1>4
  <2>3. g[k][f[k - 1]] = f[k - 1] + t[k]
    BY <2>1, <2>2, <1>2, Zenon
  <2> QED
    BY <2>1, <2>2, <2>3, <1>1
<1> DEFINE h == [k \in 0 .. N |-> f[k]]
<1>6. h = [k \in 0 .. N |-> IF k = 0 THEN a ELSE h[k - 1] + s[k]]
  <2>1. ASSUME NEW k \in 0 .. N PROVE f[k] = IF k = 0 THEN a ELSE h[k - 1] + s[k]
    BY <1>4, <1>5
  <2> QED
    BY <2>1
<1> HIDE DEF h
<1> QED
  BY <1>6, Zenon DEF AddsUp

(* Its values are numbers, and each adds one of s to the one before. *)
Running(U, n, a, s) ==
    /\ U \in [0 .. n -> Nat] /\ U[0] = a
    /\ \A k \in Nat : k + 1 \in 0 .. n => U[k + 1] = U[k] + s[k + 1]

(* What adds up s is a running sum. *)
LEMMA SumsAre ==
    ASSUME NEW N \in Nat, NEW s, NEW a \in Nat, \A k \in 1 .. N : s[k] \in Nat, NEW U
    PROVE  AddsUp(U, N, a, s) => Running(U, N, a, s)
<1>1. ASSUME U = [k \in 0 .. N |-> IF k = 0 THEN a ELSE U[k - 1] + s[k]]
      PROVE  Running(U, N, a, s)
  <2>1. \A k \in 0 .. N : U[k] = IF k = 0 THEN a ELSE U[k - 1] + s[k]
    BY <1>1, Zenon
  <2>2. U[0] = a
    BY <2>1
  <2>3. ASSUME NEW k \in Nat, k + 1 \in 0 .. N PROVE U[k + 1] = U[k] + s[k + 1]
    <3>1. k + 1 # 0 /\ k + 1 - 1 = k
      OBVIOUS
    <3> QED
      BY <3>1, <2>1, <2>3
  <2> DEFINE P == {k \in Nat : k \in 0 .. N => U[k] \in Nat}
  <2>4. 0 \in P
    BY <2>2
  <2>5. ASSUME NEW k \in Nat, k \in P PROVE k + 1 \in P
    <3> SUFFICES ASSUME k + 1 \in 0 .. N PROVE U[k + 1] \in Nat
      OBVIOUS
    <3>1. k \in 0 .. N /\ k + 1 \in 1 .. N
      OBVIOUS
    <3>2. U[k] \in Nat /\ s[k + 1] \in Nat
      BY <3>1, <2>5
    <3> QED
      BY <3>2, <2>3
  <2>6. Nat \subseteq P
    <3> HIDE DEF P
    <3> QED
      BY <2>4, <2>5, Induction
  <2>7. \A k \in 0 .. N : U[k] \in Nat
    BY <2>6
  <2>8. \E u : U = [k \in 0 .. N |-> u[k]]
    <3> DEFINE u == [k \in 0 .. N |-> IF k = 0 THEN a ELSE U[k - 1] + s[k]]
    <3>1. U = u
      BY <1>1, Zenon
    <3>2. u = [k \in 0 .. N |-> u[k]]
      BY Zenon
    <3> QED
      BY <3>1, <3>2, Zenon
  <2>9. U \in [0 .. N -> Nat]
    BY <2>7, <2>8
  <2> QED
    BY <2>2, <2>3, <2>9, Zenon DEF Running
<1> QED
  BY <1>1, Zenon DEF AddsUp

-----------------------------------------------------------------------------
(* Buckets *)

(* The number of sub-buckets, of octaves and of buckets *)
LEMMA Sizes ==
    /\ SubBucketBits \in Nat /\ MaxOctave \in Nat
    /\ SubBucketCount \in Nat /\ SubBucketCount >= 1
    /\ OctaveCount \in Nat /\ OctaveCount >= 1 /\ OctaveCount >= MaxOctave + 1 - SubBucketBits
    /\ OctaveCount * SubBucketCount \in Nat /\ OctaveCount * SubBucketCount >= SubBucketCount
    /\ TotalBuckets \in Nat /\ TotalBuckets = SubBucketCount + OctaveCount * SubBucketCount
<1>1. SubBucketBits \in Nat /\ MaxOctave \in Nat
  BY MetricsAssumption
<1>2. SubBucketCount \in Nat /\ SubBucketCount >= 1
  BY <1>1, Powers, PowersGrow DEF SubBucketCount
<1>3. MaxOctave + 1 - SubBucketBits \in Int
  BY <1>1
<1>4. OctaveCount = IF 1 <= MaxOctave + 1 - SubBucketBits THEN MaxOctave + 1 - SubBucketBits ELSE 1
  BY <1>3, MaxOfTwo DEF OctaveCount
<1>5. OctaveCount \in Nat /\ OctaveCount >= 1 /\ OctaveCount >= MaxOctave + 1 - SubBucketBits
  BY <1>1, <1>3, <1>4
<1>6. 1 * SubBucketCount <= OctaveCount * SubBucketCount /\ OctaveCount * SubBucketCount \in Nat
  BY <1>2, <1>5, ProductGrows
<1> QED
  BY <1>1, <1>2, <1>5, <1>6 DEF TotalBuckets

(* The highest bit of a positive number *)
LEMMA OctaveIs ==
    ASSUME NEW i \in Nat, i >= 1
    PROVE  Octave(i) \in Nat /\ Pow2[Octave(i)] <= i /\ i < Pow2[Octave(i) + 1]
<1> DEFINE T == {n \in Nat : i < Pow2[n]}
<1>1. T \in SUBSET Nat /\ T # {}
  BY PowersGrow
<1>2. PICK x \in T : \A y \in T : x <= y
  <2> HIDE DEF T
  <2> QED
    BY <1>1, LeastNumber
<1>3. x \in Nat /\ i < Pow2[x] /\ x # 0
  BY Powers
<1>4. x - 1 \in Nat /\ x - 1 + 1 = x /\ ~ (i < Pow2[x - 1])
  BY <1>2, <1>3
<1>5. Pow2[x - 1] \in Nat /\ x - 1 < Pow2[x - 1]
  BY <1>4, Powers, PowersGrow
<1>6. x - 1 \in 0 .. i /\ Pow2[x - 1] <= i /\ i < Pow2[x - 1 + 1]
  BY <1>3, <1>4, <1>5
<1>7. \E e \in 0 .. i : Pow2[e] <= i /\ i < Pow2[e + 1]
  BY <1>6, Zenon
<1>8. Octave(i) \in 0 .. i /\ Pow2[Octave(i)] <= i /\ i < Pow2[Octave(i) + 1]
  BY <1>7, Zenon DEF Octave
<1> QED
  BY <1>8

(* Octave s (from the first that is divided) and place q in it are those of  *)
(* the whole number i.                                                       *)
At(i, s, q) ==
    /\ s \in Nat /\ q \in Nat /\ SubBucketCount <= q /\ q < 2 * SubBucketCount
    /\ Pow2[s] * q <= i /\ i < Pow2[s] * q + Pow2[s]

(* How an index counts these *)
Raw(s, q) == s * SubBucketCount + q

(* _value_to_index finds the place of a value. *)
LEMMA IndexIs ==
    ASSUME NEW v \in Nat, v \div 2 >= SubBucketCount
    PROVE  \E s, q \in Nat : At(v \div 2, s, q) /\ ValueToIndex(v) = Min({Raw(s, q), TotalBuckets - 1})
<1> DEFINE i == v \div 2
           e == Octave(i)
           s == e - SubBucketBits
           w == Pow2[s]
           q == i \div w
<1>1. i \in Nat /\ i >= 1 /\ i >= SubBucketCount
  BY Sizes
<1>2. e \in Nat /\ Pow2[e] <= i /\ i < Pow2[e + 1]
  <2> HIDE DEF i
  <2> QED
    BY <1>1, OctaveIs
<1> HIDE DEF i, e
<1>3. e >= SubBucketBits
  <2> SUFFICES ASSUME e < SubBucketBits PROVE FALSE
    BY <1>2, Sizes
  <2>1. e + 1 \in Nat /\ SubBucketBits - (e + 1) \in Nat /\ SubBucketBits = (e + 1) + (SubBucketBits - (e + 1))
    BY <1>2, Sizes
  <2>2. Pow2[e + 1] <= SubBucketCount /\ Pow2[e + 1] \in Nat
    BY <2>1, PowersGrow, Powers, Zenon DEF SubBucketCount
  <2> QED
    BY <2>2, <1>1, <1>2, Sizes
<1>4. s \in Nat /\ s + SubBucketBits = e /\ (s + 1) + SubBucketBits = e + 1 /\ s + 1 \in Nat
  BY <1>2, <1>3, Sizes
<1>5. w \in Nat /\ w >= 1 /\ Pow2[s + 1] = 2 * w
  <2> HIDE DEF s
  <2> QED
    BY <1>4, Powers, PowersGrow
<1>6. Pow2[e] = SubBucketCount * w /\ Pow2[e + 1] = SubBucketCount * (2 * w)
  <2> HIDE DEF s
  <2>1. Pow2[s + SubBucketBits] = Pow2[SubBucketBits] * Pow2[s]
    BY <1>4, Sizes, PowersMultiply, Zenon
  <2>2. Pow2[(s + 1) + SubBucketBits] = Pow2[SubBucketBits] * Pow2[s + 1]
    BY <1>4, Sizes, PowersMultiply
  <2> QED
    BY <1>4, <1>5, <2>1, <2>2 DEF SubBucketCount
<1> HIDE DEF w
<1>7. q \in Nat /\ w * q <= i /\ i < w * q + w
  BY <1>1, <1>5
<1>8. q >= SubBucketCount
  <2> HIDE DEF q
  <2> SUFFICES ASSUME q + 1 <= SubBucketCount PROVE FALSE
    BY <1>7, Sizes
  <2>1. (q + 1) * w <= SubBucketCount * w
    BY <1>5, <1>7, Sizes, ProductGrows
  <2>2. (q + 1) * w = w * q + w
    BY <1>5, <1>7
  <2> QED
    BY <2>1, <2>2, <1>1, <1>2, <1>5, <1>6, <1>7, Sizes
<1>9. q < 2 * SubBucketCount
  <2> HIDE DEF q
  <2> SUFFICES ASSUME 2 * SubBucketCount <= q PROVE FALSE
    BY <1>7, Sizes
  <2>1. (2 * SubBucketCount) * w <= q * w /\ q * w = w * q
    BY <1>5, <1>7, Sizes, ProductGrows
  <2>2. (2 * SubBucketCount) * w = SubBucketCount * (2 * w)
    BY <1>5, Sizes
  <2> QED
    BY <2>1, <2>2, <1>1, <1>2, <1>5, <1>6, <1>7, Sizes
<1>10. At(i, s, q)
  <2> HIDE DEF s, q
  <2> QED
    BY <1>4, <1>7, <1>8, <1>9 DEF At, w
<1>11. ValueToIndex(v) = Min({SubBucketCount + s * SubBucketCount + (q % SubBucketCount), TotalBuckets - 1})
  <2>1. ~ (i < SubBucketCount)
    BY <1>1, Sizes
  <2> QED
    BY <2>1, Zenon DEF ValueToIndex, i, e, w
<1>12. q % SubBucketCount = q - SubBucketCount
  <2> HIDE DEF q
  <2>1. q \div SubBucketCount = 1
    BY <1>7, <1>8, <1>9, Sizes
  <2>2. q = SubBucketCount * (q \div SubBucketCount) + (q % SubBucketCount)
    BY <1>7, Sizes
  <2>3. q % SubBucketCount \in Int
    BY <1>7, Sizes
  <2> QED
    BY <2>1, <2>2, <2>3, <1>7, Sizes
<1>13. SubBucketCount + s * SubBucketCount + (q % SubBucketCount) = Raw(s, q)
  <2> HIDE DEF s, q
  <2>1. s * SubBucketCount \in Int
    BY <1>4, Sizes
  <2> QED
    BY <1>7, <1>12, <2>1, Sizes DEF Raw
<1> HIDE DEF s, q
<1> QED
  BY <1>4, <1>7, <1>10, <1>11, <1>13, Zenon DEF i

(* An octave ends before the next, in values and in indices. *)
LEMMA OctavesInOrder ==
    ASSUME NEW s \in Nat, NEW t \in Nat, s + 1 <= t, NEW q \in Nat, NEW r \in Nat,
           q < 2 * SubBucketCount, SubBucketCount <= r
    PROVE  Pow2[s] * q + Pow2[s] <= Pow2[t] * r /\ Raw(s, q) < Raw(t, r)
<1>1. Pow2[s] \in Nat /\ Pow2[t] \in Nat /\ Pow2[s] * q \in Nat /\ Pow2[t] * r \in Nat
  BY Powers
<1>2. 2 * Pow2[s] <= Pow2[t]
  <2>1. s + 1 \in Nat /\ t - (s + 1) \in Nat /\ (s + 1) + (t - (s + 1)) = t
    OBVIOUS
  <2> QED
    BY <2>1, PowersGrow, Powers, Zenon
<1>3. (q + 1) * Pow2[s] <= (2 * SubBucketCount) * Pow2[s]
  BY <1>1, Sizes, ProductGrows
<1>4. (q + 1) * Pow2[s] = Pow2[s] * q + Pow2[s]
  BY <1>1, OneMore, Zenon
<1>5. (2 * SubBucketCount) * Pow2[s] = SubBucketCount * (2 * Pow2[s])
  BY <1>1, Sizes
<1>6. SubBucketCount * (2 * Pow2[s]) <= SubBucketCount * Pow2[t]
  BY <1>1, <1>2, Sizes, ProductGrows
<1>7. SubBucketCount * Pow2[t] <= Pow2[t] * r
  BY <1>1, Sizes, ProductGrows
<1>8. SubBucketCount * (2 * Pow2[s]) \in Nat /\ SubBucketCount * Pow2[t] \in Nat
  BY <1>1, Sizes
<1>9. Pow2[s] * q + Pow2[s] <= Pow2[t] * r
  BY <1>1, <1>3, <1>4, <1>5, <1>6, <1>7, <1>8
<1>10. (s + 1) * SubBucketCount <= t * SubBucketCount
  BY Sizes, ProductGrows
<1>11. (s + 1) * SubBucketCount = SubBucketCount * s + SubBucketCount /\ SubBucketCount * s = s * SubBucketCount
  BY Sizes, OneMore
<1>12. s * SubBucketCount \in Nat /\ t * SubBucketCount \in Nat
  BY Sizes
<1> QED
  BY <1>9, <1>10, <1>11, <1>12, Sizes DEF Raw

(* Places of one octave are in order, and an octave ends before the next. *)
LEMMA PlacesInOrder ==
    ASSUME NEW i \in Nat, NEW j \in Nat, i <= j, NEW s, NEW q, NEW t, NEW r, At(i, s, q), At(j, t, r)
    PROVE  Raw(s, q) \in Nat /\ Raw(t, r) \in Nat /\ Raw(s, q) <= Raw(t, r)
<1>1. /\ s \in Nat /\ q \in Nat /\ t \in Nat /\ r \in Nat
      /\ SubBucketCount <= q /\ q < 2 * SubBucketCount
      /\ SubBucketCount <= r /\ r < 2 * SubBucketCount
  BY DEF At
<1>2. /\ Pow2[s] \in Nat /\ Pow2[s] >= 1 /\ Pow2[t] \in Nat /\ Pow2[t] >= 1
      /\ Pow2[s] * q \in Nat /\ Pow2[t] * r \in Nat
  <2>1. Pow2[s] \in Nat /\ Pow2[s] >= 1 /\ Pow2[t] \in Nat /\ Pow2[t] >= 1
    BY <1>1, Powers, PowersGrow, Zenon
  <2>2. Pow2[s] * q \in Nat /\ Pow2[t] * r \in Nat
    BY <1>1, <2>1
  <2> QED
    BY <2>1, <2>2, Zenon
<1>3. Pow2[s] * q < Pow2[t] * r + Pow2[t]
  BY <1>2 DEF At
<1>4. s * SubBucketCount \in Nat /\ t * SubBucketCount \in Nat
  BY <1>1, Sizes
<1>5. CASE s = t
  <2>1. q <= r
    <3> SUFFICES ASSUME r + 1 <= q PROVE FALSE
      BY <1>1
    <3>1. Pow2[t] * (r + 1) <= Pow2[t] * q
      BY <1>1, <1>2, ProductGrows
    <3>2. Pow2[t] * (r + 1) = Pow2[t] * r + Pow2[t]
      BY <1>1, <1>2, OneMore, Zenon
    <3> QED
      BY <3>1, <3>2, <1>2, <1>3, <1>5
  <2> QED
    BY <2>1, <1>1, <1>4, <1>5 DEF Raw
<1>6. CASE s + 1 <= t
  BY <1>1, <1>4, <1>6, OctavesInOrder, Sizes DEF Raw
<1>7. CASE t + 1 <= s
  BY <1>1, <1>2, <1>3, <1>7, OctavesInOrder
<1> QED
  BY <1>1, <1>5, <1>6, <1>7

(* An index is that of a bucket, and grows with the value. *)
LEMMA IndexInBuckets ==
    ASSUME NEW v \in Nat
    PROVE  ValueToIndex(v) \in Buckets /\ (v \div 2 < SubBucketCount => ValueToIndex(v) = v \div 2)
<1>1. v \div 2 \in Nat
  OBVIOUS
<1>2. CASE v \div 2 < SubBucketCount
  <2>1. ValueToIndex(v) = v \div 2
    BY <1>2 DEF ValueToIndex
  <2> QED
    BY <2>1, <1>1, <1>2, Sizes DEF Buckets
<1>3. CASE v \div 2 >= SubBucketCount
  <2>1. PICK s, q \in Nat : At(v \div 2, s, q) /\ ValueToIndex(v) = Min({Raw(s, q), TotalBuckets - 1})
    BY <1>3, IndexIs, Zenon
  <2>2. Raw(s, q) \in Nat /\ TotalBuckets - 1 \in Nat
    BY <2>1, <1>1, PlacesInOrder, Sizes
  <2>3. ValueToIndex(v) = IF Raw(s, q) <= TotalBuckets - 1 THEN Raw(s, q) ELSE TotalBuckets - 1
    BY <2>1, <2>2, MinOfTwo
  <2> QED
    BY <2>2, <2>3, <1>1, <1>3, Sizes DEF Buckets
<1> QED
  BY <1>1, <1>2, <1>3, Sizes

(* An index grows with the value. *)
LEMMA IndexGrows ==
    ASSUME NEW u \in Nat, NEW v \in Nat, u <= v
    PROVE  ValueToIndex(u) <= ValueToIndex(v)
<1>1. u \div 2 \in Nat /\ v \div 2 \in Nat /\ u \div 2 <= v \div 2
  OBVIOUS
<1>2. /\ v \div 2 < SubBucketCount => ValueToIndex(v) = v \div 2
      /\ u \div 2 < SubBucketCount => ValueToIndex(u) = u \div 2
  BY IndexInBuckets
<1>3. CASE v \div 2 < SubBucketCount
  BY <1>1, <1>2, <1>3, Sizes
<1>4. CASE v \div 2 >= SubBucketCount
  <2>1. PICK t, r \in Nat : At(v \div 2, t, r) /\ ValueToIndex(v) = Min({Raw(t, r), TotalBuckets - 1})
    BY <1>4, IndexIs, Zenon
  <2>2. Raw(t, r) \in Nat /\ TotalBuckets - 1 \in Nat
    BY <2>1, <1>1, PlacesInOrder, Sizes
  <2>3. ValueToIndex(v) = IF Raw(t, r) <= TotalBuckets - 1 THEN Raw(t, r) ELSE TotalBuckets - 1
    BY <2>1, <2>2, MinOfTwo
  <2>4. CASE u \div 2 < SubBucketCount
    <3>1. t * SubBucketCount \in Nat /\ SubBucketCount <= r
      BY <2>1, Sizes DEF At
    <3>2. SubBucketCount <= Raw(t, r)
      BY <3>1, Sizes DEF Raw
    <3> QED
      BY <3>2, <2>2, <2>3, <2>4, <1>1, <1>2, Sizes
  <2>5. CASE u \div 2 >= SubBucketCount
    <3>1. PICK s, q \in Nat : At(u \div 2, s, q) /\ ValueToIndex(u) = Min({Raw(s, q), TotalBuckets - 1})
      BY <2>5, IndexIs, Zenon
    <3>2. Raw(s, q) \in Nat /\ Raw(s, q) <= Raw(t, r)
      BY <2>1, <3>1, <1>1, PlacesInOrder
    <3>3. ValueToIndex(u) = IF Raw(s, q) <= TotalBuckets - 1 THEN Raw(s, q) ELSE TotalBuckets - 1
      BY <3>1, <3>2, <2>2, MinOfTwo
    <3> QED
      BY <3>2, <3>3, <2>2, <2>3
  <2> QED
    BY <2>4, <2>5, <1>1, Sizes
<1> QED
  BY <1>1, <1>3, <1>4, Sizes

(* The middle of a bucket, by its octave and place *)
LEMMA ApproxIs ==
    ASSUME NEW s \in Nat, NEW q \in Nat, SubBucketCount <= q, q < 2 * SubBucketCount
    PROVE  /\ Raw(s, q) \in Nat /\ Raw(s, q) >= SubBucketCount /\ Pow2[s] * q \in Nat
           /\ IndexToApproxValue(Raw(s, q)) = 2 * (Pow2[s] * q) + Pow2[s]
<1> DEFINE b == Raw(s, q)
           o == b - SubBucketCount
<1>1. s * SubBucketCount \in Nat /\ Pow2[s] \in Nat /\ Pow2[s] * q \in Nat /\ Pow2[s] * SubBucketCount \in Nat
  BY Powers, Sizes
<1>2. b \in Nat /\ b >= SubBucketCount /\ o = SubBucketCount * s + (q - SubBucketCount) /\ o \in Nat
  BY <1>1, Sizes DEF Raw
<1> HIDE DEF b, o
<1>3. o \div SubBucketCount = s
  <2>1. SubBucketCount * s \in Nat /\ SubBucketCount * s <= o /\ o < SubBucketCount * s + SubBucketCount
    BY <1>1, <1>2, Sizes
  <2> QED
    BY <2>1, <1>2, Sizes
<1>4. o % SubBucketCount = q - SubBucketCount
  <2>1. o = SubBucketCount * (o \div SubBucketCount) + (o % SubBucketCount)
    BY <1>2, Sizes
  <2>2. o % SubBucketCount \in Int /\ SubBucketCount * s \in Int
    BY <1>2, Sizes
  <2> QED
    BY <2>1, <2>2, <1>2, <1>3, Sizes
<1>5. Pow2[s + SubBucketBits] = SubBucketCount * Pow2[s]
  BY Sizes, PowersMultiply DEF SubBucketCount
<1>6. IndexToApproxValue(b)
        = 2 * (Pow2[s + SubBucketBits] + (q - SubBucketCount) * Pow2[s]) + Pow2[s]
  <2>1. ~ (b < SubBucketCount)
    BY <1>2, Sizes
  <2> QED
    BY <2>1, <1>3, <1>4, Zenon DEF IndexToApproxValue, o
<1>7. (q - SubBucketCount) * Pow2[s] = Pow2[s] * q - SubBucketCount * Pow2[s]
  BY <1>1, Sizes
<1> QED
  BY <1>1, <1>2, <1>5, <1>6, <1>7, Sizes DEF b

(* Every bucket behind the linear ones has an octave and a place. *)
LEMMA BucketAt ==
    ASSUME NEW b \in Nat, b >= SubBucketCount
    PROVE  \E s, q \in Nat : SubBucketCount <= q /\ q < 2 * SubBucketCount /\ b = Raw(s, q)
<1> DEFINE o == b - SubBucketCount
           s == o \div SubBucketCount
           q == SubBucketCount + (o % SubBucketCount)
<1>1. o \in Nat
  BY Sizes
<1> HIDE DEF o
<1>2. s \in Nat
  BY <1>1, Sizes
<1>3. o % SubBucketCount \in 0 .. SubBucketCount - 1
  BY <1>1, Sizes
<1>4. o = SubBucketCount * s + (o % SubBucketCount)
  BY <1>1, Sizes
<1>5. SubBucketCount * s = s * SubBucketCount /\ s * SubBucketCount \in Nat
  <2> HIDE DEF s
  <2> QED
    BY <1>2, Sizes
<1> HIDE DEF s
<1>6. q \in Nat /\ SubBucketCount <= q /\ q < 2 * SubBucketCount
  BY <1>3, Sizes
<1>7. b = Raw(s, q)
  BY <1>3, <1>4, <1>5, Sizes DEF Raw, o
<1> HIDE DEF q
<1> QED
  BY <1>2, <1>6, <1>7

(* The middles of buckets grow. *)
LEMMA ApproxGrows ==
    ASSUME NEW b \in Nat, NEW c \in Nat, b <= c
    PROVE  /\ IndexToApproxValue(b) \in Nat /\ IndexToApproxValue(c) \in Nat
           /\ IndexToApproxValue(b) <= IndexToApproxValue(c)
<1>1. ASSUME NEW d \in Nat, d < SubBucketCount PROVE IndexToApproxValue(d) = 2 * d + 1
  BY <1>1 DEF IndexToApproxValue
<1>2. CASE c < SubBucketCount
  BY <1>1, <1>2, Sizes
<1>3. CASE c >= SubBucketCount
  <2>1. PICK t, r \in Nat : SubBucketCount <= r /\ r < 2 * SubBucketCount /\ c = Raw(t, r)
    BY <1>3, BucketAt
  <2>2. Pow2[t] * r \in Nat /\ IndexToApproxValue(c) = 2 * (Pow2[t] * r) + Pow2[t]
    BY <2>1, ApproxIs
  <2>3. Pow2[t] \in Nat /\ Pow2[t] >= 1
    BY Powers, PowersGrow
  <2>4. CASE b < SubBucketCount
    <3>1. 1 * r <= Pow2[t] * r
      BY <2>3, ProductGrows
    <3> QED
      BY <3>1, <2>1, <2>2, <2>3, <2>4, <1>1, Sizes
  <2>5. CASE b >= SubBucketCount
    <3>1. PICK s, q \in Nat : SubBucketCount <= q /\ q < 2 * SubBucketCount /\ b = Raw(s, q)
      BY <2>5, BucketAt
    <3>2. Pow2[s] * q \in Nat /\ IndexToApproxValue(b) = 2 * (Pow2[s] * q) + Pow2[s]
      BY <3>1, ApproxIs
    <3>3. Pow2[s] \in Nat /\ Pow2[s] >= 1 /\ s * SubBucketCount \in Nat /\ t * SubBucketCount \in Nat
      BY Powers, PowersGrow, Sizes
    <3>4. CASE s = t
      <4>1. q <= r
        BY <3>1, <3>3, <3>4, <2>1 DEF Raw
      <4>2. Pow2[s] * q <= Pow2[s] * r
        BY <4>1, <3>3, ProductGrows
      <4> QED
        BY <4>2, <3>2, <3>3, <3>4, <2>2
    <3>5. CASE s + 1 <= t
      <4>1. Pow2[s] * q + Pow2[s] <= Pow2[t] * r
        BY <3>1, <3>5, <2>1, OctavesInOrder
      <4> QED
        BY <4>1, <3>2, <3>3, <2>2, <2>3
    <3>6. CASE t + 1 <= s
      <4>1. Raw(t, r) < Raw(s, q)
        BY <3>1, <3>6, <2>1, OctavesInOrder
      <4> QED
        BY <4>1, <3>1, <2>1
    <3> QED
      BY <3>4, <3>5, <3>6
  <2> QED
    BY <2>4, <2>5, Sizes
<1> QED
  BY <1>2, <1>3, Sizes

(* The middle of the bucket of a value is close to the value. *)
LEMMA BucketError ==
    ASSUME NEW v \in Nat
    PROVE  LET e == Distance(IndexToApproxValue(ValueToIndex(v)), v)
           IN  /\ e \in Nat
               /\ v < 2 * SubBucketCount => e <= 1
               /\ v >= 2 * SubBucketCount /\ v < 2 * Pow2[Max({MaxOctave, SubBucketBits}) + 1]
                    => e * SubBucketCount <= v
<1> DEFINE a == IndexToApproxValue(ValueToIndex(v))
           m == Max({MaxOctave, SubBucketBits})
<1>1. a \in Nat /\ Distance(a, v) \in Nat
  <2>1. ValueToIndex(v) \in Nat
    BY IndexInBuckets, Sizes DEF Buckets
  <2>2. a \in Nat
    BY <2>1, ApproxGrows
  <2> QED
    BY <2>2 DEF Distance
<1>2. ASSUME v < 2 * SubBucketCount PROVE Distance(a, v) <= 1
  <2>1. v \div 2 \in Nat /\ v \div 2 < SubBucketCount
    BY <1>2, Sizes
  <2>2. a = 2 * (v \div 2) + 1
    BY <2>1, IndexInBuckets DEF IndexToApproxValue
  <2> QED
    BY <2>2 DEF Distance
<1>3. ASSUME v >= 2 * SubBucketCount, v < 2 * Pow2[m + 1] PROVE Distance(a, v) * SubBucketCount <= v
  <2>1. v \div 2 \in Nat /\ v \div 2 >= SubBucketCount
    BY <1>3, Sizes
  <2>2. PICK s, q \in Nat : At(v \div 2, s, q) /\ ValueToIndex(v) = Min({Raw(s, q), TotalBuckets - 1})
    BY <2>1, IndexIs, Zenon
  <2>3. SubBucketCount <= q /\ q < 2 * SubBucketCount
    BY <2>2 DEF At
  <2>4. Pow2[s] \in Nat /\ Pow2[s] >= 1 /\ Pow2[s] * q \in Nat /\ Pow2[s] * SubBucketCount \in Nat
    BY Powers, PowersGrow, Sizes
  <2>5. Pow2[s] * SubBucketCount <= Pow2[s] * q
    BY <2>3, <2>4, Sizes, ProductGrows
  <2>6. Pow2[s] * SubBucketCount <= v \div 2
    BY <2>1, <2>2, <2>4, <2>5 DEF At
  <2>7. m \in Nat /\ m >= SubBucketBits /\ m + 1 - SubBucketBits <= OctaveCount
    <3>1. m = IF MaxOctave <= SubBucketBits THEN SubBucketBits ELSE MaxOctave
      BY MaxOfTwo, Sizes
    <3> HIDE DEF m
    <3> QED
      BY <3>1, Sizes
  <2> HIDE DEF m
  <2>8. s + 1 <= OctaveCount
    <3> SUFFICES ASSUME OctaveCount <= s PROVE FALSE
      BY Sizes
    <3>1. s + SubBucketBits >= m + 1
      BY <2>7, Sizes
    <3>2. m + 1 \in Nat /\ s + SubBucketBits - (m + 1) \in Nat
             /\ (m + 1) + (s + SubBucketBits - (m + 1)) = s + SubBucketBits
      BY <3>1, <2>7, Sizes
    <3>3. Pow2[m + 1] <= Pow2[s + SubBucketBits] /\ Pow2[m + 1] \in Nat
      BY <3>2, PowersGrow, Powers, Zenon
    <3>4. Pow2[s + SubBucketBits] = SubBucketCount * Pow2[s]
      BY Sizes, PowersMultiply DEF SubBucketCount
    <3>5. SubBucketCount * Pow2[s] = Pow2[s] * SubBucketCount
      BY <2>4, Sizes
    <3> QED
      BY <3>3, <3>4, <3>5, <2>4, <2>6, <1>3
  <2>9. Raw(s, q) \in Nat /\ Raw(s, q) < TotalBuckets
    <3>1. (s + 1) * SubBucketCount <= OctaveCount * SubBucketCount
      BY <2>8, Sizes, ProductGrows
    <3>2. (s + 1) * SubBucketCount = SubBucketCount * s + SubBucketCount /\ SubBucketCount * s = s * SubBucketCount
      BY Sizes, OneMore
    <3>3. s * SubBucketCount \in Nat
      BY Sizes
    <3> QED
      BY <3>1, <3>2, <3>3, <2>3, Sizes DEF Raw
  <2>10. ValueToIndex(v) = Raw(s, q)
    <3>1. TotalBuckets - 1 \in Nat /\ Raw(s, q) <= TotalBuckets - 1
      BY <2>9, Sizes
    <3> QED
      BY <3>1, <2>2, <2>9, MinOfTwo
  <2>11. a = 2 * (Pow2[s] * q) + Pow2[s]
    BY <2>3, <2>10, ApproxIs
  <2>12. Pow2[s] * q <= v \div 2 /\ v \div 2 < Pow2[s] * q + Pow2[s]
    BY <2>2 DEF At
  <2> HIDE DEF a
  <2>13. Distance(a, v) <= Pow2[s]
    BY <2>4, <2>11, <2>12 DEF Distance
  <2>14. Distance(a, v) * SubBucketCount <= Pow2[s] * SubBucketCount
    BY <2>4, <2>13, <1>1, Sizes, ProductGrows
  <2>15. Distance(a, v) * SubBucketCount \in Nat
    BY <1>1, Sizes
  <2> QED
    BY <2>4, <2>6, <2>14, <2>15
<1> HIDE DEF a, m
<1> QED
  BY <1>1, <1>2, <1>3 DEF a, m

-----------------------------------------------------------------------------
(* Ranks *)

(* A rank is that of some sample, and grows with the quantile. *)
LEMMA Ranks ==
    ASSUME NEW n \in Nat, n > 0
    PROVE  /\ DOMAIN Quantiles = 1 .. 4 /\ Len(Quantiles) = 4
           /\ \A i \in 1 .. 4 : /\ Quantiles[i][1] # 0 /\ ~ (Quantiles[i][1] >= Quantiles[i][2])
                                /\ Rank(Quantiles[i], n) \in 1 .. n
           /\ \A i, j \in 1 .. 4 : i <= j => Rank(Quantiles[i], n) <= Rank(Quantiles[j], n)
<1>1. DOMAIN Quantiles = 1 .. 4 /\ Len(Quantiles) = 4
  BY DEF Quantiles
<1>2. /\ Quantiles[1] = <<1, 2>> /\ Quantiles[2] = <<95, 100>>
      /\ Quantiles[3] = <<99, 100>> /\ Quantiles[4] = <<999, 1000>>
  BY DEF Quantiles
<1>3. Rank(Quantiles[1], n) = (1 * n + 2 - 1) \div 2
  BY <1>2 DEF Rank
<1>4. Rank(Quantiles[2], n) = (95 * n + 100 - 1) \div 100
  BY <1>2 DEF Rank
<1>5. Rank(Quantiles[3], n) = (99 * n + 100 - 1) \div 100
  BY <1>2 DEF Rank
<1>6. Rank(Quantiles[4], n) = (999 * n + 1000 - 1) \div 1000
  BY <1>2 DEF Rank
<1>7. /\ Rank(Quantiles[1], n) \in 1 .. n /\ Rank(Quantiles[2], n) \in 1 .. n
      /\ Rank(Quantiles[3], n) \in 1 .. n /\ Rank(Quantiles[4], n) \in 1 .. n
      /\ Rank(Quantiles[1], n) <= Rank(Quantiles[2], n)
      /\ Rank(Quantiles[2], n) <= Rank(Quantiles[3], n)
      /\ Rank(Quantiles[3], n) <= Rank(Quantiles[4], n)
  BY <1>3, <1>4, <1>5, <1>6
<1>8. ASSUME NEW i \in 1 .. 4 PROVE Quantiles[i][1] # 0 /\ ~ (Quantiles[i][1] >= Quantiles[i][2])
  <2>1. i = 1 \/ i = 2 \/ i = 3 \/ i = 4
    OBVIOUS
  <2> QED
    BY <2>1, <1>2
<1>9. ASSUME NEW i \in 1 .. 4, NEW j \in 1 .. 4, i <= j PROVE Rank(Quantiles[i], n) <= Rank(Quantiles[j], n)
  <2>1. (i = 1 \/ i = 2 \/ i = 3 \/ i = 4) /\ (j = 1 \/ j = 2 \/ j = 3 \/ j = 4)
    OBVIOUS
  <2> QED
    BY <2>1, <1>7, <1>9
<1>10. ASSUME NEW i \in 1 .. 4 PROVE Rank(Quantiles[i], n) \in 1 .. n
  <2>1. i = 1 \/ i = 2 \/ i = 3 \/ i = 4
    OBVIOUS
  <2> QED
    BY <2>1, <1>7, Zenon
<1> QED
  BY <1>1, <1>8, <1>9, <1>10

-----------------------------------------------------------------------------
(* Sums *)

(* The sum up to each bucket *)
LEMMA Sums ==
    ASSUME NEW c \in [Buckets -> Nat]
    PROVE  /\ Cumulative(c) \in [Buckets -> Nat] /\ Cumulative(c)[0] = c[0]
           /\ \A k \in Nat : k + 1 \in Buckets =>
                 k \in Buckets /\ Cumulative(c)[k + 1] = Cumulative(c)[k] + c[k + 1]
<1> DEFINE N == TotalBuckets - 1
           U == CHOOSE u : u = [b \in Buckets |-> IF b = 0 THEN c[0] ELSE u[b - 1] + c[b]]
<1>1. N \in Nat /\ Buckets = 0 .. N
  BY Sizes DEF Buckets
<1> HIDE DEF N
<1>2. c[0] \in Nat /\ \A k \in 1 .. N : c[k] \in Nat
  BY <1>1
<1>3. U = CHOOSE u : AddsUp(u, N, c[0], c)
  BY <1>1, Zenon DEF AddsUp
<1>4. \E h : AddsUp(h, N, c[0], c)
  BY <1>1, <1>2, SumsExist, Zenon
<1> HIDE DEF U
<1>5. AddsUp(U, N, c[0], c)
  BY <1>3, <1>4, Zenon
<1>6. Running(U, N, c[0], c)
  BY <1>1, <1>2, <1>5, SumsAre, Zenon
<1>7. \A k \in Nat : k + 1 \in 0 .. N => k \in 0 .. N
  BY <1>1
<1>8. Cumulative(c) = U
  BY DEF Cumulative, U
<1> QED
  BY <1>1, <1>6, <1>7, <1>8, Zenon DEF Running

(* One more value in bucket j is one more up to j and every later bucket. *)
LEMMA SumsGrow ==
    ASSUME NEW c \in [Buckets -> Nat], NEW j \in Buckets, NEW b \in Buckets
    PROVE  Cumulative([c EXCEPT ![j] = @ + 1])[b] = Cumulative(c)[b] + (IF j <= b THEN 1 ELSE 0)
<1> DEFINE d == [c EXCEPT ![j] = @ + 1]
           P == {k \in Nat : k \in Buckets =>
                    Cumulative(d)[k] = Cumulative(c)[k] + (IF j <= k THEN 1 ELSE 0)}
<1>1. d \in [Buckets -> Nat] /\ \A k \in Buckets : d[k] = c[k] + (IF j = k THEN 1 ELSE 0)
  OBVIOUS
<1>2. 0 \in Buckets /\ Buckets \subseteq Nat
  BY Sizes DEF Buckets
<1> HIDE DEF d
<1>3. 0 \in P
  <2>1. Cumulative(d)[0] = d[0] /\ Cumulative(c)[0] = c[0] /\ c[0] \in Nat
    BY <1>1, <1>2, Sums
  <2> QED
    BY <2>1, <1>1, <1>2
<1>4. ASSUME NEW k \in Nat, k \in P PROVE k + 1 \in P
  <2> SUFFICES ASSUME k + 1 \in Buckets
               PROVE  Cumulative(d)[k + 1] = Cumulative(c)[k + 1] + (IF j <= k + 1 THEN 1 ELSE 0)
    OBVIOUS
  <2>1. k \in Buckets /\ Cumulative(c)[k] \in Nat /\ Cumulative(c)[k + 1] = Cumulative(c)[k] + c[k + 1]
    BY Sums
  <2>2. Cumulative(d)[k + 1] = Cumulative(d)[k] + d[k + 1]
    BY <1>1, Sums
  <2>3. c[k + 1] \in Nat /\ j \in Nat
    BY <1>2
  <2> QED
    BY <2>1, <2>2, <2>3, <1>1, <1>4
<1>5. Nat \subseteq P
  <2> HIDE DEF P
  <2> QED
    BY <1>3, <1>4, Induction
<1> QED
  BY <1>2, <1>5, Zenon DEF d

(* No values *)
LEMMA NoSums ==
    ASSUME NEW b \in Buckets
    PROVE  Cumulative([k \in Buckets |-> 0])[b] = 0
<1> DEFINE c == [k \in Buckets |-> 0]
           P == {k \in Nat : k \in Buckets => Cumulative(c)[k] = 0}
<1>1. c \in [Buckets -> Nat] /\ \A k \in Buckets : c[k] = 0
  OBVIOUS
<1>2. 0 \in Buckets /\ Buckets \subseteq Nat
  BY Sizes DEF Buckets
<1> HIDE DEF c
<1>3. 0 \in P
  BY <1>1, <1>2, Sums
<1>4. ASSUME NEW k \in Nat, k \in P PROVE k + 1 \in P
  <2> SUFFICES ASSUME k + 1 \in Buckets PROVE Cumulative(c)[k + 1] = 0
    OBVIOUS
  <2>1. k \in Buckets /\ Cumulative(c)[k + 1] = Cumulative(c)[k] + c[k + 1]
    BY <1>1, Sums
  <2> QED
    BY <2>1, <1>1, <1>4
<1>5. Nat \subseteq P
  <2> HIDE DEF P
  <2> QED
    BY <1>3, <1>4, Induction
<1> QED
  BY <1>2, <1>5, Zenon DEF c

-----------------------------------------------------------------------------
(* The histogram *)

(* The samples that a bucket or an earlier one holds *)
Placed(s, b) == {k \in 1 .. Len(s) : ValueToIndex(s[k]) <= b}

(* _min and _max enclose the samples. *)
Spans ==
    IF total = 0 THEN low = Infinity /\ high = 0
    ELSE /\ low \in Values /\ high \in Values
         /\ \A k \in 1 .. total : low <= samples[k] /\ samples[k] <= high

(* Each bucket has its samples. *)
Sorted ==
    /\ \A b \in Buckets : counts[b] <= total
    /\ \A b \in Buckets : Cumulative(counts)[b] = Cardinality(Placed(samples, b))

(* The inductive invariant *)
MetricsInv == MetricsTypeOK /\ Spans /\ Sorted

(* Parts of the samples are finite. *)
LEMMA SampleSets ==
    ASSUME NEW n \in Nat, NEW A, A \subseteq 1 .. n
    PROVE  /\ IsFiniteSet(A) /\ Cardinality(A) \in Nat /\ Cardinality(A) <= n
           /\ \A B : B \subseteq A => Cardinality(B) <= Cardinality(A) /\ Cardinality(B) \in Nat
           /\ Cardinality(A) > 0 => A # {}
<1>1. IsFiniteSet(1 .. n) /\ Cardinality(1 .. n) = n
  BY FS_Interval
<1>2. IsFiniteSet(A) /\ Cardinality(A) <= n
  BY <1>1, FS_Subset, Zenon
<1>3. Cardinality(A) \in Nat
  BY <1>2, FS_CardinalityType
<1>4. ASSUME NEW B, B \subseteq A PROVE Cardinality(B) <= Cardinality(A) /\ Cardinality(B) \in Nat
  BY <1>2, <1>4, FS_Subset, FS_CardinalityType, Zenon
<1>5. Cardinality(A) > 0 => A # {}
  BY FS_EmptySet
<1> QED
  BY <1>2, <1>3, <1>4, <1>5

(* One more sample is one more up to its bucket and every later one. *)
LEMMA PlacedGrows ==
    ASSUME NEW s \in Seq(Values), NEW v \in Values, NEW b \in Buckets
    PROVE  Cardinality(Placed(Append(s, v), b))
             = Cardinality(Placed(s, b)) + (IF ValueToIndex(v) <= b THEN 1 ELSE 0)
<1> DEFINE n == Len(s)
<1>1. n \in Nat /\ Len(Append(s, v)) = n + 1 /\ Append(s, v)[n + 1] = v
       /\ \A k \in 1 .. n : Append(s, v)[k] = s[k]
  OBVIOUS
<1>2. Placed(s, b) \subseteq 1 .. n /\ n + 1 \notin Placed(s, b)
  BY <1>1 DEF Placed
<1>3. IsFiniteSet(Placed(s, b)) /\ Cardinality(Placed(s, b)) \in Nat
  BY <1>1, <1>2, SampleSets
<1>4. CASE ValueToIndex(v) <= b
  <2>1. Placed(Append(s, v), b) = Placed(s, b) \cup {n + 1}
    BY <1>1, <1>4 DEF Placed
  <2>2. Cardinality(Placed(s, b) \cup {n + 1}) = Cardinality(Placed(s, b)) + 1
    BY <1>2, <1>3, FS_AddElement, Zenon
  <2> QED
    BY <2>1, <2>2, <1>4
<1>5. CASE ~ (ValueToIndex(v) <= b)
  <2>1. Placed(Append(s, v), b) = Placed(s, b)
    BY <1>1, <1>5 DEF Placed
  <2> QED
    BY <2>1, <1>3, <1>5
<1> QED
  BY <1>4, <1>5

(* Nothing is recorded at first. *)
LEMMA MetricsStart == MetricsInit => MetricsInv
<1> SUFFICES ASSUME MetricsInit PROVE MetricsInv
  OBVIOUS
<1>1. /\ counts = [b \in Buckets |-> 0] /\ total = 0 /\ low = Infinity /\ high = 0
      /\ counter = 0 /\ samples = <<>>
  BY DEF MetricsInit
<1>2. MetricsTypeOK
  BY <1>1, MetricsAssumption DEF MetricsTypeOK
<1>3. Spans
  BY <1>1 DEF Spans
<1>4. ASSUME NEW b \in Buckets PROVE Cumulative(counts)[b] = Cardinality(Placed(samples, b))
  <2>1. Placed(samples, b) = {}
    BY <1>1 DEF Placed
  <2> QED
    BY <2>1, <1>1, <1>4, NoSums, FS_EmptySet
<1>5. \A b \in Buckets : counts[b] <= total
  BY <1>1
<1> QED
  BY <1>2, <1>3, <1>4, <1>5 DEF MetricsInv, Sorted

(* Recording a value *)
LEMMA RecordKeeps ==
    ASSUME MetricsInv, NEW v \in Values, Record(v)
    PROVE  MetricsInv'
<1>1. /\ counts \in [Buckets -> 0 .. MaxSamples] /\ total \in 0 .. MaxSamples
      /\ low \in Values \cup {Infinity} /\ high \in Values \cup {0}
      /\ counter \in 0 .. MaxCount /\ samples \in Seq(Values) /\ Len(samples) = total
  BY DEF MetricsInv, MetricsTypeOK
<1>2. /\ total < MaxSamples /\ counts' = [counts EXCEPT ![ValueToIndex(v)] = @ + 1]
      /\ total' = total + 1 /\ low' = Min({low, v}) /\ high' = Max({high, v})
      /\ samples' = Append(samples, v) /\ counter' = counter
  BY DEF Record
<1>3. /\ Values \subseteq Nat /\ Infinity \in Nat /\ v \in Nat /\ v < Infinity
      /\ MaxSamples \in Nat /\ total \in Nat /\ low \in Nat /\ high \in Nat
  BY <1>1, MetricsAssumption
<1>4. ValueToIndex(v) \in Buckets /\ counts \in [Buckets -> Nat]
  BY <1>1, <1>3, IndexInBuckets
<1>5. low' = (IF low <= v THEN low ELSE v) /\ high' = (IF high <= v THEN v ELSE high)
  BY <1>2, <1>3, MinOfTwo, MaxOfTwo
<1>6. \A b \in Buckets : counts[b] <= total /\ counts'[b] \in {counts[b], counts[b] + 1}
  BY <1>2, <1>4 DEF MetricsInv, Sorted
<1>7. counts' \in [Buckets -> 0 .. MaxSamples] /\ \A b \in Buckets : counts'[b] <= total'
  <2>1. counts' \in [Buckets -> Nat] /\ \A b \in Buckets : counts'[b] <= total + 1
    BY <1>2, <1>3, <1>4, <1>6
  <2> QED
    BY <2>1, <1>2, <1>3
<1>8. samples' \in Seq(Values) /\ Len(samples') = total'
  BY <1>1, <1>2
<1>9. Spans'
  <2>1. \A k \in 1 .. total' : samples'[k] = IF k = total + 1 THEN v ELSE samples[k]
    BY <1>1, <1>2, <1>3
  <2>2. total' # 0
    BY <1>2, <1>3
  <2>3. CASE total = 0
    <3>1. low = Infinity /\ high = 0
      BY <2>3 DEF MetricsInv, Spans
    <3>2. low' = v /\ high' = v
      BY <3>1, <1>3, <1>5
    <3>3. \A k \in 1 .. total' : samples'[k] = v
      BY <2>1, <2>3, <1>2
    <3> QED
      BY <3>2, <3>3, <2>2, <1>3 DEF Spans
  <2>4. CASE total # 0
    <3>1. /\ low \in Values /\ high \in Values
          /\ \A k \in 1 .. total : low <= samples[k] /\ samples[k] <= high
      BY <2>4 DEF MetricsInv, Spans
    <3>2. low' \in Values /\ high' \in Values
      BY <3>1, <1>5
    <3>3. low' \in Nat /\ high' \in Nat /\ low' <= v /\ v <= high' /\ low' <= low /\ high <= high'
      BY <1>3, <1>5
    <3>4. ASSUME NEW k \in 1 .. total' PROVE low' <= samples'[k] /\ samples'[k] <= high'
      <4>1. CASE k = total + 1
        BY <4>1, <3>3, <2>1
      <4>2. CASE k \in 1 .. total
        <5>1. samples[k] \in Nat
          <6>1. k \in 1 .. Len(samples)
            BY <4>2, <1>1
          <6>2. samples[k] \in Values
            BY <6>1, <1>1
          <6> QED
            BY <6>2, <1>3, Zenon
        <5>2. k # total + 1
          BY <4>2, <1>3
        <5>3. samples'[k] = samples[k]
          BY <5>2, <2>1
        <5> QED
          BY <5>1, <5>3, <4>2, <3>1, <3>3, <1>3
      <4>3. k = total + 1 \/ k \in 1 .. total
        <5>1. k \in 1 .. total + 1
          BY <1>2
        <5> QED
          BY <5>1, <1>3
      <4> QED
        BY <4>1, <4>2, <4>3
    <3> QED
      BY <3>2, <3>4, <2>2 DEF Spans
  <2> QED
    BY <2>3, <2>4
<1>10. ASSUME NEW b \in Buckets PROVE Cumulative(counts')[b] = Cardinality(Placed(samples', b))
  <2>1. Cumulative(counts')[b] = Cumulative(counts)[b] + (IF ValueToIndex(v) <= b THEN 1 ELSE 0)
    BY <1>2, <1>4, SumsGrow, Zenon
  <2>2. Cardinality(Placed(samples', b))
          = Cardinality(Placed(samples, b)) + (IF ValueToIndex(v) <= b THEN 1 ELSE 0)
    BY <1>1, <1>2, PlacedGrows
  <2>3. Cumulative(counts)[b] = Cardinality(Placed(samples, b))
    BY DEF MetricsInv, Sorted
  <2> QED
    BY <2>1, <2>2, <2>3
<1>11. MetricsTypeOK'
  <2>1. low' \in Values \cup {Infinity} /\ high' \in Values \cup {0}
    BY <1>1, <1>5
  <2>2. total' \in 0 .. MaxSamples
    BY <1>2, <1>3
  <2> QED
    BY <2>1, <2>2, <1>1, <1>2, <1>7, <1>8 DEF MetricsTypeOK
<1>12. Sorted'
  BY <1>7, <1>10 DEF Sorted
<1> QED
  BY <1>9, <1>11, <1>12 DEF MetricsInv

(* The invariant holds throughout. *)
LEMMA MetricsInvariant == MetricsSpec => []MetricsInv
<1>1. ASSUME MetricsInv, [MetricsNext]_metricVars PROVE MetricsInv'
  <2>1. ASSUME NEW v \in Values, Record(v) PROVE MetricsInv'
    BY <1>1, <2>1, RecordKeeps
  <2>2. CASE Increment
    <3>1. counter' = counter + 1 /\ counter < MaxCount /\ UNCHANGED <<counts, total, low, high, samples>>
      BY <2>2 DEF Increment
    <3>2. counter' \in 0 .. MaxCount
      BY <3>1, <1>1, MetricsAssumption DEF MetricsInv, MetricsTypeOK
    <3>3. MetricsTypeOK'
      BY <3>1, <3>2, <1>1, Zenon DEF MetricsInv, MetricsTypeOK
    <3>4. Spans' /\ Sorted'
      BY <3>1, <1>1, Zenon DEF MetricsInv, Spans, Sorted
    <3> QED
      BY <3>3, <3>4 DEF MetricsInv
  <2>3. CASE UNCHANGED metricVars
    <3>1. UNCHANGED <<counts, total, low, high, counter, samples>>
      BY <2>3 DEF metricVars
    <3> QED
      BY <3>1, <1>1, Zenon DEF MetricsInv, MetricsTypeOK, Spans, Sorted
  <2> QED
    BY <1>1, <2>1, <2>2, <2>3 DEF MetricsNext
<1> QED
  BY <1>1, MetricsStart, PTL DEF MetricsSpec

-----------------------------------------------------------------------------
(* Quantiles *)

(* The samples with their types, once something was recorded *)
LEMMA Holding ==
    ASSUME MetricsInv, total > 0
    PROVE  /\ total \in Nat /\ DOMAIN samples = 1 .. total /\ Len(samples) = total
           /\ Values \subseteq Nat /\ low \in Values /\ high \in Values /\ low <= high
           /\ \A k \in 1 .. total : samples[k] \in Values /\ low <= samples[k] /\ samples[k] <= high
           /\ \A b \in Buckets : Cumulative(counts)[b] = Cardinality(Placed(samples, b))
<1>1. total \in Nat /\ samples \in Seq(Values) /\ Len(samples) = total
  BY DEF MetricsInv, MetricsTypeOK
<1>2. DOMAIN samples = 1 .. total /\ \A k \in 1 .. total : samples[k] \in Values
  BY <1>1
<1>3. /\ low \in Values /\ high \in Values
      /\ \A k \in 1 .. total : low <= samples[k] /\ samples[k] <= high
  BY <1>1 DEF MetricsInv, Spans
<1>4. Values \subseteq Nat
  BY MetricsAssumption
<1>5. low <= high
  <2>1. 1 \in 1 .. total
    BY <1>1
  <2>2. low <= samples[1] /\ samples[1] <= high /\ samples[1] \in Values
    BY <2>1, <1>2, <1>3
  <2>3. low \in Nat /\ high \in Nat /\ samples[1] \in Nat
    BY <2>2, <1>3, <1>4, Zenon
  <2> QED
    BY <2>2, <2>3
<1> QED
  BY <1>1, <1>2, <1>3, <1>4, <1>5 DEF MetricsInv, Sorted

(* Clamping keeps the order, and does not lead away from what was recorded. *)
LEMMA Clamping ==
    ASSUME MetricsInv, total > 0, NEW a \in Nat
    PROVE  /\ Clamp(a) \in Nat /\ low <= Clamp(a) /\ Clamp(a) <= high
           /\ \A c \in Nat : a <= c => Clamp(a) <= Clamp(c)
           /\ \A x \in Nat : low <= x /\ x <= high => Distance(Clamp(a), x) <= Distance(a, x)
<1>1. low \in Nat /\ high \in Nat /\ low <= high
  BY Holding
<1>2. ASSUME NEW c \in Nat PROVE Clamp(c) = IF c <= low THEN low ELSE IF c <= high THEN c ELSE high
  <2>1. Min({high, c}) = IF high <= c THEN high ELSE c
    BY <1>1, MinOfTwo
  <2>2. Min({high, c}) \in Int
    BY <2>1, <1>1
  <2>3. Clamp(c) = IF low <= Min({high, c}) THEN Min({high, c}) ELSE low
    BY <2>2, <1>1, MaxOfTwo DEF Clamp
  <2> QED
    BY <2>1, <2>3, <1>1
<1> QED
  BY <1>1, <1>2 DEF Distance

(* All samples are in the buckets up to the last. *)
LEMMA LastBucket ==
    ASSUME MetricsInv, total > 0
    PROVE  Cumulative(counts)[TotalBuckets - 1] = total
<1>1. TotalBuckets - 1 \in Buckets
  BY Sizes DEF Buckets
<1>2. Placed(samples, TotalBuckets - 1) = 1 .. total
  <2>1. Len(samples) = total /\ \A k \in 1 .. total : samples[k] \in Nat
    BY Holding
  <2>2. \A k \in 1 .. total : ValueToIndex(samples[k]) <= TotalBuckets - 1
    BY <2>1, IndexInBuckets, Sizes DEF Buckets
  <2> QED
    BY <2>1, <2>2 DEF Placed
<1> QED
  <2>1. total \in Nat
    BY Holding
  <2>2. Cardinality(1 .. total) = total
    BY <2>1, FS_Interval
  <2> QED
    BY <2>2, <1>1, <1>2, Holding

(* The bucket of a rank *)
LEMMA BucketIs ==
    ASSUME MetricsInv, total > 0, NEW rank \in 1 .. total
    PROVE  /\ Bucket(rank) \in Buckets /\ Cumulative(counts)[Bucket(rank)] >= rank
           /\ \A b \in Buckets : Cumulative(counts)[b] >= rank => Bucket(rank) <= b
<1> DEFINE T == {b \in Buckets : Cumulative(counts)[b] >= rank}
<1>1. TotalBuckets - 1 \in Buckets /\ Buckets \subseteq Nat
  BY Sizes DEF Buckets
<1>2. Cumulative(counts)[TotalBuckets - 1] = total
  BY LastBucket
<1>3. total >= rank
  BY Holding
<1>4. T \in SUBSET Nat /\ T # {}
  BY <1>1, <1>2, <1>3, Zenon
<1> HIDE DEF T
<1>5. Min(T) \in T /\ \A y \in T : Min(T) <= y
  BY <1>4, MinIs
<1>6. Bucket(rank) = Min(T)
  BY DEF Bucket, T
<1> QED
  BY <1>5, <1>6 DEF T

(* The largest of some samples *)
LEMMA LargestSample ==
    ASSUME MetricsInv, total > 0, NEW A, A \subseteq 1 .. total, A # {}
    PROVE  \E k \in A : \A j \in A : samples[j] <= samples[k]
<1> DEFINE T == {y \in Nat : \A j \in A : samples[j] <= y}
<1>1. \A j \in A : samples[j] \in Nat /\ samples[j] <= high
  BY Holding
<1>2. T \in SUBSET Nat /\ T # {}
  BY <1>1, Holding
<1>3. PICK y \in T : \A z \in T : y <= z
  <2> HIDE DEF T
  <2> QED
    BY <1>2, LeastNumber
<1>4. y \in Nat /\ \A j \in A : samples[j] <= y
  OBVIOUS
<1>5. PICK k \in A : samples[k] = y
  <2> SUFFICES ASSUME \A k \in A : samples[k] # y PROVE FALSE
    OBVIOUS
  <2>1. \A j \in A : samples[j] <= y - 1
    BY <1>1, <1>4
  <2>2. y - 1 \in Nat
    <3>1. PICK j \in A : TRUE
      BY Zenon
    <3>2. samples[j] \in Nat /\ samples[j] <= y - 1
      BY <1>1, <2>1
    <3> QED
      BY <3>2, <1>4
  <2>3. y - 1 \in T
    BY <2>1, <2>2
  <2> QED
    BY <2>3, <1>3, <1>4
<1> QED
  BY <1>4, <1>5

(* The sample of a rank is in the bucket of the rank. *)
LEMMA SampleIs ==
    ASSUME MetricsInv, total > 0, NEW rank \in 1 .. total
    PROVE  /\ Sample(rank) \in Nat /\ low <= Sample(rank) /\ Sample(rank) <= high
           /\ ValueToIndex(Sample(rank)) = Bucket(rank)
<1> DEFINE T == {v \in Values : Cardinality(UpTo(v)) >= rank}
           x == Sample(rank)
<1>1. /\ total \in Nat /\ DOMAIN samples = 1 .. total /\ Len(samples) = total
      /\ Values \subseteq Nat /\ low \in Values /\ high \in Values /\ rank \in Nat
      /\ \A k \in 1 .. total : samples[k] \in Nat /\ low <= samples[k] /\ samples[k] <= high
  BY Holding
<1>2. \A v : UpTo(v) \subseteq 1 .. total
  BY <1>1 DEF UpTo
<1>3. high \in T
  <2>1. UpTo(high) = 1 .. total
    BY <1>1 DEF UpTo
  <2>2. Cardinality(1 .. total) = total
    BY <1>1, FS_Interval
  <2> QED
    BY <2>1, <2>2, <1>1
<1>4. x \in T /\ \A v \in T : x <= v
  <2>1. T \in SUBSET Nat /\ T # {}
    BY <1>1, <1>3, Zenon
  <2>2. x = Min(T)
    BY DEF Sample
  <2> HIDE DEF T, x
  <2> QED
    BY <2>1, <2>2, MinIs
<1>5. x \in Nat /\ x \in Values /\ Cardinality(UpTo(x)) >= rank /\ x <= high
  BY <1>1, <1>3, <1>4, Zenon
<1> HIDE DEF x
<1>6. low <= x
  <2>1. UpTo(x) # {}
    <3>1. Cardinality(UpTo(x)) \in Nat /\ (Cardinality(UpTo(x)) > 0 => UpTo(x) # {})
      BY <1>1, <1>2, SampleSets
    <3> QED
      BY <3>1, <1>5, <1>1
  <2>2. PICK k \in 1 .. total : samples[k] <= x
    BY <2>1, <1>1 DEF UpTo
  <2> QED
    BY <2>2, <1>1, <1>5
<1>7. ValueToIndex(x) \in Buckets /\ Buckets \subseteq Nat
  BY <1>5, IndexInBuckets, Sizes DEF Buckets
<1>8. Cumulative(counts)[ValueToIndex(x)] >= rank
  <2>1. UpTo(x) \subseteq Placed(samples, ValueToIndex(x))
    BY <1>1, <1>5, IndexGrows DEF UpTo, Placed
  <2>2. Placed(samples, ValueToIndex(x)) \subseteq 1 .. total
    BY <1>1 DEF Placed
  <2>3. /\ Cardinality(UpTo(x)) <= Cardinality(Placed(samples, ValueToIndex(x)))
        /\ Cardinality(UpTo(x)) \in Nat /\ Cardinality(Placed(samples, ValueToIndex(x))) \in Nat
    BY <2>1, <2>2, <1>1, SampleSets
  <2>4. Cumulative(counts)[ValueToIndex(x)] = Cardinality(Placed(samples, ValueToIndex(x)))
    BY <1>7, Holding, Zenon
  <2> QED
    BY <2>3, <2>4, <1>1, <1>5
<1>9. ASSUME NEW b \in Buckets, Cumulative(counts)[b] >= rank PROVE ValueToIndex(x) <= b
  <2> DEFINE A == Placed(samples, b)
  <2>1. A \subseteq 1 .. total
    BY <1>1 DEF Placed
  <2>2. Cardinality(A) >= rank /\ Cardinality(A) \in Nat /\ A # {}
    <3>1. Cumulative(counts)[b] = Cardinality(A)
      BY Holding
    <3>2. Cardinality(A) \in Nat /\ (Cardinality(A) > 0 => A # {})
      BY <2>1, <1>1, SampleSets
    <3> HIDE DEF A
    <3> QED
      BY <3>1, <3>2, <1>1, <1>9
  <2>3. PICK k \in A : \A j \in A : samples[j] <= samples[k]
    <3> HIDE DEF A
    <3> QED
      BY <2>1, <2>2, LargestSample, Zenon
  <2>4. k \in 1 .. total /\ samples[k] \in Values /\ samples[k] \in Nat /\ ValueToIndex(samples[k]) <= b
    BY <2>1, <1>1, Holding DEF Placed
  <2>5. A \subseteq UpTo(samples[k])
    <3> HIDE DEF A
    <3> QED
      BY <2>1, <2>3, <1>1 DEF UpTo
  <2>6. Cardinality(UpTo(samples[k])) >= rank
    <3> HIDE DEF A
    <3>1. Cardinality(A) <= Cardinality(UpTo(samples[k])) /\ Cardinality(UpTo(samples[k])) \in Nat
      BY <2>5, <1>1, <1>2, SampleSets
    <3> QED
      BY <3>1, <2>2, <1>1
  <2>7. x <= samples[k]
    BY <2>4, <2>6, <1>4
  <2>8. ValueToIndex(x) <= ValueToIndex(samples[k]) /\ ValueToIndex(samples[k]) \in Nat
    BY <2>4, <2>7, <1>5, <1>7, IndexGrows, IndexInBuckets, Zenon
  <2>9. b \in Nat /\ ValueToIndex(x) \in Nat
    BY <1>7, Zenon
  <2> QED
    BY <2>4, <2>8, <2>9
<1>10. ValueToIndex(x) = Bucket(rank)
  <2>1. /\ Bucket(rank) \in Buckets /\ Cumulative(counts)[Bucket(rank)] >= rank
        /\ \A b \in Buckets : Cumulative(counts)[b] >= rank => Bucket(rank) <= b
    BY BucketIs
  <2>2. Bucket(rank) <= ValueToIndex(x) /\ ValueToIndex(x) <= Bucket(rank)
    BY <2>1, <1>7, <1>8, <1>9, Zenon
  <2>3. Bucket(rank) \in Nat /\ ValueToIndex(x) \in Nat
    BY <2>1, <1>7, Zenon
  <2> QED
    BY <2>2, <2>3
<1> QED
  BY <1>5, <1>6, <1>10 DEF x

(* What quantile returns once something was recorded *)
LEMMA QuantileIs ==
    ASSUME MetricsInv, total > 0, NEW i \in 1 .. 4
    PROVE  /\ Quantile(Quantiles[i]) = Clamp(IndexToApproxValue(Bucket(Rank(Quantiles[i], total))))
           /\ IndexToApproxValue(Bucket(Rank(Quantiles[i], total))) \in Nat
           /\ Rank(Quantiles[i], total) \in 1 .. total
<1>1. /\ total \in Nat /\ Quantiles[i][1] # 0 /\ ~ (Quantiles[i][1] >= Quantiles[i][2])
      /\ Rank(Quantiles[i], total) \in 1 .. total
  BY Holding, Ranks, Zenon
<1>2. Bucket(Rank(Quantiles[i], total)) \in Nat
  BY <1>1, BucketIs, Sizes DEF Buckets
<1>3. IndexToApproxValue(Bucket(Rank(Quantiles[i], total))) \in Nat
  BY <1>2, ApproxGrows
<1>4. total # 0
  BY <1>1
<1>5. Quantile(Quantiles[i]) = Clamp(IndexToApproxValue(Bucket(Rank(Quantiles[i], total))))
  BY <1>1, <1>4 DEF Quantile
<1> QED
  BY <1>1, <1>3, <1>5

-----------------------------------------------------------------------------
(* The types of the histogram: a count of a bucket does not exceed what was  *)
(* recorded (LogLinearHistogram.record).                                     *)
THEOREM MetricsTypeCorrect == MetricsSpec => []MetricsTypeOK
<1>1. MetricsInv => MetricsTypeOK
  BY DEF MetricsInv
<1> QED
  BY <1>1, MetricsInvariant, PTL

(* Every exported quantile is as close to the sample of its rank as the      *)
(* documentation of LogLinearHistogram says, for every sub_bucket_bits and   *)
(* max_value and whatever was recorded.                                      *)
THEOREM QuantilesAreClose == MetricsSpec => []QuantileError
<1>1. ASSUME MetricsInv PROVE QuantileError
  <2> DEFINE m == Pow2[Max({MaxOctave, SubBucketBits}) + 1]
  <2> SUFFICES ASSUME NEW i \in 1 .. 4, total > 0
               PROVE  LET x == Sample(Rank(Quantiles[i], total))
                          e == Distance(Quantile(Quantiles[i]), x)
                      IN  IF x < 2 * SubBucketCount THEN e <= 1
                          ELSE x < 2 * m => e * SubBucketCount <= x
    <3>1. Len(samples) = total /\ DOMAIN Quantiles = 1 .. 4
      BY <1>1 DEF MetricsInv, MetricsTypeOK, Quantiles
    <3> QED
      BY <3>1 DEF QuantileError
  <2> DEFINE x == Sample(Rank(Quantiles[i], total))
             a == IndexToApproxValue(ValueToIndex(x))
             e == Distance(Quantile(Quantiles[i]), x)
             d == Distance(a, x)
  <2>1. Rank(Quantiles[i], total) \in 1 .. total
    BY <1>1, QuantileIs
  <2>2. x \in Nat /\ low <= x /\ x <= high /\ ValueToIndex(x) = Bucket(Rank(Quantiles[i], total))
    BY <1>1, <2>1, SampleIs
  <2>3. Quantile(Quantiles[i]) = Clamp(a) /\ a \in Nat
    BY <1>1, <2>2, QuantileIs
  <2> HIDE DEF x
  <2>4. d \in Nat /\ (x < 2 * SubBucketCount => d <= 1)
          /\ (x >= 2 * SubBucketCount /\ x < 2 * m => d * SubBucketCount <= x)
    BY <2>2, BucketError
  <2> HIDE DEF a, m
  <2>5. e <= d /\ e \in Nat
    <3>1. Clamp(a) \in Nat /\ Distance(Clamp(a), x) <= Distance(a, x)
      BY <1>1, <2>2, <2>3, Clamping
    <3>2. Distance(Clamp(a), x) \in Nat
      BY <3>1, <2>2 DEF Distance
    <3> QED
      BY <3>1, <3>2, <2>3
  <2> HIDE DEF d, e
  <2>6. e * SubBucketCount <= d * SubBucketCount /\ e * SubBucketCount \in Nat /\ d * SubBucketCount \in Nat
    BY <2>4, <2>5, Sizes, ProductGrows
  <2>7. IF x < 2 * SubBucketCount THEN e <= 1 ELSE x < 2 * m => e * SubBucketCount <= x
    BY <2>2, <2>4, <2>5, <2>6, Sizes
  <2> QED
    BY <2>7 DEF x, e
<1> QED
  BY <1>1, MetricsInvariant, PTL

(* The exported summary is in order, for every sub_bucket_bits and max_value *)
(* and whatever was recorded, and quantile finds every rank in the buckets.  *)
THEOREM SummariesAreOrdered == MetricsSpec => []SummaryIsOrdered
<1>1. ASSUME MetricsInv PROVE SummaryIsOrdered
  <2>1. DOMAIN Quantiles = 1 .. 4 /\ Len(Quantiles) = 4
    BY DEF Quantiles
  <2>2. /\ Summary.count = total /\ Summary.min = (IF total = 0 THEN 0 ELSE low)
        /\ Summary.max = (IF total = 0 THEN 0 ELSE high)
        /\ \A i \in 1 .. 4 : Summary.p[i] = Quantile(Quantiles[i])
    BY <2>1 DEF Summary
  <2>3. total \in Nat
    BY <1>1 DEF MetricsInv, MetricsTypeOK
  <2>4. CASE total = 0
    <3>1. \A i \in 1 .. 4 : Quantile(Quantiles[i]) = 0
      BY <2>4 DEF Quantile
    <3>2. TotalBuckets - 1 \in Buckets
      BY Sizes DEF Buckets
    <3>3. Placed(samples, TotalBuckets - 1) = {}
      BY <1>1, <2>4 DEF MetricsInv, MetricsTypeOK, Placed
    <3>4. Cumulative(counts)[TotalBuckets - 1] = 0
      BY <3>2, <3>3, <1>1, FS_EmptySet DEF MetricsInv, Sorted
    <3> QED
      BY <3>1, <3>4, <2>1, <2>2, <2>4 DEF SummaryIsOrdered
  <2>5. CASE total > 0
    <3> DEFINE A(i) == IndexToApproxValue(Bucket(Rank(Quantiles[i], total)))
    <3>1. \A i \in 1 .. 4 : Quantile(Quantiles[i]) = Clamp(A(i)) /\ A(i) \in Nat
      BY <1>1, <2>5, QuantileIs
    <3>2. ASSUME NEW i \in 1 .. 4, NEW j \in 1 .. 4, i <= j PROVE A(i) <= A(j)
      <4> DEFINE r == Rank(Quantiles[i], total)
                 s == Rank(Quantiles[j], total)
      <4>1. r \in 1 .. total /\ s \in 1 .. total /\ r <= s
        BY <2>3, <2>5, <3>2, Ranks, Zenon
      <4> HIDE DEF r, s
      <4>2. /\ Bucket(r) \in Buckets /\ Bucket(s) \in Buckets /\ Cumulative(counts)[Bucket(s)] >= s
            /\ \A b \in Buckets : Cumulative(counts)[b] >= r => Bucket(r) <= b
        BY <4>1, <1>1, <2>5, BucketIs
      <4>3. Cumulative(counts)[Bucket(s)] \in Nat
        <5>1. counts \in [Buckets -> Nat]
          BY <1>1 DEF MetricsInv, MetricsTypeOK
        <5> QED
          BY <5>1, <4>2, Sums
      <4>4. Bucket(r) <= Bucket(s) /\ Bucket(r) \in Nat /\ Bucket(s) \in Nat
        BY <4>1, <4>2, <4>3, Sizes DEF Buckets
      <4> QED
        BY <4>4, ApproxGrows DEF r, s
    <3> HIDE DEF A
    <3>3. \A i \in 1 .. 4 : low <= Clamp(A(i)) /\ Clamp(A(i)) <= high
      BY <3>1, <1>1, <2>5, Clamping
    <3>4. \A i, j \in 1 .. 4 : i <= j => Clamp(A(i)) <= Clamp(A(j))
      BY <3>1, <3>2, <1>1, <2>5, Clamping
    <3>5. total = Cumulative(counts)[TotalBuckets - 1]
      BY <1>1, <2>5, LastBucket
    <3> QED
      BY <3>1, <3>3, <3>4, <3>5, <2>1, <2>2, <2>5 DEF SummaryIsOrdered
  <2> QED
    BY <2>3, <2>4, <2>5
<1> QED
  BY <1>1, MetricsInvariant, PTL

-----------------------------------------------------------------------------
(* The failure detector *)

(* A sum of numbers is a number. *)
LEMMA SumIsNumber ==
    ASSUME NEW s \in Seq(Nat)
    PROVE  Sum(s) \in Nat
<1> DEFINE N == Len(s)
           U == CHOOSE u : u = [k \in 0 .. N |-> IF k = 0 THEN 0 ELSE u[k - 1] + s[k]]
<1>1. N \in Nat /\ \A k \in 1 .. N : s[k] \in Nat
  OBVIOUS
<1>2. Sum(s) = U[N]
  BY DEF Sum
<1> HIDE DEF N
<1>3. \E h : AddsUp(h, N, 0, s)
  <2>1. 0 \in Nat
    OBVIOUS
  <2> QED
    BY <2>1, <1>1, SumsExist, Zenon
<1>4. AddsUp(U, N, 0, s)
  BY <1>3, Zenon DEF AddsUp
<1> HIDE DEF U
<1>5. U \in [0 .. N -> Nat]
  <2>1. 0 \in Nat
    OBVIOUS
  <2> QED
    BY <2>1, <1>1, <1>4, SumsAre, Zenon DEF Running
<1> QED
  BY <1>1, <1>2, <1>5

(* So are the squares of the intervals. *)
LEMMA SquaresIsNumber ==
    ASSUME NEW s \in Seq(Nat)
    PROVE  Squares(s) \in Nat
<1> DEFINE q == [k \in 1 .. Len(s) |-> s[k] * s[k]]
<1>1. \A k \in 1 .. Len(s) : s[k] * s[k] \in Nat
  OBVIOUS
<1>2. q \in Seq(Nat)
  <2>1. Len(s) \in Nat
    OBVIOUS
  <2>2. q \in [1 .. Len(s) -> Nat]
    BY <1>1
  <2> HIDE DEF q
  <2> QED
    BY <2>1, <2>2
<1> HIDE DEF q
<1> QED
  BY <1>2, SumIsNumber, Zenon DEF Squares, q

(* A sequence over a set is one over a larger set. *)
LEMMA SeqOfMore == ASSUME NEW V, NEW W, V \subseteq W, NEW s \in Seq(V) PROVE s \in Seq(W)
<1>1. Len(s) \in Nat /\ s \in [1 .. Len(s) -> V]
  OBVIOUS
<1>2. s \in [1 .. Len(s) -> W]
  BY <1>1
<1> QED
  BY <1>1, <1>2

(* A quadratic form grows. *)
LEMMA SquareGrows ==
    ASSUME NEW c \in Nat, NEW a \in Nat, NEW b \in Nat, a <= b
    PROVE  c * a * a \in Nat /\ c * b * b \in Nat /\ c * a * a <= c * b * b
<1>1. c * a \in Nat /\ c * b \in Nat /\ c * a <= c * b
  BY ProductGrows
<1>2. (c * a) * a <= (c * b) * a /\ (c * a) * a \in Nat
  BY <1>1, ProductGrows
<1>3. (c * b) * a <= (c * b) * b /\ (c * b) * a \in Nat /\ (c * b) * b \in Nat
  BY <1>1, ProductGrows
<1> QED
  BY <1>2, <1>3

(* The window of heartbeat holds positive intervals, no more than window_size. *)
LEMMA WindowIs ==
    ASSUME NEW V, NEW s \in Seq(V), Len(s) <= WindowSize, NEW x \in V
    PROVE  Window(Append(s, x)) \in Seq(V) /\ Len(Window(Append(s, x))) <= WindowSize
<1>1. WindowSize \in Nat
  BY DetectorAssumption
<1> DEFINE t == Append(s, x)
<1>2. t \in Seq(V) /\ Len(t) = Len(s) + 1 /\ Len(s) \in Nat
  OBVIOUS
<1> HIDE DEF t
<1>3. CASE Len(t) > WindowSize
  <2>1. Tail(t) \in Seq(V) /\ Len(Tail(t)) = Len(t) - 1
    <3>1. t # <<>>
      BY <1>2
    <3> QED
      BY <3>1, <1>2
  <2>2. Window(t) = Tail(t)
    BY <1>3 DEF Window
  <2> QED
    BY <2>1, <2>2, <1>1, <1>2 DEF t
<1>4. CASE ~ (Len(t) > WindowSize)
  <2>1. Window(t) = t
    BY <1>4 DEF Window
  <2> QED
    BY <2>1, <1>1, <1>2, <1>4 DEF t
<1> QED
  BY <1>3, <1>4

(* The types of the detector (PhiAccrualDetector.heartbeat): window and time *)
(* stay within their bounds.                                                 *)
THEOREM DetectorTypeCorrect == DetectorSpec => []DetectorTypeOK
<1>1. ASSUME DetectorInit PROVE DetectorTypeOK
  <2>1. /\ alive = TRUE /\ known = FALSE /\ timer = 0 /\ transit = {} /\ elapsed = 0 /\ intervals = <<>>
    BY <1>1 DEF DetectorInit
  <2>2. 0 \in 0 .. Period /\ 0 \in 0 .. MaxElapsed /\ 0 <= WindowSize
    BY DetectorAssumption
  <2>3. intervals \in Seq(1 .. MaxElapsed) /\ Len(intervals) = 0
    BY <2>1
  <2>4. alive \in BOOLEAN /\ known \in BOOLEAN /\ transit \subseteq 0 .. MaxDelay
    BY <2>1, Zenon
  <2> QED
    BY <2>1, <2>2, <2>3, <2>4 DEF DetectorTypeOK
<1>2. ASSUME DetectorTypeOK, [DetectorNext]_detectorVars PROVE DetectorTypeOK'
  <2>1. /\ alive \in BOOLEAN /\ known \in BOOLEAN /\ timer \in 0 .. Period /\ transit \subseteq 0 .. MaxDelay
        /\ elapsed \in 0 .. MaxElapsed /\ intervals \in Seq(1 .. MaxElapsed) /\ Len(intervals) <= WindowSize
    BY <1>2 DEF DetectorTypeOK
  <2>2. Period \in Nat \ {0} /\ MaxDelay \in Nat /\ MaxElapsed \in Nat
    BY DetectorAssumption
  <2>3. CASE Beat
    <3>1. timer' \in 0 .. Period /\ transit' \subseteq 0 .. MaxDelay
      BY <2>1, <2>2, <2>3 DEF Beat
    <3>2. UNCHANGED <<alive, known, elapsed, intervals>>
      BY <2>3 DEF Beat
    <3> QED
      BY <3>1, <3>2, <2>1, Zenon DEF DetectorTypeOK
  <2>4. ASSUME NEW age \in transit, Arrive(age) PROVE DetectorTypeOK'
    <3>1. transit' \subseteq 0 .. MaxDelay /\ UNCHANGED <<alive, timer>>
      BY <2>1, <2>4, Zenon DEF Arrive
    <3>2. /\ intervals' = IF known /\ elapsed > 0 THEN Window(Append(intervals, elapsed)) ELSE intervals
          /\ known' = TRUE /\ elapsed' = 0
      BY <2>4 DEF Arrive, Heartbeat
    <3>3. intervals' \in Seq(1 .. MaxElapsed) /\ Len(intervals') <= WindowSize
      <4>1. CASE known /\ elapsed > 0
        <5>1. elapsed \in 1 .. MaxElapsed
          BY <4>1, <2>1, <2>2
        <5>2. intervals' = Window(Append(intervals, elapsed))
          BY <4>1, <3>2
        <5> QED
          BY <5>1, <5>2, <2>1, WindowIs, Zenon
      <4>2. CASE ~ (known /\ elapsed > 0)
        BY <4>2, <3>2, <2>1, Zenon
      <4> QED
        BY <4>1, <4>2
    <3>4. elapsed' \in 0 .. MaxElapsed
      BY <3>2, <2>2
    <3>5. known' \in BOOLEAN
      BY <3>2, Zenon
    <3> QED
      BY <3>1, <3>3, <3>4, <3>5, <2>1, Zenon DEF DetectorTypeOK
  <2>5. ASSUME NEW age \in transit, Lose(age) PROVE DetectorTypeOK'
    <3>1. transit' \subseteq 0 .. MaxDelay /\ UNCHANGED <<alive, timer, known, elapsed, intervals>>
      BY <2>1, <2>5, Zenon DEF Lose
    <3> QED
      BY <3>1, <2>1, Zenon DEF DetectorTypeOK
  <2>6. CASE Crash
    <3>1. timer' \in 0 .. Period
      BY <2>2, <2>6 DEF Crash
    <3>2. alive' = FALSE /\ UNCHANGED <<transit, known, elapsed, intervals>>
      BY <2>6, Zenon DEF Crash
    <3> QED
      BY <3>1, <3>2, <2>1, Zenon DEF DetectorTypeOK
  <2>7. CASE Tick
    <3>1. timer' \in 0 .. Period
      <4>1. CASE alive
        BY <4>1, <2>1, <2>2, <2>7 DEF Tick
      <4>2. CASE ~ alive
        BY <4>2, <2>1, <2>7 DEF Tick
      <4> QED
        BY <4>1, <4>2
    <3>2. transit' \subseteq 0 .. MaxDelay
      BY <2>1, <2>2, <2>7 DEF Tick
    <3>3. elapsed' \in 0 .. MaxElapsed
      BY <2>1, <2>2, <2>7 DEF Tick
    <3>4. UNCHANGED <<alive, known, intervals>>
      BY <2>7, Zenon DEF Tick
    <3> QED
      BY <3>1, <3>2, <3>3, <3>4, <2>1, Zenon DEF DetectorTypeOK
  <2>8. CASE UNCHANGED detectorVars
    BY <2>1, <2>8, Zenon DEF detectorVars, DetectorTypeOK
  <2> QED
    BY <1>2, <2>3, <2>4, <2>5, <2>6, <2>7, <2>8 DEF DetectorNext
<1> QED
  BY <1>1, <1>2, PTL DEF DetectorSpec

(* In silence phi does not fall below the threshold again (is_suspected),    *)
(* for every threshold, window and variance floor and whatever intervals     *)
(* the window holds.                                                         *)
THEOREM SuspicionStays == DetectorSpec => SuspicionIsStable
<1>1. ASSUME DetectorTypeOK, [DetectorNext]_detectorVars, known, Suspected, elapsed' > elapsed
      PROVE  Suspected'
  <2>1. elapsed \in Nat /\ intervals \in Seq(Nat)
    <3>1. elapsed \in 0 .. MaxElapsed /\ intervals \in Seq(1 .. MaxElapsed)
      BY <1>1 DEF DetectorTypeOK
    <3>2. elapsed \in Nat
      BY <3>1, DetectorAssumption
    <3>3. 1 .. MaxElapsed \subseteq Nat
      OBVIOUS
    <3> QED
      BY <3>1, <3>2, <3>3, SeqOfMore, Zenon
  <2>2. elapsed' = elapsed + 1 /\ intervals' = intervals /\ known' = known
    <3>1. CASE Beat
      BY <3>1, <1>1, <2>1 DEF Beat
    <3>2. ASSUME NEW age \in transit, Arrive(age) PROVE FALSE
      BY <3>2, <1>1, <2>1 DEF Arrive, Heartbeat
    <3>3. ASSUME NEW age \in transit, Lose(age) PROVE FALSE
      BY <3>3, <1>1, <2>1 DEF Lose
    <3>4. CASE Crash
      BY <3>4, <1>1, <2>1 DEF Crash
    <3>5. CASE Tick
      BY <3>5, <1>1, <2>1 DEF Tick
    <3>6. CASE UNCHANGED detectorVars
      BY <3>6, <1>1, <2>1 DEF detectorVars
    <3> QED
      BY <1>1, <3>1, <3>2, <3>3, <3>4, <3>5, <3>6, Zenon DEF DetectorNext
  <2> DEFINE n == Len(intervals)
             whole == Sum(intervals)
             spread == FloorDen * (n * Squares(intervals) - whole * whole)
             limit == ThresholdNum * (IF spread >= n * n THEN spread ELSE n * n)
             c == ThresholdDen * FloorDen
  <2>3. n \in Nat /\ whole \in Nat /\ Squares(intervals) \in Nat
    BY <2>1, SumIsNumber, SquaresIsNumber
  <2>4. ThresholdNum \in Nat /\ c \in Nat /\ FloorDen \in Nat
    BY DetectorAssumption
  <2>5. WarmedUp /\ n * elapsed > whole /\ c * (n * elapsed - whole) * (n * elapsed - whole) >= limit
    BY <1>1, Zenon DEF Suspected, FarAboveMean
  <2> HIDE DEF n, whole
  <2>6. limit \in Int
    <3>1. n * Squares(intervals) - whole * whole \in Int /\ n * n \in Int
      BY <2>3
    <3>2. spread \in Int
      BY <3>1, <2>4
    <3> HIDE DEF spread
    <3> QED
      BY <3>1, <3>2, <2>4
  <2> HIDE DEF limit, c
  <2>7. n * (elapsed + 1) = n * elapsed + n /\ n * elapsed \in Nat
    BY <2>1, <2>3
  <2> DEFINE late == n * elapsed - whole
             later == n * (elapsed + 1) - whole
  <2>8. late \in Nat /\ later \in Nat /\ late <= later /\ n * (elapsed + 1) > whole
    BY <2>3, <2>5, <2>7
  <2>9. c * late * late >= limit
    BY <2>5
  <2> HIDE DEF late, later
  <2>10. c * later * later >= limit
    <3>1. c * late * late \in Nat /\ c * later * later \in Nat /\ c * late * late <= c * later * later
      BY <2>4, <2>8, SquareGrows
    <3> QED
      BY <3>1, <2>6, <2>9
  <2>11. FarAboveMean'
    BY <2>2, <2>8, <2>10, Zenon DEF FarAboveMean, n, whole, later, limit, c
  <2>12. WarmedUp' /\ elapsed' > 0
    BY <2>1, <2>2, <2>5 DEF WarmedUp
  <2> QED
    BY <2>11, <2>12 DEF Suspected
<1>2. DetectorTypeOK /\ [DetectorNext]_detectorVars
        => [known /\ Suspected /\ elapsed' > elapsed => Suspected']_detectorVars
  BY <1>1
<1> QED
  BY <1>2, DetectorTypeCorrect, PTL DEF DetectorSpec, SuspicionIsStable

=====

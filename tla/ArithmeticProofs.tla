--------------------------- MODULE ArithmeticProofs ---------------------------
(***************************************************************************)
(* What the proofs need of the integers, whatever their width: rounding to *)
(* tiles, the tile index as a number in a mixed radix (rows, columns,      *)
(* samples), wrapping, induction, and prefix sums.                         *)
(***************************************************************************)
EXTENDS Sequences, PrefixSums, WellFoundedInduction, TLAPS

(* Monotone products, and numbers that fit their width.                    *)
LEMMA ProductMonotone ==
  ASSUME NEW a \in Int, NEW b \in Int, NEW n \in Nat, a <= b
  PROVE  a * n <= b * n
OBVIOUS

LEMMA NoWrap == ASSUME NEW m \in Nat, NEW v \in 0..m PROVE v % (m + 1) = v
OBVIOUS

LEMMA WrapIsSmaller == ASSUME NEW m \in Nat, NEW v \in Nat PROVE v % (m + 1) \in Nat /\ v % (m + 1) <= v
OBVIOUS

-----------------------------------------------------------------------------
(* Rounding.                                                               *)

LEMMA RoundDown ==
  ASSUME NEW a \in Nat, NEW n \in Nat \ {0}
  PROVE  /\ a \div n \in Nat
         /\ (a \div n) * n \in Nat
         /\ (a \div n) * n <= a
         /\ a < (a \div n) * n + n
OBVIOUS

LEMMA RoundUp ==
  ASSUME NEW a \in Nat, NEW n \in Nat \ {0}
  PROVE  /\ (a + n - 1) \div n \in Nat
         /\ ((a + n - 1) \div n) * n \in Nat
         /\ a <= ((a + n - 1) \div n) * n
<1>1. a + n - 1 \in Nat
  OBVIOUS
<1>2. /\ (a + n - 1) \div n \in Nat
      /\ ((a + n - 1) \div n) * n \in Nat
      /\ a + n - 1 < ((a + n - 1) \div n) * n + n
  BY <1>1, RoundDown
<1>3. QED
  BY <1>2

LEMMA QuotientMonotone ==
  ASSUME NEW a \in Nat, NEW b \in Nat, NEW n \in Nat \ {0}, a <= b
  PROVE  a \div n <= b \div n
<1> DEFINE p == a \div n
           q == b \div n
<1>1. p \in Nat /\ q \in Nat /\ p * n <= a /\ b < q * n + n
  BY RoundDown
<1> HIDE DEF p, q
<1>2. ASSUME q < p PROVE FALSE
  <2>1. (q + 1) * n <= p * n
    BY <1>1, <1>2, ProductMonotone
  <2>2. (q + 1) * n = q * n + n
    BY <1>1
  <2>3. p * n \in Int /\ q * n \in Int
    BY <1>1
  <2>4. QED
    BY <1>1, <2>1, <2>2, <2>3
<1>3. p <= q
  BY <1>1, <1>2
<1>4. QED
  BY <1>3 DEF p, q

(* The first tile of a window begins before the end of its last.           *)
LEMMA QuotientBelow ==
  ASSUME NEW a \in Nat, NEW b \in Nat, NEW n \in Nat \ {0}, a + 1 <= b
  PROVE  a \div n < (b + n - 1) \div n
<1> DEFINE p == a \div n
           q == (b + n - 1) \div n
<1>1. p \in Nat /\ q \in Nat /\ p * n <= a /\ b <= q * n
  BY RoundDown, RoundUp
<1> HIDE DEF p, q
<1>2. ASSUME q <= p PROVE FALSE
  <2>1. q * n <= p * n
    BY <1>1, <1>2, ProductMonotone
  <2>2. p * n \in Int /\ q * n \in Int
    BY <1>1
  <2>3. QED
    BY <1>1, <2>1, <2>2
<1>3. p < q
  BY <1>1, <1>2
<1>4. QED
  BY <1>3 DEF p, q

-----------------------------------------------------------------------------
(* A number below the radix may be added to a multiple of it ...           *)
LEMMA DigitFits ==
  ASSUME NEW d \in Nat, NEW n \in Nat, NEW a \in 0..(d - 1), NEW x \in 0..(n - 1)
  PROVE  a * n + x \in 0..(d * n - 1)
<1>1. a * n \in Nat /\ d * n \in Nat
  OBVIOUS
<1>2. (a + 1) * n <= d * n
  BY ProductMonotone
<1>3. (a + 1) * n = a * n + n
  OBVIOUS
<1>4. QED
  BY <1>1, <1>2, <1>3

(* ... and can be told from the sum.                                       *)
LEMMA DigitsUnique ==
  ASSUME NEW n \in Nat, NEW a \in Int, NEW b \in Int, NEW x \in 0..(n - 1), NEW y \in 0..(n - 1),
         a * n + x = b * n + y
  PROVE  a = b /\ x = y
<1>1. a * n \in Int /\ b * n \in Int
  OBVIOUS
<1>2. ASSUME NEW u \in Int, NEW v \in Int, u < v PROVE u * n + n <= v * n
  <2>1. (u + 1) * n <= v * n
    BY <1>2, ProductMonotone
  <2>2. (u + 1) * n = u * n + n
    OBVIOUS
  <2>3. QED
    BY <2>1, <2>2
<1>3. ~(a < b) /\ ~(b < a)
  BY <1>1, <1>2
<1>4. QED
  BY <1>1, <1>3

(* Every number has a quotient and a rest ...                              *)
LEMMA QuotientRest ==
  ASSUME NEW i \in Nat, NEW n \in Nat \ {0}
  PROVE  \E m \in Nat, x \in 0..(n - 1) : i = m * n + x
<1> DEFINE m == i \div n
<1>1. m \in Nat /\ m * n \in Nat /\ m * n <= i /\ i < m * n + n
  BY RoundDown
<1> HIDE DEF m
<1>2. i - m * n \in 0..(n - 1) /\ i = m * n + (i - m * n)
  BY <1>1
<1>3. QED
  BY <1>1, <1>2

(* ... and the quotient is below what the number is below a multiple of.   *)
LEMMA QuotientBounded ==
  ASSUME NEW d \in Nat, NEW n \in Nat, NEW m \in Nat, NEW x \in 0..(n - 1), m * n + x < d * n
  PROVE  m < d
<1>1. ASSUME d <= m PROVE FALSE
  <2>1. d * n <= m * n /\ d * n \in Int /\ m * n \in Int
    BY <1>1, ProductMonotone
  <2>2. QED
    BY <2>1
<1>2. QED
  BY <1>1

(* The index without its width, to be expanded where it matters.           *)
GridIndex(A, S, r, c, s) == (r * A + c) * S + s

(* So an index names one place of a grid.                                  *)
LEMMA PlaceUnique ==
  ASSUME NEW D \in Nat, NEW A \in Nat, NEW S \in Nat,
         NEW p \in (0..(D - 1)) \X (0..(A - 1)) \X (0..(S - 1)),
         NEW q \in (0..(D - 1)) \X (0..(A - 1)) \X (0..(S - 1)),
         GridIndex(A, S, p[1], p[2], p[3]) = GridIndex(A, S, q[1], q[2], q[3])
  PROVE  p = q
<1>1. PICK r \in 0..(D - 1), c \in 0..(A - 1), s \in 0..(S - 1) : p = <<r, c, s>>
  OBVIOUS
<1>2. PICK u \in 0..(D - 1), v \in 0..(A - 1), t \in 0..(S - 1) : q = <<u, v, t>>
  OBVIOUS
<1>3. GridIndex(A, S, r, c, s) = GridIndex(A, S, u, v, t)
  BY <1>1, <1>2
<1>4. r \in Int /\ u \in Int
  OBVIOUS
<1>5. r = u /\ c = v /\ s = t
  <2> DEFINE a == r * A + c
             b == u * A + v
  <2>1. a \in Int /\ b \in Int /\ a * S + s = b * S + t
    BY <1>3 DEF GridIndex
  <2>2. a = b /\ s = t
    <3> HIDE DEF a, b
    <3>1. QED
      BY <2>1, DigitsUnique
  <2>3. QED
    BY <1>4, <2>2, DigitsUnique
<1>6. QED
  BY <1>1, <1>2, <1>5

HasPlace(D, A, S, i) ==
  \E r \in 0..(D - 1), c \in 0..(A - 1), s \in 0..(S - 1) : GridIndex(A, S, r, c, s) = i

(* And every number below the number of tiles is the index of a place.     *)
LEMMA PlaceExists ==
  ASSUME NEW D \in Nat, NEW A \in Nat \ {0}, NEW S \in Nat \ {0}, NEW i \in 0..(D * A * S - 1)
  PROVE  HasPlace(D, A, S, i)
<1>1. D * A \in Nat /\ D * A * S \in Nat /\ i \in Nat /\ i < (D * A) * S
  OBVIOUS
<1>2. PICK m \in Nat, s \in 0..(S - 1) : i = m * S + s
  BY <1>1, QuotientRest
<1>3. m < D * A
  BY <1>1, <1>2, QuotientBounded
<1>4. PICK r \in Nat, c \in 0..(A - 1) : m = r * A + c
  BY QuotientRest
<1>5. r < D
  BY <1>3, <1>4, QuotientBounded
<1>6. GridIndex(A, S, r, c, s) = i
  BY <1>2, <1>4 DEF GridIndex
<1>7. QED
  BY <1>5, <1>6 DEF HasPlace

(* The index of a place of the grid is below the number of tiles, even     *)
(* where the width cuts it.                                                *)
LEMMA IndexBelow ==
  ASSUME NEW D \in Nat, NEW A \in Nat, NEW S \in Nat, NEW m \in Nat,
         NEW r \in 0..(D - 1), NEW c \in 0..(A - 1), NEW s \in 0..(S - 1)
  PROVE  GridIndex(A, S, r, c, s) % (m + 1) \in Nat /\ GridIndex(A, S, r, c, s) % (m + 1) < A * D * S
<1>1. r * A + c \in 0..(D * A - 1) /\ D * A \in Nat
  BY DigitFits
<1>2. (r * A + c) * S + s \in 0..((D * A) * S - 1)
  BY <1>1, DigitFits
<1>3. (D * A) * S \in Nat /\ (D * A) * S = A * D * S
  BY <1>1
<1> DEFINE i == GridIndex(A, S, r, c, s)
<1>4. i \in Nat /\ i < A * D * S
  BY <1>2, <1>3 DEF GridIndex
<1> HIDE DEF i
<1>5. i % (m + 1) \in Nat /\ i % (m + 1) <= i
  BY <1>4, WrapIsSmaller
<1>6. A * D * S \in Int
  OBVIOUS
<1>7. QED
  BY <1>4, <1>5, <1>6 DEF i

-----------------------------------------------------------------------------
(* Four digits, each with a radix of its own.                              *)
Rank(s2, s3, s4, d1, d2, d3, d4) == ((d1 * s2 + d2) * s3 + d3) * s4 + d4

LEMMA RankBelow ==
  ASSUME NEW s1 \in Nat, NEW s2 \in Nat, NEW s3 \in Nat, NEW s4 \in Nat,
         NEW d1 \in 0..(s1 - 1), NEW d2 \in 0..(s2 - 1), NEW d3 \in 0..(s3 - 1), NEW d4 \in 0..(s4 - 1)
  PROVE  Rank(s2, s3, s4, d1, d2, d3, d4) \in 0..(((s1 * s2) * s3) * s4 - 1)
<1> DEFINE u == d1 * s2 + d2
           v == u * s3 + d3
           a == s1 * s2
           b == a * s3
<1>1. u \in 0..(a - 1) /\ a \in Nat
  BY DigitFits
<1> HIDE DEF u, a
<1>2. v \in 0..(b - 1) /\ b \in Nat
  BY <1>1, DigitFits
<1> HIDE DEF v, b
<1>3. v * s4 + d4 \in 0..(b * s4 - 1)
  BY <1>2, DigitFits
<1>4. QED
  BY <1>3 DEF Rank, u, v, a, b

LEMMA DigitLess ==
  ASSUME NEW n \in Nat, NEW a \in Int, NEW b \in Int, NEW x \in 0..(n - 1), NEW y \in Nat, a < b
  PROVE  a * n + x < b * n + y
<1>1. (a + 1) * n <= b * n
  BY ProductMonotone
<1>2. (a + 1) * n = a * n + n /\ a * n \in Int /\ b * n \in Int
  OBVIOUS
<1>3. QED
  BY <1>1, <1>2

(* The ranks are ordered as the digits are, the first one first.           *)
LEMMA RankOrder ==
  ASSUME NEW s2 \in Nat, NEW s3 \in Nat, NEW s4 \in Nat,
         NEW d1 \in Nat, NEW d2 \in 0..(s2 - 1), NEW d3 \in 0..(s3 - 1), NEW d4 \in 0..(s4 - 1),
         NEW e1 \in Nat, NEW e2 \in 0..(s2 - 1), NEW e3 \in 0..(s3 - 1), NEW e4 \in 0..(s4 - 1),
         \/ d1 < e1
         \/ d1 = e1 /\ d2 < e2
         \/ d1 = e1 /\ d2 = e2 /\ d3 < e3
         \/ d1 = e1 /\ d2 = e2 /\ d3 = e3 /\ d4 < e4
  PROVE  Rank(s2, s3, s4, d1, d2, d3, d4) < Rank(s2, s3, s4, e1, e2, e3, e4)
<1> DEFINE u == d1 * s2 + d2
           v == u * s3 + d3
           p == e1 * s2 + e2
           q == p * s3 + e3
<1>1. u \in Nat /\ p \in Nat
  OBVIOUS
<1>2. d1 < e1 \/ (d1 = e1 /\ d2 < e2) => u < p
  <2>1. CASE d1 < e1
    BY <2>1, DigitLess
  <2>2. CASE d1 = e1 /\ d2 < e2
    BY <2>2
  <2>3. QED
    BY <2>1, <2>2
<1>3. d1 = e1 /\ d2 = e2 => u = p
  OBVIOUS
<1> HIDE DEF u, p
<1>4. v \in Nat /\ q \in Nat
  BY <1>1
<1>5. u < p \/ (u = p /\ d3 < e3) => v < q
  <2>1. CASE u < p
    BY <1>1, <2>1, DigitLess
  <2>2. CASE u = p /\ d3 < e3
    BY <1>1, <2>2
  <2>3. QED
    BY <2>1, <2>2
<1>6. u = p /\ d3 = e3 => v = q
  OBVIOUS
<1> HIDE DEF v, q
<1>7. v < q \/ (v = q /\ d4 < e4) => v * s4 + d4 < q * s4 + e4
  <2>1. CASE v < q
    BY <1>4, <2>1, DigitLess
  <2>2. CASE v = q /\ d4 < e4
    BY <1>4, <2>2
  <2>3. QED
    BY <2>1, <2>2
<1>8. v * s4 + d4 < q * s4 + e4
  BY <1>2, <1>3, <1>5, <1>6, <1>7
<1>9. QED
  BY <1>8 DEF Rank, u, v, p, q

HasRank(s1, s2, s3, s4, m) ==
  \E d1 \in 0..(s1 - 1), d2 \in 0..(s2 - 1), d3 \in 0..(s3 - 1), d4 \in 0..(s4 - 1) :
    Rank(s2, s3, s4, d1, d2, d3, d4) = m

(* And no number below the product of the radices is left out.             *)
LEMMA RankOnto ==
  ASSUME NEW s1 \in Nat, NEW s2 \in Nat \ {0}, NEW s3 \in Nat \ {0}, NEW s4 \in Nat \ {0},
         NEW m \in 0..(((s1 * s2) * s3) * s4 - 1)
  PROVE  HasRank(s1, s2, s3, s4, m)
<1> DEFINE a == s1 * s2
           b == a * s3
<1>1. a \in Nat
  OBVIOUS
<1> HIDE DEF a
<1>2. b \in Nat
  BY <1>1
<1> HIDE DEF b
<1>3. m \in Nat /\ m < b * s4
  BY <1>2 DEF a, b
<1>4. PICK v \in Nat, d4 \in 0..(s4 - 1) : m = v * s4 + d4
  BY <1>3, QuotientRest
<1>5. v < b
  BY <1>2, <1>3, <1>4, QuotientBounded
<1>6. PICK u \in Nat, d3 \in 0..(s3 - 1) : v = u * s3 + d3
  BY QuotientRest
<1>7. u < a
  BY <1>1, <1>5, <1>6, QuotientBounded DEF b
<1>8. PICK d1 \in Nat, d2 \in 0..(s2 - 1) : u = d1 * s2 + d2
  BY QuotientRest
<1>9. d1 < s1
  BY <1>7, <1>8, QuotientBounded DEF a
<1>10. Rank(s2, s3, s4, d1, d2, d3, d4) = m
  BY <1>4, <1>6, <1>8 DEF Rank
<1>11. d1 \in 0..(s1 - 1)
  BY <1>9
<1>12. QED
  BY <1>10, <1>11 DEF HasRank

-----------------------------------------------------------------------------
(* Every set of naturals that is not empty has a least element.            *)
LEMMA LeastElement ==
  ASSUME NEW S, S \subseteq Nat, S # {}
  PROVE  \E x \in S : \A y \in S : x <= y
<1> DEFINE R == OpToRel(<, Nat)
<1>1. IsWellFoundedOn(R, Nat)
  BY NatLessThanWellFounded
<1>2. PICK x \in S : \A y \in S : ~(<<y, x>> \in R)
  <2> HIDE DEF R
  <2> QED BY <1>1, WFMin
<1>3. \A y \in S : ~(y < x)
  BY <1>2 DEF R, OpToRel
<1>4. QED
  BY <1>3

(* Induction, over the set of the numbers that have the property.          *)
LEMMA SetInduction ==
  ASSUME NEW S, S \subseteq Nat, 0 \in S, \A n \in S : n + 1 \in S
  PROVE  S = Nat
<1> DEFINE T == Nat \ S
<1>1. ASSUME T # {} PROVE FALSE
  <2>1. T \subseteq Nat
    OBVIOUS
  <2>2. PICK x \in T : \A y \in T : x <= y
    <3> HIDE DEF T
    <3> QED BY <1>1, <2>1, LeastElement
  <2>3. x # 0 /\ x - 1 \in Nat
    OBVIOUS
  <2>4. x - 1 \in S
    BY <2>2, <2>3
  <2>5. QED
    BY <2>4
<1>2. QED
  BY <1>1

(* A function on 0..n that satisfies the recursion of PrefixSum.           *)
SumsTo(f, n, g) == g = [k \in 0..n |-> IF k = 0 THEN 0 ELSE g[k - 1] + f[k]]

LEMMA SumsUnique ==
  ASSUME NEW f, NEW n \in Nat, NEW m \in Nat, NEW g, NEW h,
         SumsTo(f, n, g), SumsTo(f, m, h)
  PROVE  \A k \in (0..n) \cap (0..m) : g[k] = h[k]
<1> DEFINE S == {k \in Nat : k \in (0..n) \cap (0..m) => g[k] = h[k]}
<1>1. S = Nat
  <2>1. S \subseteq Nat
    OBVIOUS
  <2>2. 0 \in S
    BY DEF SumsTo
  <2>3. ASSUME NEW k \in S PROVE k + 1 \in S
    <3>1. CASE k + 1 \in (0..n) \cap (0..m)
      <4>1. k \in (0..n) \cap (0..m)
        BY <3>1
      <4>2. g[k] = h[k]
        BY <4>1
      <4>3. g[k + 1] = g[k] + f[k + 1]
        BY <3>1 DEF SumsTo
      <4>4. h[k + 1] = h[k] + f[k + 1]
        BY <3>1 DEF SumsTo
      <4>5. QED
        BY <4>2, <4>3, <4>4
    <3>2. QED
      BY <3>1
  <2> HIDE DEF S
  <2>4. QED
    BY <2>1, <2>2, <2>3, SetInduction
<1>2. QED
  BY <1>1

LEMMA SumsExist ==
  ASSUME NEW f
  PROVE  \A n \in Nat : \E g : SumsTo(f, n, g)
<1> DEFINE S == {n \in Nat : \E g : SumsTo(f, n, g)}
<1>1. S = Nat
  <2>1. S \subseteq Nat
    OBVIOUS
  <2>2. 0 \in S
    <3>1. SumsTo(f, 0, [k \in 0..0 |-> 0])
      BY DEF SumsTo
    <3>2. QED
      BY <3>1
  <2>3. ASSUME NEW n \in S PROVE n + 1 \in S
    <3>1. PICK g : SumsTo(f, n, g)
      OBVIOUS
    <3> DEFINE h == [k \in 0..(n + 1) |-> IF k = n + 1 THEN g[n] + f[n + 1] ELSE g[k]]
    <3>2. ASSUME NEW k \in 0..(n + 1)
          PROVE  h[k] = IF k = 0 THEN 0 ELSE h[k - 1] + f[k]
      <4>1. CASE k = n + 1
        BY <4>1
      <4>2. CASE k # n + 1
        <5>1. k \in 0..n
          BY <4>2
        <5>2. g[k] = IF k = 0 THEN 0 ELSE g[k - 1] + f[k]
          BY <3>1, <5>1 DEF SumsTo
        <5>3. QED
          BY <5>1, <5>2
      <4>3. QED
        BY <4>1, <4>2
    <3>3. h = [k \in 0..(n + 1) |-> IF k = 0 THEN 0 ELSE h[k - 1] + f[k]]
      BY <3>2
    <3>4. SumsTo(f, n + 1, h)
      BY <3>3 DEF SumsTo
    <3>5. QED
      BY <3>4
  <2> HIDE DEF S
  <2>4. QED
    BY <2>1, <2>2, <2>3, SetInduction
<1>2. QED
  BY <1>1

(* The recursion equations of PrefixSum.                                   *)
LEMMA PrefixSumUnfold ==
  ASSUME NEW f
  PROVE  /\ PrefixSum(f, 0) = 0
         /\ \A n \in Nat : PrefixSum(f, n + 1) = PrefixSum(f, n) + f[n + 1]
<1> DEFINE G(n) == CHOOSE g : SumsTo(f, n, g)
           T == [n \in Nat |-> G(n)[n]]
           IsSum(s) == s = [k \in Nat |-> IF k = 0 THEN 0 ELSE s[k - 1] + f[k]]
<1>1. ASSUME NEW n \in Nat PROVE SumsTo(f, n, G(n))
  BY SumsExist
<1>2. IsSum(T)
  <2>1. ASSUME NEW k \in Nat PROVE T[k] = IF k = 0 THEN 0 ELSE T[k - 1] + f[k]
    <3>1. CASE k = 0
      <4>1. SumsTo(f, 0, G(0)) /\ T[0] = G(0)[0]
        BY <1>1
      <4>2. G(0)[0] = 0
        <5> HIDE DEF G
        <5>1. QED
          BY <4>1 DEF SumsTo
      <4>3. QED
        BY <3>1, <4>1, <4>2
    <3>2. CASE k # 0
      <4>1. k - 1 \in Nat /\ SumsTo(f, k, G(k)) /\ SumsTo(f, k - 1, G(k - 1))
        BY <1>1, <3>2
      <4>2. G(k)[k - 1] = G(k - 1)[k - 1]
        <5> HIDE DEF G
        <5>1. QED
          BY <4>1, SumsUnique
      <4>3. G(k)[k] = G(k)[k - 1] + f[k]
        <5> HIDE DEF G
        <5>1. QED
          BY <3>2, <4>1 DEF SumsTo
      <4>4. T[k] = G(k)[k] /\ T[k - 1] = G(k - 1)[k - 1]
        <5> HIDE DEF G
        <5>1. QED
          BY <4>1
      <4>5. QED
        BY <3>2, <4>2, <4>3, <4>4
    <3>3. QED
      BY <3>1, <3>2
  <2> HIDE DEF G
  <2>2. QED
    BY <2>1
<1> DEFINE s == CHOOSE s : IsSum(s)
<1>3. IsSum(s)
  <2> HIDE DEF T, IsSum
  <2>1. QED
    BY <1>2
<1>4. \A n \in Nat : PrefixSum(f, n) = s[n]
  BY DEF PrefixSum
<1> HIDE DEF s
<1>5. QED
  BY <1>3, <1>4

(* A sum of naturals is a natural and grows with every term.               *)
LEMMA PrefixSumGrows ==
  ASSUME NEW f, NEW n \in Nat, \A k \in 1..n : f[k] \in Nat
  PROVE  /\ \A k \in 0..n : PrefixSum(f, k) \in Nat
         /\ \A k \in 0..n : PrefixSum(f, k) <= PrefixSum(f, n)
<1> DEFINE P(k) == PrefixSum(f, k)
           S == {k \in Nat : k \in 0..n => P(k) \in Nat}
           R == {d \in Nat : d \in 0..n => P(n - d) <= P(n)}
<1>1. P(0) = 0 /\ \A k \in Nat : P(k + 1) = P(k) + f[k + 1]
  BY PrefixSumUnfold
<1> HIDE DEF P
<1>2. S = Nat
  <2>1. S \subseteq Nat /\ 0 \in S
    BY <1>1
  <2>2. ASSUME NEW k \in S PROVE k + 1 \in S
    BY <1>1
  <2> HIDE DEF S
  <2>3. QED
    BY <2>1, <2>2, SetInduction
<1>3. \A k \in 0..n : P(k) \in Nat
  BY <1>2
<1>4. R = Nat
  <2>1. R \subseteq Nat /\ 0 \in R
    BY <1>3
  <2>2. ASSUME NEW d \in R PROVE d + 1 \in R
    <3>1. CASE d + 1 \in 0..n
      <4>1. n - (d + 1) \in 0..n /\ n - d \in 1..n /\ (n - (d + 1)) + 1 = n - d
        BY <3>1
      <4>2. P(n - d) = P(n - (d + 1)) + f[n - d]
        BY <1>1, <4>1
      <4>3. P(n - d) \in Nat /\ P(n - (d + 1)) \in Nat /\ f[n - d] \in Nat /\ P(n) \in Nat
        BY <1>3, <4>1
      <4>4. P(n - d) <= P(n)
        BY <3>1
      <4>5. QED
        BY <4>2, <4>3, <4>4
    <3>2. QED
      BY <3>1
  <2> HIDE DEF R
  <2>3. QED
    BY <2>1, <2>2, SetInduction
<1>5. ASSUME NEW k \in 0..n PROVE P(k) <= P(n)
  <2>1. n - k \in 0..n /\ n - (n - k) = k
    OBVIOUS
  <2>2. n - k \in R
    <3> HIDE DEF R
    <3>1. QED
      BY <1>4, <2>1
  <2>3. QED
    BY <2>1, <2>2
<1>6. QED
  BY <1>3, <1>5 DEF P

-----------------------------------------------------------------------------
(* Remainders.                                                             *)

(* A number is a multiple of m and its remainder.                          *)
LEMMA QuotientAndRemainder ==
  ASSUME NEW m \in Nat, m > 0, NEW n \in Nat
  PROVE  n = (n \div m) * m + (n % m)
BY SMTT(30)

LEMMA RemainderParts ==
  ASSUME NEW m \in Nat \ {0}, NEW n \in Nat
  PROVE  n % m \in 0..(m - 1) /\ n \div m \in Nat /\ n = (n \div m) * m + (n % m)
<1>1. n % m \in 0..(m - 1)
  OBVIOUS
<1>2. n \div m \in Nat
  OBVIOUS
<1>3. n = (n \div m) * m + (n % m)
  <2>1. m \in Nat /\ m > 0
    OBVIOUS
  <2>2. QED
    BY <2>1, QuotientAndRemainder
<1>4. QED
  BY <1>1, <1>2, <1>3

LEMMA RemainderIs ==
  ASSUME NEW m \in Nat \ {0}, NEW q \in Nat, NEW x \in 0..(m - 1), NEW n \in Nat, n = q * m + x
  PROVE  n % m = x
OBVIOUS

(* A multiple of m more or less makes no difference to the remainder.      *)
LEMMA RemainderOfMultiple ==
  ASSUME NEW m \in Nat \ {0}, NEW n \in Nat, NEW q \in Nat
  PROVE  (q * m + n) % m = n % m
<1> DEFINE u == n \div m
           a == n % m
<1>1. a \in 0..(m - 1) /\ u \in Nat /\ n = u * m + a
  BY RemainderParts
<1> HIDE DEF u, a
<1>2. (q + u) * m = q * m + u * m /\ q * m \in Nat /\ u * m \in Nat
  BY <1>1
<1>3. q * m + n \in Nat /\ q + u \in Nat /\ q * m + n = (q + u) * m + a
  BY <1>1, <1>2
<1>4. (q * m + n) % m = a
  BY <1>1, <1>3, RemainderIs
<1>5. QED
  BY <1>4 DEF a

(* Remainders may be taken before or after adding.                         *)
LEMMA RemainderOfSum ==
  ASSUME NEW m \in Nat \ {0}, NEW a \in Nat, NEW b \in Nat
  PROVE  ((a % m) + b) % m = (a + b) % m
<1> DEFINE u == a \div m
           x == a % m
<1>1. x \in Nat /\ u \in Nat /\ a = u * m + x
  BY RemainderParts
<1> HIDE DEF u, x
<1>2. a + b = u * m + (x + b)
  <2>1. u * m \in Int
    BY <1>1
  <2>2. QED
    BY <1>1, <2>1
<1>3. (u * m + (x + b)) % m = (x + b) % m
  <2>1. x + b \in Nat
    BY <1>1
  <2>2. QED
    BY <1>1, <2>1, RemainderOfMultiple
<1>4. QED
  BY <1>2, <1>3 DEF x

LEMMA RemainderOfSums ==
  ASSUME NEW m \in Nat \ {0}, NEW a \in Nat, NEW b \in Nat
  PROVE  ((a % m) + (b % m)) % m = (a + b) % m
<1>1. a % m \in Nat /\ b % m \in Nat
  BY RemainderParts
<1>2. ((a % m) + (b % m)) % m = (a + (b % m)) % m
  BY <1>1, RemainderOfSum
<1>3. ((b % m) + a) % m = (b + a) % m
  BY RemainderOfSum
<1> DEFINE y == b % m
<1>4. a + y = y + a /\ a + b = b + a
  <2>1. y \in Nat
    BY <1>1
  <2> HIDE DEF y
  <2>2. QED
    BY <2>1
<1>5. QED
  BY <1>2, <1>3, <1>4

(* A wider register loses nothing that a narrower one keeps.               *)
LEMMA RemainderOfWider ==
  ASSUME NEW m \in Nat \ {0}, NEW k \in Nat \ {0}, NEW n \in Nat
  PROVE  (n % (m * k)) % m = n % m
<1> DEFINE w == m * k
           u == n \div w
           x == n % w
<1>1. w \in Nat \ {0}
  OBVIOUS
<1>2. x \in Nat /\ u \in Nat /\ n = u * w + x
  <2> HIDE DEF w
  <2>1. QED
    BY <1>1, RemainderParts
<1>3. u * w = (u * k) * m /\ u * k \in Nat
  <2>1. u \in Nat
    BY <1>2
  <2> HIDE DEF u, x
  <2>2. QED
    BY <2>1
<1> HIDE DEF w, u, x
<1>4. ((u * k) * m + x) % m = x % m
  BY <1>2, <1>3, RemainderOfMultiple
<1>5. QED
  BY <1>2, <1>3, <1>4 DEF x, w

-----------------------------------------------------------------------------
(* Recursion over 0..n.                                                    *)

LEMMA InductionUpTo ==
  ASSUME NEW n \in Nat, NEW S, 0 \in S, \A k \in 0..(n - 1) : k \in S => k + 1 \in S
  PROVE  \A k \in 0..n : k \in S
<1> DEFINE T == {k \in Nat : k \in 0..n => k \in S}
<1>1. T \subseteq Nat /\ 0 \in T
  OBVIOUS
<1>2. ASSUME NEW k \in T PROVE k + 1 \in T
  <2>1. k + 1 \in 0..n => k \in 0..(n - 1)
    OBVIOUS
  <2>2. QED
    BY <2>1
<1>3. T = Nat
  <2> HIDE DEF T
  <2>1. QED
    BY <1>1, <1>2, SetInduction
<1>4. QED
  BY <1>3

Recursion(A, base, n, step) ==
  \E g \in [0..n -> A] : g[0] = base /\ \A k \in 1..n : g[k] = step[<<k, g[k - 1]>>]

(* A value for 0 and a step from each number to the next make a function.  *)
LEMMA RecursionExists ==
  ASSUME NEW A, NEW base \in A, NEW n \in Nat, NEW step \in [(1..n) \X A -> A]
  PROVE  Recursion(A, base, n, step)
<1> DEFINE Upto(m, g) == /\ g \in [0..m -> A] /\ g[0] = base
                         /\ \A k \in 1..m : g[k] = step[<<k, g[k - 1]>>]
           S == {m \in 0..n : \E g : Upto(m, g)}
<1>1. 0 \in S
  <2> DEFINE g == [k \in 0..0 |-> base]
  <2>1. g \in [0..0 -> A] /\ g[0] = base /\ \A k \in 1..0 : FALSE
    OBVIOUS
  <2> HIDE DEF g
  <2>2. Upto(0, g)
    BY <2>1
  <2>3. 0 \in 0..n
    OBVIOUS
  <2>4. QED
    BY <2>2, <2>3
<1>2. ASSUME NEW m \in 0..(n - 1), m \in S PROVE m + 1 \in S
  <2>1. PICK g : Upto(m, g)
    BY <1>2
  <2> DEFINE last == step[<<m + 1, g[m]>>]
             h == [k \in 0..(m + 1) |-> IF k = m + 1 THEN last ELSE g[k]]
  <2>2. g \in [0..m -> A] /\ g[0] = base /\ \A k \in 1..m : g[k] = step[<<k, g[k - 1]>>]
    BY <2>1
  <2>3. m + 1 \in 1..n /\ m \in 0..m /\ m \in Nat
    OBVIOUS
  <2>4. g[m] \in A
    BY <2>2, <2>3
  <2>5. last \in A
    BY <2>3, <2>4
  <2>6. h \in [0..(m + 1) -> A] /\ h[0] = base
    <3>1. \A k \in 0..(m + 1) : k = m + 1 \/ k \in 0..m
      BY <2>3
    <3>2. 0 # m + 1 /\ 0 \in 0..(m + 1)
      BY <2>3
    <3> HIDE DEF last
    <3>3. QED
      BY <2>2, <2>5, <3>1, <3>2
  <2>7. ASSUME NEW k \in 1..(m + 1) PROVE h[k] = step[<<k, h[k - 1]>>]
    <3>1. k \in 0..(m + 1) /\ k - 1 \in 0..(m + 1) /\ k - 1 # m + 1
      BY <2>3
    <3>2. h[k - 1] = g[k - 1]
      BY <3>1
    <3>3. CASE k = m + 1
      <4>1. h[k] = last /\ k - 1 = m
        BY <2>3, <3>1, <3>3
      <4>2. QED
        BY <3>2, <3>3, <4>1
    <3>4. CASE k # m + 1
      <4>1. h[k] = g[k] /\ k \in 1..m
        BY <2>3, <3>1, <3>4
      <4>2. QED
        BY <2>2, <3>2, <4>1
    <3>5. QED
      BY <3>3, <3>4
  <2>8. Upto(m + 1, h)
    <3> HIDE DEF h
    <3>1. QED
      BY <2>6, <2>7
  <2>9. m + 1 \in 0..n
    BY <2>3
  <2>10. QED
    BY <2>8, <2>9
<1>3. n \in S
  <2> HIDE DEF S
  <2>1. \A m \in 0..n : m \in S
    BY <1>1, <1>2, InductionUpTo
  <2>2. QED
    BY <2>1
<1>4. QED
  BY <1>3 DEF Recursion

-----------------------------------------------------------------------------
(* The axes in some order: four elements of a set of four.                 *)
IsOrder(A, a1, a2, a3, a4) ==
  /\ a1 \in A /\ a2 \in A /\ a3 \in A /\ a4 \in A
  /\ a1 # a2 /\ a1 # a3 /\ a1 # a4 /\ a2 # a3 /\ a2 # a4 /\ a3 # a4

FourAxes(A) == A = {"n", "b", "y", "x"}

(* The four terms of a sum, and the four factors of a product, in any order *)
LEMMA SumInOrder ==
  ASSUME NEW A, FourAxes(A), NEW f \in [A -> Int],
         NEW a1, NEW a2, NEW a3, NEW a4, IsOrder(A, a1, a2, a3, a4)
  PROVE  f["n"] + f["b"] + f["y"] + f["x"] = f[a1] + f[a2] + f[a3] + f[a4]
BY DEF IsOrder, FourAxes

LEMMA ProductInOrder ==
  ASSUME NEW A, FourAxes(A), NEW f \in [A -> Int],
         NEW a1, NEW a2, NEW a3, NEW a4, IsOrder(A, a1, a2, a3, a4)
  PROVE  f["n"] * f["b"] * f["y"] * f["x"] = f[a1] * f[a2] * f[a3] * f[a4]
BY DEF IsOrder, FourAxes

(* There are four axes.                                                    *)
LEMMA AllAxes ==
  ASSUME NEW A, FourAxes(A), NEW a1, NEW a2, NEW a3, NEW a4, IsOrder(A, a1, a2, a3, a4)
  PROVE  A = {a1, a2, a3, a4}
BY DEF IsOrder, FourAxes

HasOrder(A, o) ==
  \E a1, a2, a3, a4 :
    /\ IsOrder(A, a1, a2, a3, a4)
    /\ \/ o = <<a1, a2, a3, a4>>
       \/ o = <<a2, a3, a4>> /\ a1 = "n" /\ \A p \in 1..Len(o) : o[p] # "n"

(* A sequence that has b, y and x, and no axis twice, orders three axes or *)
(* four.  An absent n is put in front.                                     *)
LEMMA OrderOf ==
  ASSUME NEW A, FourAxes(A), NEW o \in Seq(A),
         \A p, q \in 1..Len(o) : o[p] = o[q] => p = q,
         NEW pb \in 1..Len(o), NEW py \in 1..Len(o), NEW px \in 1..Len(o),
         o[pb] = "b", o[py] = "y", o[px] = "x"
  PROVE  HasOrder(A, o)
<1> DEFINE L == Len(o)
<1>1. L \in Nat /\ DOMAIN o = 1..L /\ \A p \in 1..L : o[p] \in A
  OBVIOUS
<1>2. \A p, q \in 1..L : o[p] = o[q] => p = q
  OBVIOUS
<1>3. o = [p \in 1..L |-> o[p]] /\ pb \in 1..L /\ py \in 1..L /\ px \in 1..L
  BY <1>1
<1> HIDE DEF L
<1>4. pb # py /\ pb # px /\ py # px
  OBVIOUS
<1>5. CASE \E p \in 1..L : o[p] = "n"
  <2>1. PICK pn \in 1..L : o[pn] = "n"
    BY <1>5
  <2>2. pn # pb /\ pn # py /\ pn # px
    BY <2>1
  <2>3. \A p \in 1..L : p \in {pn, pb, py, px}
    BY <1>1, <1>2, <1>3, <2>1 DEF FourAxes
  <2>4. L = 4
    <3>1. L >= 4
      BY <1>1, <1>3, <1>4, <2>2
    <3>2. ~(L >= 5)
      <4>1. L >= 5 => 1 \in 1..L /\ 2 \in 1..L /\ 3 \in 1..L /\ 4 \in 1..L /\ 5 \in 1..L
        BY <1>1
      <4>2. L >= 5 => /\ 1 \in {pn, pb, py, px} /\ 2 \in {pn, pb, py, px} /\ 3 \in {pn, pb, py, px}
                      /\ 4 \in {pn, pb, py, px} /\ 5 \in {pn, pb, py, px}
        BY <4>1, <2>3
      <4>3. QED
        BY <4>2
    <3>3. QED
      BY <1>1, <3>1, <3>2
  <2>5. o = <<o[1], o[2], o[3], o[4]>>
    BY <1>1, <2>4 DEF L
  <2>6. IsOrder(A, o[1], o[2], o[3], o[4])
    BY <1>1, <1>2, <2>4 DEF IsOrder
  <2>7. QED
    BY <2>5, <2>6 DEF HasOrder
<1>6. CASE ~\E p \in 1..L : o[p] = "n"
  <2>1. \A p \in 1..L : o[p] # "n"
    BY <1>6
  <2>2. \A p \in 1..L : p \in {pb, py, px}
    BY <1>1, <1>2, <1>3, <2>1 DEF FourAxes
  <2>3. L = 3
    <3>1. L >= 3
      BY <1>1, <1>3, <1>4
    <3>2. ~(L >= 4)
      <4>1. L >= 4 => 1 \in 1..L /\ 2 \in 1..L /\ 3 \in 1..L /\ 4 \in 1..L
        BY <1>1
      <4>2. L >= 4 => 1 \in {pb, py, px} /\ 2 \in {pb, py, px} /\ 3 \in {pb, py, px} /\ 4 \in {pb, py, px}
        BY <4>1, <2>2
      <4>3. QED
        BY <4>2
    <3>3. QED
      BY <1>1, <3>1, <3>2
  <2>4. o = <<o[1], o[2], o[3]>>
    BY <1>1, <2>3 DEF L
  <2>5. IsOrder(A, "n", o[1], o[2], o[3])
    BY <1>1, <1>2, <2>1, <2>3 DEF IsOrder, FourAxes
  <2>6. QED
    BY <2>1, <2>4, <2>5 DEF L, HasOrder
<1>7. QED
  BY <1>5, <1>6

=============================================================================

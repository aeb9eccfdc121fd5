--------------------------- MODULE LibraryProofs ----------------------------
(***************************************************************************)
(* What the functions of the library of replacements compute: arrays and   *)
(* numbers, vis with unvis byte by byte, strings, vis with unvis on whole  *)
(* strings, and lines as they are read.                                    *)
(***************************************************************************)
EXTENDS Numbers, LineInput, VisCodec, Strings, VisStrings, NaturalsLemmas, SequenceTheorems, FiniteSetTheorems

(* Arrays: the product that reallocarr and reallocarray hand to realloc.   *)

(* A product of two factors grows with either.                             *)
LEMMA ProductMonotone ==
  ASSUME NEW a \in Nat, NEW b \in Nat, NEW c \in Nat, a <= b
  PROVE  a * c <= b * c
<1>1. PICK d \in Nat : b = a + d
  BY SMT
<1>2. b * c = a * c + d * c
  BY <1>1, SMT
<1>3. d * c >= 0
  BY SMT
<1>. QED BY <1>2, <1>3, SMT

(* n is greater than the quotient a \div s just when n * s is greater than a. *)
LEMMA QuotientTest ==
  ASSUME NEW a \in Nat, NEW s \in Nat \ {0}, NEW n \in Nat
  PROVE  n > a \div s <=> n * s > a
<1>. DEFINE q == a \div s
<1>1. q \in Nat /\ q * s <= a /\ a < (q + 1) * s
  BY SMT
<1>2. ASSUME n > q PROVE n * s > a
  <2>1. q + 1 <= n
    BY <1>1, <1>2, SMT
  <2>2. (q + 1) * s <= n * s
    BY <1>1, <2>1, ProductMonotone
  <2>. QED BY <1>1, <2>2, SMT
<1>3. ASSUME n <= q PROVE n * s <= a
  <2>1. n * s <= q * s
    BY <1>1, <1>3, ProductMonotone
  <2>. QED BY <1>1, <2>1, SMT
<1>. QED BY <1>1, <1>2, <1>3, SMT

LEMMA SizeFacts == SIZE_MAX \in Nat /\ SIZE_MAX + 1 = SQRT_SIZE_MAX * SQRT_SIZE_MAX
<1>1. SQRT_SIZE_MAX * SQRT_SIZE_MAX \in Nat /\ SQRT_SIZE_MAX * SQRT_SIZE_MAX >= 1
  <2>1. 1 * SQRT_SIZE_MAX <= SQRT_SIZE_MAX * SQRT_SIZE_MAX
    BY SizeAssumption, ProductMonotone
  <2>. QED BY <2>1, SizeAssumption, SMT
<1>. QED BY <1>1, SizeAssumption, SMT DEF SIZE_MAX

(* Two factors of half the width do not overflow: the test that avoids a   *)
(* division.                                                               *)
LEMMA SmallFactors ==
  ASSUME NEW n \in SizeT, NEW s \in SizeT, n < SQRT_SIZE_MAX, s < SQRT_SIZE_MAX
  PROVE  n * s <= SIZE_MAX
<1>0. n \in Nat /\ s \in Nat
  BY SizeFacts, SMT DEF SizeT
<1>1. n * s <= SQRT_SIZE_MAX * s
  BY <1>0, SizeAssumption, ProductMonotone, SMT
<1>2. (s + 1) * SQRT_SIZE_MAX <= SQRT_SIZE_MAX * SQRT_SIZE_MAX
  BY <1>0, SizeAssumption, ProductMonotone, SMT
<1>3. (s + 1) * SQRT_SIZE_MAX = SQRT_SIZE_MAX * s + SQRT_SIZE_MAX
  BY <1>0, SizeAssumption, SMT
<1>4. n * s \in Nat /\ SQRT_SIZE_MAX * s \in Nat /\ SQRT_SIZE_MAX * SQRT_SIZE_MAX \in Nat
  BY <1>0, SizeAssumption, SMT
<1>. QED BY <1>1, <1>2, <1>3, <1>4, SizeAssumption, SMT DEF SIZE_MAX

(* reallocarr refuses exactly the products that do not fit.                *)
LEMMA OverflowTest ==
  ASSUME NEW n \in SizeT, NEW s \in SizeT, s # 0
  PROVE  Overflows(n, s) <=> n * s > SIZE_MAX
<1>0. n \in Nat /\ s \in Nat \ {0}
  BY SizeFacts, SMT DEF SizeT
<1>1. n > SIZE_MAX \div s <=> n * s > SIZE_MAX
  BY <1>0, SizeFacts, QuotientTest
<1>2. n < SQRT_SIZE_MAX /\ s < SQRT_SIZE_MAX => ~(n * s > SIZE_MAX)
  <2>. SUFFICES ASSUME n < SQRT_SIZE_MAX, s < SQRT_SIZE_MAX PROVE n * s <= SIZE_MAX
    BY <1>0, SizeFacts, SMT
  <2>. QED BY SmallFactors
<1>3. n < SQRT_SIZE_MAX <=> ~(n >= SQRT_SIZE_MAX)
  BY <1>0, SizeAssumption, SMT
<1>4. s < SQRT_SIZE_MAX <=> ~(s >= SQRT_SIZE_MAX)
  BY <1>0, SizeAssumption, SMT
<1>. QED BY <1>1, <1>2, <1>3, <1>4 DEF Overflows

(* A product that fits is what realloc is asked for.                       *)
LEMMA ProductKept ==
  ASSUME NEW n \in SizeT, NEW s \in SizeT, ~(n * s > SIZE_MAX)
  PROVE  Product(n, s) = n * s
<1>0. n \in Nat /\ s \in Nat
  BY SizeFacts, SMT DEF SizeT
<1>1. n * s \in Nat /\ n * s < SIZE_MAX + 1
  BY <1>0, SizeFacts, SMT
<1>. QED BY <1>1, SizeFacts, SMT DEF Product

ArrayInv ==
  /\ block \in Nat \cup {NoBlock}
  /\ array \in [number : SizeT, size : SizeT]
  /\ request \in [number : SizeT, size : SizeT]
  /\ RoomForAll

LEMMA ReallocRight ==
  ASSUME ArrayInv, NEW n \in SizeT, NEW s \in SizeT, ~(n * s > SIZE_MAX), Realloc(n, s)
  PROVE  ArrayInv'
<1>0. n \in Nat /\ s \in Nat /\ n * s \in Nat
  BY SizeFacts, SMT DEF SizeT
<1>1. Product(n, s) = n * s
  BY ProductKept
<1>2. CASE block' = Product(n, s) /\ array' = Array(n, s) /\ Says("ok", n, s)
  BY <1>0, <1>1, <1>2 DEF ArrayInv, RoomForAll, Array, Says
<1>3. CASE UNCHANGED <<block, array>> /\ Says("memory", n, s)
  BY <1>3 DEF ArrayInv, RoomForAll, Array, Says
<1>. QED BY <1>2, <1>3 DEF Realloc

LEMMA RefusalRight ==
  ASSUME ArrayInv, NEW n \in SizeT, NEW s \in SizeT, n * s > SIZE_MAX,
         UNCHANGED <<block, array>>, Says("overflow", n, s)
  PROVE  ArrayInv'
BY DEF ArrayInv, RoomForAll, Array, Says

LEMMA ReallocarrRight ==
  ASSUME ArrayInv, NEW n \in SizeT, NEW s \in SizeT, Reallocarr(n, s)
  PROVE  ArrayInv'
<1>1. CASE /\ n = 0 \/ s = 0
           /\ block' = NoBlock /\ array' = Array(0, 0) /\ Says("ok", n, s)
  <2>1. 0 \in SizeT
    BY SizeFacts, SMT DEF SizeT
  <2>. QED BY <1>1, <2>1 DEF ArrayInv, RoomForAll, Array, Says
<1>2. CASE n # 0 /\ s # 0 /\ Overflows(n, s) /\ UNCHANGED <<block, array>> /\ Says("overflow", n, s)
  BY <1>2, OverflowTest, RefusalRight
<1>3. CASE n # 0 /\ s # 0 /\ ~Overflows(n, s) /\ Realloc(n, s)
  BY <1>3, OverflowTest, ReallocRight
<1>. QED BY <1>1, <1>2, <1>3 DEF Reallocarr

LEMMA ReallocarrayRight ==
  ASSUME ArrayInv, NEW n \in SizeT, NEW s \in SizeT, Reallocarray(n, s)
  PROVE  ArrayInv'
<1>. DEFINE over == (n >= SQRT_SIZE_MAX \/ s >= SQRT_SIZE_MAX) /\ n > 0 /\ SIZE_MAX \div n < s
<1>0. n \in Nat /\ s \in Nat
  BY SizeFacts, SMT DEF SizeT
<1>1. over <=> n * s > SIZE_MAX
  <2>1. CASE n = 0
    <3>1. n * s = 0
      BY <1>0, <2>1, SMT
    <3>. QED BY <2>1, <3>1, SizeFacts, SMT
  <2>2. CASE n # 0
    <3>1. SIZE_MAX \div n \in Int
      BY <1>0, <2>2, SizeFacts, SMT
    <3>2. s > SIZE_MAX \div n <=> s * n > SIZE_MAX
      BY <1>0, <2>2, SizeFacts, QuotientTest
    <3>3. s * n = n * s
      BY <1>0, SMT
    <3>4. SIZE_MAX \div n < s <=> s > SIZE_MAX \div n
      BY <1>0, <3>1, SMT
    <3>5. n < SQRT_SIZE_MAX /\ s < SQRT_SIZE_MAX => ~(n * s > SIZE_MAX)
      <4>. SUFFICES ASSUME n < SQRT_SIZE_MAX, s < SQRT_SIZE_MAX PROVE n * s <= SIZE_MAX
        BY <1>0, SizeFacts, SMT
      <4>. QED BY SmallFactors
    <3>6. (n < SQRT_SIZE_MAX <=> ~(n >= SQRT_SIZE_MAX)) /\ (s < SQRT_SIZE_MAX <=> ~(s >= SQRT_SIZE_MAX)) /\ n > 0
      BY <1>0, <2>2, SizeAssumption, SMT
    <3>. QED BY <3>2, <3>3, <3>4, <3>5, <3>6
  <2>. QED BY <2>1, <2>2
<1>2. CASE over /\ UNCHANGED <<block, array>> /\ Says("overflow", n, s)
  BY <1>1, <1>2, RefusalRight
<1>3. CASE ~over /\ Realloc(n, s)
  BY <1>1, <1>3, ReallocRight
<1>. QED BY <1>2, <1>3 DEF Reallocarray

LEMMA InitArray == ArrayInit => ArrayInv
<1>1. 0 \in SizeT
  BY SizeFacts, SMT DEF SizeT
<1>. QED BY <1>1 DEF ArrayInit, ArrayInv, RoomForAll, Array

LEMMA StepArray == ArrayInv /\ [ArrayNext]_arrayVars => ArrayInv'
<1>. SUFFICES ASSUME ArrayInv, [ArrayNext]_arrayVars PROVE ArrayInv'
  OBVIOUS
<1>1. CASE ArrayNext
  BY <1>1, ReallocarrRight, ReallocarrayRight DEF ArrayNext
<1>2. CASE UNCHANGED arrayVars
  BY <1>2 DEF arrayVars, ArrayInv, RoomForAll
<1>. QED BY <1>1, <1>2

(* A block has room for the elements of its array, the true product of     *)
(* their number and size, and no product that fits is refused: whatever    *)
(* the width of a size_t, in any sequence of calls.                        *)
THEOREM Room == ArraySpec => []RoomForAll
<1>1. ArrayInv => RoomForAll
  BY DEF ArrayInv
<1>. QED BY <1>1, InitArray, StepArray, PTL DEF ArraySpec

-----------------------------------------------------------------------------
(* Powers.                                                                 *)
Times(b) == [m \in Nat |-> b * m]
PowersOf(b, n) == CHOOSE h : h = [k \in 0..n |-> IF k = 0 THEN 1 ELSE b * h[k - 1]]

LEMMA PowersIterate ==
  ASSUME NEW b \in Nat, NEW n \in Nat
  PROVE  Iterated(PowersOf(b, n), Nat, 1, Times(b), n) /\ Power(b, n) = PowersOf(b, n)[n]
<1> DEFINE Body(h) == [k \in 0..n |-> IF k = 0 THEN 1 ELSE b * h[k - 1]]
           p == PowersOf(b, n)
<1>1. Times(b) \in [Nat -> Nat] /\ \A m \in Nat : Times(b)[m] = b * m
  BY DEF Times
<1>2. PICK f : Iterated(f, Nat, 1, Times(b), n)
  BY <1>1, Iterates
<1>3. f = Body(f)
  <2>1. f \in [0..n -> Nat] /\ f[0] = 1 /\ \A k \in 1..n : f[k] = Times(b)[f[k - 1]]
    BY <1>2 DEF Iterated
  <2>2. \A k \in 1..n : f[k - 1] \in Nat
    BY <2>1
  <2>3. \A k \in 1..n : f[k] = b * f[k - 1]
    BY <1>1, <2>1, <2>2
  <2> QED BY <2>1, <2>3
<1>4. p = Body(p)
  BY <1>3 DEF PowersOf
<1> HIDE DEF p
<1>5. p[0] = 1 /\ \A k \in 1..n : p[k] = b * p[k - 1]
  BY <1>4
<1>6. p = [k \in 0..n |-> p[k]]
  BY <1>4, Zenon
<1>7. \A k \in 1..n : p[k - 1] \in Nat => p[k] = Times(b)[p[k - 1]]
  BY <1>1, <1>5
<1>8. Iterated(p, Nat, 1, Times(b), n)
  BY <1>1, <1>5, <1>6, <1>7, Recursed
<1>9. Power(b, n) = p[n]
  BY Zenon DEF Power, PowersOf, p
<1> QED BY <1>8, <1>9 DEF p

LEMMA PowerFacts ==
  ASSUME NEW b \in Nat
  PROVE  /\ \A n \in Nat : Power(b, n) \in Nat
         /\ Power(b, 0) = 1
         /\ \A n \in Nat : Power(b, n + 1) = b * Power(b, n)
<1>1. ASSUME NEW n \in Nat PROVE Power(b, n) \in Nat
  <2>1. PowersOf(b, n) \in [0..n -> Nat] /\ Power(b, n) = PowersOf(b, n)[n]
    BY PowersIterate DEF Iterated
  <2> QED BY <2>1
<1>2. Power(b, 0) = 1
  BY PowersIterate DEF Iterated
<1>3. ASSUME NEW n \in Nat PROVE Power(b, n + 1) = b * Power(b, n)
  <2> DEFINE p == PowersOf(b, n)
             q == PowersOf(b, n + 1)
  <2>1. Iterated(p, Nat, 1, Times(b), n) /\ Power(b, n) = p[n]
    BY PowersIterate
  <2>2. Iterated(q, Nat, 1, Times(b), n + 1) /\ Power(b, n + 1) = q[n + 1]
    BY PowersIterate
  <2> HIDE DEF p, q
  <2>3. p[n] = q[n]
    BY <2>1, <2>2, IteratesAgree
  <2>4. q[n + 1] = Times(b)[q[n]] /\ q[n] \in Nat
    BY <2>2 DEF Iterated
  <2> QED BY <2>1, <2>2, <2>3, <2>4 DEF Times
<1> QED BY <1>1, <1>2, <1>3

LEMMA PowerPositive ==
  ASSUME NEW b \in Nat, b > 0
  PROVE  \A n \in Nat : Power(b, n) >= 1
<1> DEFINE P == {n \in Nat : Power(b, n) >= 1}
<1>1. 0 \in P
  BY PowerFacts
<1>2. ASSUME NEW n \in Nat, n \in P PROVE n + 1 \in P
  <2>1. Power(b, n) \in Nat /\ Power(b, n) >= 1 /\ Power(b, n + 1) = b * Power(b, n)
    BY <1>2, PowerFacts
  <2>2. b * 1 <= b * Power(b, n)
    <3>1. 1 * b <= Power(b, n) * b
      BY <2>1, ProductMonotone
    <3> QED BY <2>1, <3>1, SMT
  <2> QED BY <2>1, <2>2
<1> HIDE DEF P
<1>3. \A n \in Nat : n \in P
  BY <1>1, <1>2, InductionOnSet, Zenon
<1> QED BY <1>3 DEF P

(* The amount in each unit, the one before it divided once more.           *)
LEMMA QuotientsDivide ==
  ASSUME NEW n \in Nat, NEW d \in Nat, d > 0
  PROVE  /\ Quotients(n, d) \in [0..maxscale -> Nat]
         /\ Quotients(n, d)[0] = n
         /\ \A i \in 1..maxscale : Quotients(n, d)[i] = Quotients(n, d)[i - 1] \div d
<1> DEFINE step == [m \in Nat |-> m \div d]
           Body(h) == [i \in 0..maxscale |-> IF i = 0 THEN n ELSE h[i - 1] \div d]
           amount == CHOOSE h : h = Body(h)
<1>0. maxscale \in Nat
  BY DEF maxscale
<1>1. step \in [Nat -> Nat] /\ \A m \in Nat : step[m] = m \div d
  BY SMT
<1> HIDE DEF step
<1>2. PICK f : Iterated(f, Nat, n, step, maxscale)
  BY <1>0, <1>1, Iterates
<1>3. f = Body(f)
  <2>1. f \in [0..maxscale -> Nat] /\ f[0] = n /\ \A i \in 1..maxscale : f[i] = step[f[i - 1]]
    BY <1>2 DEF Iterated
  <2>2. \A i \in 1..maxscale : f[i - 1] \in Nat
    BY <1>0, <2>1
  <2>3. \A i \in 1..maxscale : f[i] = f[i - 1] \div d
    BY <1>1, <2>1, <2>2
  <2> QED BY <1>0, <2>1, <2>3
<1>4. amount = Body(amount)
  BY <1>3
<1>5. Quotients(n, d) = amount
  BY Zenon DEF Quotients
<1> HIDE DEF amount
<1>6. amount[0] = n /\ \A i \in 1..maxscale : amount[i] = amount[i - 1] \div d
  BY <1>0, <1>4
<1>7. amount = [i \in 0..maxscale |-> amount[i]]
  BY <1>4, Zenon
<1>8. \A i \in 1..maxscale : amount[i - 1] \in Nat => amount[i] = step[amount[i - 1]]
  BY <1>1, <1>6
<1>9. Iterated(amount, Nat, n, step, maxscale)
  BY <1>0, <1>1, <1>6, <1>7, <1>8, Recursed
<1> QED BY <1>5, <1>6, <1>9 DEF Iterated

LEMMA DivideOnce ==
  ASSUME NEW q \in Nat, NEW d \in Nat, d > 0
  PROVE  q \div d \in Nat /\ (q \div d) * d <= q /\ q + 1 <= (q \div d + 1) * d
BY SMT

(* Dividing by d time after time is dividing by its power.                 *)
LEMMA QuotientsBound ==
  ASSUME NEW n \in Nat, NEW d \in Nat, d > 0
  PROVE  \A i \in 0..maxscale : /\ Quotients(n, d)[i] * Power(d, i) <= n
                                /\ n < (Quotients(n, d)[i] + 1) * Power(d, i)
<1> DEFINE q == Quotients(n, d)
           P == {i \in Nat : i <= maxscale => q[i] * Power(d, i) <= n /\ n < (q[i] + 1) * Power(d, i)}
<1>0. maxscale \in Nat
  BY DEF maxscale
<1>1. q \in [0..maxscale -> Nat] /\ q[0] = n /\ \A i \in 1..maxscale : q[i] = q[i - 1] \div d
  BY QuotientsDivide
<1> HIDE DEF q
<1>2. 0 \in P
  <2>1. Power(d, 0) = 1 /\ n * 1 = n /\ (n + 1) * 1 = n + 1
    BY PowerFacts
  <2> QED BY <1>1, <2>1
<1>3. ASSUME NEW i \in Nat, i \in P PROVE i + 1 \in P
  <2> SUFFICES ASSUME i + 1 <= maxscale
               PROVE  q[i + 1] * Power(d, i + 1) <= n /\ n < (q[i + 1] + 1) * Power(d, i + 1)
    OBVIOUS
  <2> DEFINE a == q[i]
             b == q[i + 1]
             p == Power(d, i)
  <2>1. a \in Nat /\ b = a \div d
    <3>1. i + 1 \in 1..maxscale /\ i + 1 - 1 = i /\ i \in 0..maxscale
      BY <1>0
    <3> QED BY <1>1, <3>1
  <2>2. p \in Nat /\ Power(d, i + 1) = d * p /\ a * p <= n /\ n < (a + 1) * p
    <3>1. p \in Nat /\ Power(d, i + 1) = d * p
      BY PowerFacts
    <3>2. i <= maxscale
      BY <1>0
    <3>3. a * p <= n /\ n < (a + 1) * p
      BY <1>3, <3>2
    <3> QED BY <3>1, <3>3
  <2> HIDE DEF a, b, p
  <2>3. b \in Nat /\ b * d <= a /\ a + 1 <= (b + 1) * d
    BY <2>1, DivideOnce
  <2>4. (b * d) * p <= a * p /\ (a + 1) * p <= ((b + 1) * d) * p
    <3>1. b * d \in Nat /\ (b + 1) * d \in Nat /\ a + 1 \in Nat
      BY <2>1, <2>3
    <3> QED BY <2>1, <2>2, <2>3, <3>1, ProductMonotone
  <2>5. b * (d * p) = (b * d) * p /\ (b + 1) * (d * p) = ((b + 1) * d) * p
    BY <2>2, <2>3, SMT
  <2>6. b * (d * p) <= n /\ n < (b + 1) * (d * p)
    <3>1. a * p \in Nat /\ (a + 1) * p \in Nat /\ (b * d) * p \in Nat /\ ((b + 1) * d) * p \in Nat
      BY <2>1, <2>2, <2>3
    <3> QED BY <2>2, <2>4, <2>5, <3>1
  <2> QED BY <2>2, <2>6 DEF b
<1> HIDE DEF P
<1>4. \A i \in Nat : i \in P
  BY <1>2, <1>3, InductionOnSet, Zenon
<1> QED BY <1>0, <1>4 DEF P, q

(* The digits of a number.                                                 *)
DigitsBody(h, n) == [m \in 0..n |-> IF m < 10 THEN 1 ELSE 1 + h[m \div 10]]
DigitsTo(n) == CHOOSE h : h = DigitsBody(h, n)

LEMMA DigitsExist ==
  ASSUME NEW n \in Nat
  PROVE  \E h : h = DigitsBody(h, n)
<1> DEFINE P == {k \in Nat : \E h : h = DigitsBody(h, k)}
<1>1. 0 \in P
  <2> DEFINE h == [m \in 0..0 |-> 1]
  <2>1. h = DigitsBody(h, 0)
    BY DEF DigitsBody
  <2> QED BY <2>1
<1>2. ASSUME NEW k \in Nat, k \in P PROVE k + 1 \in P
  <2>1. PICK h : h = DigitsBody(h, k)
    BY <1>2
  <2> DEFINE g == [m \in 0..k + 1 |-> IF m = k + 1 THEN (IF m < 10 THEN 1 ELSE 1 + h[m \div 10]) ELSE h[m]]
  <2>2. \A m \in 0..k + 1 : m >= 10 => m \div 10 \in 0..k
    BY SMT
  <2>3. \A m \in 0..k + 1 : m >= 10 => g[m \div 10] = h[m \div 10]
    BY <2>2
  <2>4. \A m \in 0..k : h[m] = IF m < 10 THEN 1 ELSE 1 + h[m \div 10]
    BY <2>1 DEF DigitsBody
  <2>5. \A m \in 0..k + 1 : g[m] = IF m < 10 THEN 1 ELSE 1 + h[m \div 10]
    BY <2>4
  <2>6. \A m \in 0..k + 1 : g[m] = IF m < 10 THEN 1 ELSE 1 + g[m \div 10]
    BY <2>3, <2>5
  <2>7. g = [m \in 0..k + 1 |-> g[m]]
    OBVIOUS
  <2> HIDE DEF g
  <2>8. g = DigitsBody(g, k + 1)
    BY <2>6, <2>7 DEF DigitsBody
  <2> QED BY <2>8
<1> HIDE DEF P
<1>3. n \in P
  BY <1>1, <1>2, InductionOnSet, Zenon
<1> QED BY <1>3 DEF P

(* A number below a power of ten has no more digits than the power has     *)
(* zeros, and at least one.                                                *)
LEMMA DigitsBound ==
  ASSUME NEW n \in Nat, NEW c \in Nat, c > 0, n < Power(10, c)
  PROVE  Digits(n) \in Nat /\ Digits(n) <= c
<1> DEFINE h == DigitsTo(n)
           P == {k \in Nat : \A m \in 0..n : m < Power(10, k + 1) => h[m] \in Nat /\ h[m] <= k + 1}
<1>1. Digits(n) = h[n]
  BY Zenon DEF Digits, DigitsTo, DigitsBody
<1>2. h = DigitsBody(h, n)
  BY DigitsExist DEF DigitsTo
<1> HIDE DEF h
<1>3. \A m \in 0..n : h[m] = IF m < 10 THEN 1 ELSE 1 + h[m \div 10]
  BY <1>2 DEF DigitsBody
<1>4. Power(10, 0) = 1 /\ \A k \in Nat : Power(10, k) \in Nat /\ Power(10, k + 1) = 10 * Power(10, k)
  BY PowerFacts
<1>5. 0 \in P
  <2>1. Power(10, 0 + 1) = 10
    BY <1>4
  <2> QED BY <1>3, <2>1
<1>6. ASSUME NEW k \in Nat, k \in P PROVE k + 1 \in P
  <2> SUFFICES ASSUME NEW m \in 0..n, m < Power(10, k + 1 + 1) PROVE h[m] \in Nat /\ h[m] <= k + 1 + 1
    OBVIOUS
  <2>1. CASE m < 10
    BY <1>3, <2>1
  <2>2. CASE m >= 10
    <3> DEFINE j == m \div 10
               p == Power(10, k + 1)
    <3>1. p \in Nat /\ m < 10 * p
      BY <1>4
    <3> HIDE DEF p
    <3>2. j \in 0..n /\ j < p
      BY <3>1, SMT
    <3>3. h[j] \in Nat /\ h[j] <= k + 1
      BY <1>6, <3>2 DEF p
    <3>4. h[m] = 1 + h[j]
      BY <1>3, <2>2
    <3> HIDE DEF j
    <3> QED BY <3>3, <3>4
  <2> QED BY <2>1, <2>2
<1> HIDE DEF P
<1>7. \A k \in Nat : k \in P
  BY <1>5, <1>6, InductionOnSet, Zenon
<1>8. c - 1 \in Nat /\ c - 1 + 1 = c
  OBVIOUS
<1> QED BY <1>1, <1>7, <1>8 DEF P

-----------------------------------------------------------------------------
(* strtoi and strtou.                                                      *)
LEMMA StrtoStep ==
  ASSUME NEW input \in Texts, NEW b \in Bounds, Strto(input, b[1], b[2])
  PROVE  StrtoRight'
<1> DEFINE lo == b[1]
           hi == b[2]
<1>1. /\ input.value \in Int /\ input.digits \in BOOLEAN /\ input.trail \in BOOLEAN
      /\ lo \in Int /\ hi \in Int /\ IntMin <= lo /\ lo <= hi /\ hi <= UintMax
      /\ IntMax \in Nat /\ IntMin = -IntMax - 1 /\ UintMax = 2 * IntMax + 1
  <2>1. input \in [value : Int, digits : BOOLEAN, trail : BOOLEAN] /\ b \in Int \X Int
    BY NumbersAssumption
  <2>2. IntMax \in Nat /\ IntMin <= b[1] /\ b[1] <= b[2] /\ b[2] <= UintMax
    BY NumbersAssumption
  <2> QED BY <2>1, <2>2 DEF IntMin, UintMax
<1> HIDE DEF lo, hi
<1>2. ASSUME NEW im \in Int
      PROVE  /\ Ranged(im, input, lo, hi).res \in lo..hi
             /\ Ranged(im, input, lo, hi).status = "0" => input.digits /\ ~input.trail /\ Ranged(im, input, lo, hi).res = im
             /\ input.digits /\ ~input.trail /\ im \in lo..hi => Ranged(im, input, lo, hi) = [res |-> im, status |-> "0"]
  BY <1>1 DEF Ranged
<1>3. strtoimax(input) \in Int /\ (input.digits /\ input.value \in IntMin..IntMax => strtoimax(input) = input.value)
  BY <1>1 DEF strtoimax
<1>4. strtoumax(input) \in Int /\ (input.digits /\ input.value \in 0..UintMax => strtoumax(input) = input.value)
  <2>1. ASSUME input.value \in -UintMax..UintMax PROVE input.value % (UintMax + 1) \in Int
    BY <1>1, <2>1, SMT
  <2>2. ASSUME input.value \in 0..UintMax PROVE input.value % (UintMax + 1) = input.value
    BY <1>1, <2>2, SMT
  <2> QED BY <1>1, <2>1, <2>2 DEF strtoumax
<1>5. CASE hi <= IntMax /\ call' = [fn |-> "strtoi", text |-> input, lo |-> lo, hi |-> hi, r |-> strtoi(input, lo, hi)]
  <2> DEFINE r == strtoi(input, lo, hi)
  <2>1. /\ r.res \in lo..hi
        /\ r.status = "0" => input.digits /\ ~input.trail /\ r.res = strtoimax(input)
        /\ input.digits /\ ~input.trail /\ strtoimax(input) \in lo..hi => r = [res |-> strtoimax(input), status |-> "0"]
    BY <1>2, <1>3 DEF strtoi
  <2> HIDE DEF r
  <2>2. call'.fn = "strtoi" /\ call'.text = input /\ call'.lo = lo /\ call'.hi = hi /\ call'.r = r
    BY <1>5 DEF r
  <2>3. input.value \in lo..hi => input.value \in IntMin..IntMax
    BY <1>1, <1>5
  <2> QED BY <1>3, <2>1, <2>2, <2>3 DEF StrtoRight
<1>6. CASE lo >= 0 /\ call' = [fn |-> "strtou", text |-> input, lo |-> lo, hi |-> hi, r |-> strtou(input, lo, hi)]
  <2> DEFINE r == strtou(input, lo, hi)
  <2>1. /\ r.res \in lo..hi
        /\ r.status = "0" => input.digits /\ ~input.trail /\ r.res = strtoumax(input)
        /\ input.digits /\ ~input.trail /\ strtoumax(input) \in lo..hi => r = [res |-> strtoumax(input), status |-> "0"]
    BY <1>2, <1>4 DEF strtou
  <2> HIDE DEF r
  <2>2. call'.fn = "strtou" /\ call'.text = input /\ call'.lo = lo /\ call'.hi = hi /\ call'.r = r
    BY <1>6 DEF r
  <2>3. input.value \in lo..hi => input.value \in 0..UintMax
    BY <1>1, <1>6
  <2> QED BY <1>4, <2>1, <2>2, <2>3 DEF StrtoRight
<1> QED BY <1>5, <1>6 DEF Strto, lo, hi

-----------------------------------------------------------------------------
(* humanize_number.                                                        *)

(* What rounding to tenths, and to whole units, loses of an amount x that  *)
(* is h hundredths of p, cut.                                              *)
LEMMA TenthsNearest ==
  ASSUME NEW x \in Nat, NEW h \in Nat, NEW p \in Nat, h * p <= 100 * x, 100 * x < (h + 1) * p, NEW n,
         n = (h + 5) \div 10
  PROVE  n \in Nat /\ Nearest(n, p, 10 * x)
<1>1. n \in Nat /\ 10 * n <= h + 5 /\ h + 1 <= 10 * n + 5
  BY SMT
<1>2. (h + 1) * p <= (10 * n + 5) * p /\ (10 * n) * p <= (h + 5) * p
  BY <1>1, ProductMonotone
<1>3. /\ (h + 1) * p = h * p + p /\ (h + 5) * p = h * p + 5 * p
      /\ (10 * n + 5) * p = 10 * (n * p) + 5 * p /\ (10 * n) * p = 10 * (n * p)
      /\ n * p \in Nat /\ h * p \in Nat
  BY <1>1, SMT
<1> QED BY <1>1, <1>2, <1>3 DEF Nearest, Abs

LEMMA WholesNearest ==
  ASSUME NEW x \in Nat, NEW h \in Nat, NEW p \in Nat, h * p <= 100 * x, 100 * x < (h + 1) * p, NEW n,
         n = (h + 50) \div 100
  PROVE  n \in Nat /\ Nearest(n, p, x)
<1>1. n \in Nat /\ 100 * n <= h + 50 /\ h + 1 <= 100 * n + 50
  BY SMT
<1>2. (h + 1) * p <= (100 * n + 50) * p /\ (100 * n) * p <= (h + 50) * p
  BY <1>1, ProductMonotone
<1>3. /\ (h + 1) * p = h * p + p /\ (h + 50) * p = h * p + 50 * p
      /\ (100 * n + 50) * p = 100 * (n * p) + 50 * p /\ (100 * n) * p = 100 * (n * p)
      /\ n * p \in Nat /\ h * p \in Nat
  BY <1>1, SMT
<1> QED BY <1>1, <1>2, <1>3 DEF Nearest, Abs

(* The unit that is chosen: the smallest whose columns suffice. There is   *)
(* one, as nothing is left of the amount in the last.                      *)
LEMMA FittingFacts ==
  ASSUME NEW amount \in [0..maxscale -> Nat], amount[maxscale] = 0, NEW max \in Nat, max >= 1000
  PROVE  /\ Fitting(amount, max) \in 0..maxscale
         /\ ~TooWide(amount[Fitting(amount, max)], max)
         /\ \A j \in 0..(Fitting(amount, max) - 1) : TooWide(amount[j], max)
<1> DEFINE T == {i \in 0..maxscale : ~TooWide(amount[i], max)}
           Good(i) == /\ i = maxscale \/ ~TooWide(amount[i], max)
                      /\ \A j \in 0..(i - 1) : TooWide(amount[j], max)
<1>0. maxscale \in Nat
  BY DEF maxscale
<1>1. maxscale \in T
  BY <1>0 DEF TooWide
<1>2. PICK i \in T : \A j \in T : i <= j
  <2>1. T \subseteq Nat /\ T # {}
    BY <1>0, <1>1
  <2> HIDE DEF T
  <2> QED BY <2>1, LeastNatural, Zenon
<1>3. i \in 0..maxscale /\ \A j \in 0..(i - 1) : j \in 0..maxscale /\ ~(i <= j)
  BY <1>0, <1>2
<1>4. Good(i)
  BY <1>2, <1>3
<1>5. \E k \in 0..maxscale : Good(k)
  BY <1>3, <1>4
<1>6. Fitting(amount, max) = CHOOSE k \in 0..maxscale : Good(k)
  BY Zenon DEF Fitting
<1>7. Fitting(amount, max) \in 0..maxscale /\ Good(Fitting(amount, max))
  <2> HIDE DEF Good
  <2> QED BY <1>5, <1>6, Zenon
<1>8. ~TooWide(amount[maxscale], max)
  BY <1>1
<1> QED BY <1>7, <1>8

(* What is shown, in parts: n is the whole part without its sign.          *)
Parts(r, tenth, n, bytes, h, i, len, suffix, fs) ==
  /\ tenth = (h < 995 /\ i > 0 /\ "decimal" \in fs)
  /\ tenth => len >= BaseLen(bytes, suffix, fs) + 3
  /\ n = IF tenth THEN ((h + 5) \div 10) \div 10 ELSE (h + 50) \div 100
  /\ r.whole = IF bytes < 0 THEN -n ELSE n
  /\ Abs(r.whole) = n
  /\ r.tenth = IF tenth THEN ((h + 5) \div 10) % 10 ELSE -1
  /\ r.at = i
  /\ r.ret = Digits(n) + (IF r.whole < 0 THEN 1 ELSE 0) + (IF tenth THEN 2 ELSE 0)
             + (IF "nospace" \in fs THEN 0 ELSE 1) + (IF i > 0 \/ "B" \in fs THEN 1 ELSE 0) + suffix

LEMMA ShownParts ==
  ASSUME NEW bytes \in Int, NEW h \in Nat, NEW i \in Nat, NEW len \in Nat, NEW suffix \in Nat, NEW fs,
         NEW r, r = Shown(bytes, h, i, len, suffix, fs), r.ret >= 0
  PROVE  \E tenth \in BOOLEAN, n \in Nat : Parts(r, tenth, n, bytes, h, i, len, suffix, fs)
<1> DEFINE tenth == h < 995 /\ i > 0 /\ "decimal" \in fs
           b     == (h + 5) \div 10
           n     == IF tenth THEN b \div 10 ELSE (h + 50) \div 100
           sign  == IF bytes < 0 THEN -1 ELSE 1
           whole == sign * n
           ret   == Digits(Abs(whole)) + (IF whole < 0 THEN 1 ELSE 0) + (IF tenth THEN 2 ELSE 0)
                    + (IF "nospace" \in fs THEN 0 ELSE 1)
                    + (IF i > 0 \/ "B" \in fs THEN 1 ELSE 0) + suffix
           digit == IF tenth THEN b % 10 ELSE -1
<1>1. n \in Nat
  BY SMT
<1>2. whole = (IF bytes < 0 THEN -n ELSE n) /\ Abs(whole) = n
  <2> HIDE DEF n
  <2> QED BY <1>1 DEF Abs
<1>3. r = IF tenth /\ len < BaseLen(bytes, suffix, fs) + 3 THEN [ret |-> -1]
          ELSE [ret |-> ret, whole |-> whole, tenth |-> digit, at |-> i]
  <2>1. whole = sign * (IF tenth THEN b \div 10 ELSE (h + 50) \div 100)
    OBVIOUS
  <2> QED BY <2>1, Zenon DEF Shown
<1> HIDE DEF tenth, ret, whole, digit
<1>4. ~(tenth /\ len < BaseLen(bytes, suffix, fs) + 3)
  <2> SUFFICES ASSUME tenth /\ len < BaseLen(bytes, suffix, fs) + 3 PROVE FALSE
    OBVIOUS
  <2>1. r.ret = -1
    BY <1>3
  <2> QED BY <2>1
<1>5. r = [ret |-> ret, whole |-> whole, tenth |-> digit, at |-> i]
  BY <1>3, <1>4
<1>6. r.ret = ret /\ r.whole = whole /\ r.tenth = digit /\ r.at = i
  BY <1>5
<1>7. tenth \in BOOLEAN /\ (tenth => len >= BaseLen(bytes, suffix, fs) + 3)
  <2>1. BaseLen(bytes, suffix, fs) \in Nat
    BY DEF BaseLen
  <2> QED BY <1>4, <2>1 DEF tenth
<1>8. Parts(r, tenth, n, bytes, h, i, len, suffix, fs)
  BY <1>2, <1>6, <1>7 DEF Parts, tenth, ret, digit
<1> QED BY <1>1, <1>7, <1>8

(* The number shown is nearest to the amount.                              *)
LEMMA ShownNearest ==
  ASSUME NEW bytes \in Int, NEW h \in Nat, NEW i \in Nat, NEW len \in Nat, NEW suffix \in Nat, NEW fs,
         NEW r, r = Shown(bytes, h, i, len, suffix, fs), r.ret >= 0,
         NEW p \in Nat, h * p <= 100 * Abs(bytes), 100 * Abs(bytes) < (h + 1) * p
  PROVE  IF r.tenth >= 0 THEN Nearest(10 * Abs(r.whole) + r.tenth, p, 10 * Abs(bytes))
         ELSE Nearest(Abs(r.whole), p, Abs(bytes))
<1>0. PICK tenth \in BOOLEAN, n \in Nat : Parts(r, tenth, n, bytes, h, i, len, suffix, fs)
  BY ONLY ShownParts, bytes \in Int, h \in Nat, i \in Nat, len \in Nat, suffix \in Nat, r = Shown(bytes, h, i, len, suffix, fs), r.ret >= 0
<1>1. /\ n = IF tenth THEN ((h + 5) \div 10) \div 10 ELSE (h + 50) \div 100
      /\ Abs(r.whole) = n
      /\ r.tenth = IF tenth THEN ((h + 5) \div 10) % 10 ELSE -1
  BY <1>0, Zenon DEF Parts
<1>2. Abs(bytes) \in Nat
  BY DEF Abs
<1>3. CASE tenth
  <2> DEFINE b == (h + 5) \div 10
  <2>1. b \in Nat /\ Nearest(b, p, 10 * Abs(bytes))
    <3> DEFINE x == Abs(bytes)
    <3>1. x \in Nat /\ h * p <= 100 * x /\ 100 * x < (h + 1) * p
      BY <1>2
    <3> HIDE DEF x
    <3>2. b \in Nat /\ Nearest(b, p, 10 * x)
      BY <3>1, TenthsNearest
    <3> QED BY <3>2 DEF x
  <2>2. n = b \div 10 /\ r.tenth = b % 10 /\ Abs(r.whole) = n
    BY <1>1, <1>3
  <2> HIDE DEF b
  <2>3. 10 * n + r.tenth = b /\ r.tenth >= 0
    BY <2>1, <2>2, SMT
  <2> QED BY <2>1, <2>2, <2>3
<1>4. CASE ~tenth
  <2>1. Nearest(n, p, Abs(bytes))
    BY <1>1, <1>2, <1>4, WholesNearest
  <2> QED BY <1>1, <1>4, <2>1
<1> QED BY <1>3, <1>4

(* Where the unit is chosen the text fits: the columns hold the rounded    *)
(* number, a tenth is shown only where there are three.                    *)
LEMMA ShownFits ==
  ASSUME NEW bytes \in Int, NEW h \in Nat, NEW i \in Nat, NEW len \in Nat, NEW suffix \in Nat, NEW fs,
         NEW r, r = Shown(bytes, h, i, len, suffix, fs), r.ret >= 0,
         NEW columns, columns = len - BaseLen(bytes, suffix, fs), columns >= 1,
         ~TooWide(h, 100 * Power(10, columns))
  PROVE  r.ret < len
<1>0. PICK tenth \in BOOLEAN, n \in Nat : Parts(r, tenth, n, bytes, h, i, len, suffix, fs)
  BY ONLY ShownParts, bytes \in Int, h \in Nat, i \in Nat, len \in Nat, suffix \in Nat, r = Shown(bytes, h, i, len, suffix, fs), r.ret >= 0
<1> DEFINE base  == BaseLen(bytes, suffix, fs)
           space == IF "nospace" \in fs THEN 0 ELSE 1
           pre   == IF i > 0 \/ "B" \in fs THEN 1 ELSE 0
           neg   == IF r.whole < 0 THEN 1 ELSE 0
           two   == IF tenth THEN 2 ELSE 0
<1>1. /\ tenth => h < 995 /\ len >= base + 3
      /\ n = IF tenth THEN ((h + 5) \div 10) \div 10 ELSE (h + 50) \div 100
      /\ r.whole = IF bytes < 0 THEN -n ELSE n
      /\ r.ret = Digits(n) + neg + two + space + pre + suffix
  BY <1>0, Zenon DEF Parts
<1>2. base = (IF bytes < 0 THEN 3 ELSE 2) + space + suffix
  BY DEF BaseLen
<1>3. space \in {0, 1} /\ pre \in {0, 1} /\ base \in Nat /\ columns \in Nat /\ columns = len - base
  BY <1>2
<1> HIDE DEF base, space, pre
<1>4. neg \in {0, 1} /\ (neg = 1 => bytes < 0)
  BY <1>1
<1>5. Digits(n) \in Nat /\ Digits(n) + two <= columns
  <2>1. CASE tenth
    <3>1. n < 10
      BY <1>1, <2>1, SMT
    <3>2. 0 + 1 = 1 /\ Power(10, 0) = 1 /\ Power(10, 0 + 1) = 10 * Power(10, 0)
      BY PowerFacts
    <3>3. Power(10, 1) = 10
      BY <3>2
    <3>4. Digits(n) \in Nat /\ Digits(n) <= 1
      BY <3>1, <3>3, DigitsBound
    <3> QED BY <1>1, <1>3, <2>1, <3>4
  <2>2. CASE ~tenth
    <3>1. Power(10, columns) \in Nat
      BY <1>3, PowerFacts
    <3>2. n < Power(10, columns)
      <4> DEFINE p == Power(10, columns)
      <4>1. p \in Nat /\ h < 100 * p - 50
        BY <3>1 DEF TooWide
      <4> HIDE DEF p
      <4>2. (h + 50) \div 100 < p
        BY <4>1, SMT
      <4> QED BY <1>1, <2>2, <4>2 DEF p
    <3>3. Digits(n) \in Nat /\ Digits(n) <= columns
      BY <1>3, <3>2, DigitsBound
    <3> QED BY <1>3, <2>2, <3>3
  <2> QED BY <2>1, <2>2
<1>6. two \in Nat
  OBVIOUS
<1> HIDE DEF neg, two
<1>7. len = columns + base
  BY <1>3 DEF base
<1> QED BY <1>1, <1>2, <1>3, <1>4, <1>5, <1>6, <1>7

(* What is too wide for three columns leaves a tenth of the next unit.     *)
LEMMA LeavesTenth ==
  ASSUME NEW columns \in Nat, columns >= 3, NEW d \in {1000, 1024},
         NEW before \in Nat, TooWide(before, 100 * Power(10, columns))
  PROVE  before \div d >= 97
<1> DEFINE k == columns - 3
           p == Power(10, k)
<1>1. k \in Nat /\ k + 1 \in Nat /\ k + 2 \in Nat /\ k + 1 + 1 = k + 2 /\ k + 2 + 1 = columns
  OBVIOUS
<1> HIDE DEF k
<1>2. /\ p \in Nat /\ p >= 1
      /\ Power(10, k + 1) = 10 * p /\ Power(10, k + 1 + 1) = 10 * Power(10, k + 1)
      /\ Power(10, k + 2 + 1) = 10 * Power(10, k + 2)
  <2>1. \A m \in Nat : Power(10, m) \in Nat /\ Power(10, m + 1) = 10 * Power(10, m)
    BY ONLY PowerFacts
  <2>2. \A m \in Nat : Power(10, m) >= 1
    BY PowerPositive
  <2> QED BY <1>1, <2>1, <2>2
<1> HIDE DEF p
<1>3. Power(10, columns) = 1000 * p
  BY <1>1, <1>2
<1>4. before >= 99950
  BY <1>2, <1>3 DEF TooWide
<1> QED BY <1>4, SMT

(* An amount below nought that is shown in tenths shows its sign.          *)
LEMMA ShownSigned ==
  ASSUME NEW bytes \in Int, bytes < 0, NEW h \in Nat, NEW i \in Nat, NEW len \in Nat, NEW suffix \in Nat, NEW fs,
         NEW r, r = Shown(bytes, h, i, len, suffix, fs), r.ret >= 0,
         i > 0 /\ len >= BaseLen(bytes, suffix, fs) + 3 => h >= 97
  PROVE  r.whole <= (IF r.tenth >= 0 THEN -1 ELSE 0)
<1>0. PICK tenth \in BOOLEAN, n \in Nat : Parts(r, tenth, n, bytes, h, i, len, suffix, fs)
  BY ONLY ShownParts, bytes \in Int, h \in Nat, i \in Nat, len \in Nat, suffix \in Nat, r = Shown(bytes, h, i, len, suffix, fs), r.ret >= 0
<1>1. /\ tenth => i > 0 /\ len >= BaseLen(bytes, suffix, fs) + 3
      /\ n = IF tenth THEN ((h + 5) \div 10) \div 10 ELSE (h + 50) \div 100
      /\ r.whole = -n
      /\ r.tenth = IF tenth THEN ((h + 5) \div 10) % 10 ELSE -1
  BY <1>0 DEF Parts
<1>2. CASE ~tenth
  BY <1>1, <1>2
<1>3. CASE tenth
  <2>1. h >= 97
    BY <1>1, <1>3
  <2>2. ((h + 5) \div 10) \div 10 >= 1
    BY <2>1, SMT
  <2> QED BY <1>1, <1>3, <2>2
<1> QED BY <1>2, <1>3

LEMMA HumanizeStep ==
  ASSUME NEW len \in HnLengths, NEW bytes \in Amounts, NEW suffix \in SuffixLens, NEW scale \in Scales,
         NEW fs \in HnFlags, Humanize(len, bytes, suffix, scale, fs)
  PROVE  HumanizeRight'
<1> DEFINE r       == humanize_number(len, bytes, suffix, scale, fs)
           x       == Abs(bytes)
           d       == Divisor(fs)
           columns == len - BaseLen(bytes, suffix, fs)
           auto    == scale >= HN_GETSCALE
           amount  == Quotients(100 * x, d)
           max     == 100 * Power(10, columns)
           at      == IF auto THEN Fitting(amount, max) ELSE scale
<1>1. /\ len \in Nat /\ suffix \in Nat /\ bytes \in Int /\ x \in Nat /\ 100 * x \in Nat
      /\ scale \in 0..15 \cup {HN_GETSCALE, HN_AUTOSCALE} /\ scale \in Nat /\ d \in {1000, 1024} /\ columns \in Int
  <2>1. len \in Nat /\ suffix \in Nat /\ bytes \in Int /\ scale \in 0..15 \cup {HN_GETSCALE, HN_AUTOSCALE}
    BY NumbersAssumption
  <2> QED BY <2>1 DEF Abs, Divisor, BaseLen, HN_GETSCALE, HN_AUTOSCALE
<1>2. amount[maxscale] = 0
  BY <1>1, NumbersAssumption
<1>3. r = IF (~auto /\ scale >= maxscale) \/ columns < 1 THEN [ret |-> -1]
          ELSE IF scale = HN_GETSCALE THEN [ret |-> at]
          ELSE Shown(bytes, amount[at], at, len, suffix, fs)
  BY Zenon DEF humanize_number
<1>4. /\ call'.fn = "humanize" /\ call'.len = len /\ call'.bytes = bytes /\ call'.suffix = suffix
      /\ call'.scale = scale /\ call'.flags = fs /\ call'.r = r
  <2> HIDE DEF r
  <2>1. call' = [fn |-> "humanize", len |-> len, bytes |-> bytes, suffix |-> suffix, scale |-> scale,
                 flags |-> fs, r |-> r]
    BY Zenon DEF Humanize, r
  <2> QED BY <2>1
<1> HIDE DEF r, x, d, amount, at
<1>5. SUFFICES ASSUME r.ret >= 0, scale # HN_GETSCALE
      PROVE  /\ IF r.tenth >= 0 THEN Nearest(10 * Abs(r.whole) + r.tenth, Power(d, r.at), 10 * x)
                ELSE Nearest(Abs(r.whole), Power(d, r.at), x)
             /\ scale = HN_AUTOSCALE =>
                  /\ r.ret < len
                  /\ bytes < 0 => r.whole <= (IF r.tenth >= 0 THEN -1 ELSE 0)
                  /\ r.at > 0 => 2 * x + Power(d, r.at - 1) >= 2 * Power(10, columns) * Power(d, r.at - 1)
                  /\ r.at = humanize_number(len, bytes, suffix, HN_GETSCALE, fs).ret
  BY <1>4 DEF HumanizeRight, x, d
<1>6. columns >= 1 /\ (auto \/ scale < maxscale)
  <2> SUFFICES ASSUME (~auto /\ scale >= maxscale) \/ columns < 1 PROVE FALSE
    BY <1>1 DEF maxscale
  <2>1. r = [ret |-> -1]
    BY <1>3
  <2>2. r.ret = -1
    BY <2>1
  <2> QED BY <1>5, <2>2
<1>7. r = Shown(bytes, amount[at], at, len, suffix, fs)
  <2>1. ~((~auto /\ scale >= maxscale) \/ columns < 1)
    BY <1>1, <1>6 DEF maxscale, HN_GETSCALE
  <2> QED BY <1>3, <1>5, <2>1
<1>8. amount \in [0..maxscale -> Nat] /\ \A i \in 1..maxscale : amount[i] = amount[i - 1] \div d
  BY <1>1, QuotientsDivide DEF amount
<1>9. \A i \in 0..maxscale : amount[i] * Power(d, i) <= 100 * x /\ 100 * x < (amount[i] + 1) * Power(d, i)
  BY <1>1, QuotientsBound DEF amount
<1>10. max \in Nat /\ max >= 1000 /\ Power(10, columns) \in Nat
  <2>1. columns - 1 \in Nat /\ columns - 1 + 1 = columns
    BY <1>1, <1>6
  <2> DEFINE k == columns - 1
  <2>2. k \in Nat /\ k + 1 = columns
    BY <2>1
  <2> HIDE DEF k
  <2>3. Power(10, k) \in Nat /\ Power(10, k + 1) = 10 * Power(10, k)
    BY ONLY <2>2, PowerFacts
  <2>4. Power(10, k) >= 1
    BY <2>2, PowerPositive
  <2> QED BY <2>2, <2>3, <2>4
<1>11. auto => /\ at \in 0..maxscale /\ ~TooWide(amount[at], max)
               /\ \A j \in 0..(at - 1) : TooWide(amount[j], max)
  <2> HIDE DEF max
  <2>1. /\ Fitting(amount, max) \in 0..maxscale
        /\ ~TooWide(amount[Fitting(amount, max)], max)
        /\ \A j \in 0..(Fitting(amount, max) - 1) : TooWide(amount[j], max)
    BY ONLY <1>2, <1>8, <1>10, FittingFacts
  <2> QED BY <2>1 DEF at
<1>12. maxscale \in Nat /\ at \in 0..maxscale /\ at \in Nat /\ amount[at] \in Nat
  BY <1>1, <1>6, <1>8, <1>11 DEF at, maxscale
<1>13. r.at = at
  <2>1. PICK tenth \in BOOLEAN, n \in Nat : Parts(r, tenth, n, bytes, amount[at], at, len, suffix, fs)
    <3> HIDE DEF columns, auto, max
    <3> QED BY <1>1, <1>5, <1>7, <1>12, ShownParts
  <2> QED BY <2>1 DEF Parts
<1>14. Power(d, at) \in Nat
  <2>1. d \in Nat
    BY <1>1
  <2> QED BY ONLY <2>1, <1>12, PowerFacts
<1>15. IF r.tenth >= 0 THEN Nearest(10 * Abs(r.whole) + r.tenth, Power(d, at), 10 * x)
       ELSE Nearest(Abs(r.whole), Power(d, at), x)
  <2> HIDE DEF columns, auto, max
  <2>1. /\ amount[at] * Power(d, at) <= 100 * Abs(bytes)
        /\ 100 * Abs(bytes) < (amount[at] + 1) * Power(d, at)
    BY <1>9, <1>12 DEF x
  <2> DEFINE h == amount[at]
             p == Power(d, at)
  <2>2. h \in Nat /\ p \in Nat /\ r = Shown(bytes, h, at, len, suffix, fs) /\ r.ret >= 0
    BY <1>5, <1>7, <1>12, <1>14
  <2>3. h * p <= 100 * Abs(bytes) /\ 100 * Abs(bytes) < (h + 1) * p
    BY <2>1
  <2> HIDE DEF h, p
  <2>4. IF r.tenth >= 0 THEN Nearest(10 * Abs(r.whole) + r.tenth, p, 10 * Abs(bytes))
        ELSE Nearest(Abs(r.whole), p, Abs(bytes))
    <3>1. bytes \in Int /\ len \in Nat /\ suffix \in Nat /\ at \in Nat
      BY <1>1, <1>12
    <3> QED BY ONLY <2>2, <2>3, <3>1, ShownNearest
  <2> QED BY <2>4 DEF x, p
<1>16. ASSUME scale = HN_AUTOSCALE
       PROVE  /\ r.ret < len
              /\ bytes < 0 => r.whole <= (IF r.tenth >= 0 THEN -1 ELSE 0)
              /\ at > 0 => 2 * x + Power(d, at - 1) >= 2 * Power(10, columns) * Power(d, at - 1)
              /\ at = humanize_number(len, bytes, suffix, HN_GETSCALE, fs).ret
  <2>1. auto
    BY <1>16 DEF HN_AUTOSCALE, HN_GETSCALE
  <2>2. r.ret < len
    <3> DEFINE h == amount[at]
    <3>1. /\ h \in Nat /\ r = Shown(bytes, h, at, len, suffix, fs) /\ r.ret >= 0
          /\ ~TooWide(h, 100 * Power(10, columns))
      BY <1>5, <1>7, <1>11, <1>12, <2>1
    <3> HIDE DEF h
    <3>2. columns = len - BaseLen(bytes, suffix, fs) /\ columns >= 1
      BY <1>6
    <3> HIDE DEF columns
    <3> QED BY ONLY <1>1, <1>12, <3>1, <3>2, ShownFits
  <2>3. ASSUME bytes < 0 PROVE r.whole <= (IF r.tenth >= 0 THEN -1 ELSE 0)
    <3> DEFINE h == amount[at]
    <3>1. h \in Nat /\ r = Shown(bytes, h, at, len, suffix, fs) /\ r.ret >= 0
      BY <1>5, <1>7, <1>12
    <3>2. ASSUME at > 0, len >= BaseLen(bytes, suffix, fs) + 3 PROVE h >= 97
      <4> DEFINE before == amount[at - 1]
      <4>1. before \in Nat /\ h = before \div d /\ TooWide(before, 100 * Power(10, columns))
        BY <1>8, <1>11, <1>12, <2>1, <3>2
      <4>2. columns \in Nat /\ columns >= 3
        <5>1. BaseLen(bytes, suffix, fs) \in Int
          BY <1>1 DEF BaseLen
        <5> QED BY <1>1, <3>2, <5>1
      <4> HIDE DEF before, h, columns
      <4> QED BY <1>1, <4>1, <4>2, LeavesTenth
    <3> HIDE DEF h
    <3>3. bytes \in Int /\ len \in Nat /\ suffix \in Nat /\ at \in Nat
      BY <1>1, <1>12
    <3> QED BY ONLY <2>3, <3>1, <3>2, <3>3, ShownSigned
  <2>4. ASSUME at > 0 PROVE 2 * x + Power(d, at - 1) >= 2 * Power(10, columns) * Power(d, at - 1)
    <3> DEFINE j == at - 1
               p == Power(d, j)
               c == Power(10, columns)
    <3>1. j \in 0..maxscale /\ j \in 0..(at - 1) /\ j \in Nat
      BY <1>12, <2>4
    <3>2. p \in Nat /\ c \in Nat
      <4>1. d \in Nat
        BY <1>1
      <4>2. p \in Nat
        BY ONLY <4>1, <3>1, PowerFacts
      <4> QED BY <1>10, <4>2
    <3>3. amount[j] \in Nat /\ amount[j] >= 100 * c - 50
      BY <1>8, <1>11, <2>1, <3>1 DEF TooWide
    <3>4. amount[j] * p <= 100 * x
      BY <1>9, <3>1
    <3> HIDE DEF j, p, c
    <3>5. (100 * c) * p <= (amount[j] + 50) * p
      <4>1. 100 * c \in Nat /\ amount[j] + 50 \in Nat /\ 100 * c <= amount[j] + 50
        BY <3>2, <3>3
      <4> QED BY <3>2, <4>1, ProductMonotone
    <3>6. /\ (100 * c) * p = 50 * (2 * c * p) /\ (amount[j] + 50) * p = amount[j] * p + 50 * p
          /\ 2 * c * p \in Nat /\ amount[j] * p \in Nat
      BY <3>2, <3>3, SMT
    <3>7. 2 * x + p >= 2 * c * p
      BY <1>1, <3>2, <3>4, <3>5, <3>6
    <3> QED BY <3>7 DEF j, p, c
  <2>5. at = humanize_number(len, bytes, suffix, HN_GETSCALE, fs).ret
    <3>1. at = Fitting(amount, max)
      BY <2>1 DEF at
    <3>2. HN_GETSCALE >= HN_GETSCALE /\ ~(columns < 1)
      BY <1>1, <1>6 DEF HN_GETSCALE
    <3>3. humanize_number(len, bytes, suffix, HN_GETSCALE, fs) = [ret |-> Fitting(amount, max)]
      BY <3>2, Zenon DEF humanize_number, amount, x, d
    <3> QED BY <3>1, <3>3
  <2> QED BY <2>2, <2>3, <2>4, <2>5
<1> QED BY <1>13, <1>15, <1>16

(* For any amounts, lengths, flags, bounds and sizes of types: what strtoi *)
(* and strtou return is in range and is the number that was read, and what *)
(* humanize_number writes is nearest to the amount and fits; and arrays    *)
(* have room.                                                              *)
THEOREM NumbersCorrect == NumberSpec => []NumbersRight
<1> DEFINE Inv == ArrayInv /\ StrtoRight /\ HumanizeRight
<1>1. NumberInit => Inv
  <2> SUFFICES ASSUME NumberInit PROVE Inv
    OBVIOUS
  <2>1. ArrayInv
    BY InitArray DEF NumberInit
  <2>2. call.fn = "none"
    BY DEF NumberInit, NoCall
  <2> QED BY <2>1, <2>2 DEF StrtoRight, HumanizeRight
<1>2. Inv /\ [NumberNext]_numberVars => Inv'
  <2> SUFFICES ASSUME Inv, [NumberNext]_numberVars PROVE Inv'
    OBVIOUS
  <2>1. ASSUME ArrayNext, UNCHANGED call PROVE Inv'
    <3>1. ArrayInv'
      BY <2>1, StepArray
    <3> QED BY <2>1, <3>1 DEF StrtoRight, HumanizeRight
  <2>2. ASSUME UNCHANGED arrayVars, NEW input \in Texts, NEW b \in Bounds, Strto(input, b[1], b[2]) PROVE Inv'
    <3>1. ArrayInv'
      BY <2>2, StepArray
    <3>2. call'.fn \in {"strtoi", "strtou"}
      BY <2>2 DEF Strto
    <3> QED BY <2>2, <3>1, <3>2, StrtoStep DEF HumanizeRight
  <2>3. ASSUME UNCHANGED arrayVars, NEW len \in HnLengths, NEW bytes \in Amounts, NEW suffix \in SuffixLens,
               NEW scale \in Scales, NEW fs \in HnFlags, Humanize(len, bytes, suffix, scale, fs)
        PROVE  Inv'
    <3>1. ArrayInv'
      BY <2>3, StepArray
    <3>2. call'.fn = "humanize"
      BY <2>3 DEF Humanize
    <3> QED BY <2>3, <3>1, <3>2, HumanizeStep DEF StrtoRight
  <2>4. CASE UNCHANGED numberVars
    <3>1. ArrayInv'
      BY <2>4, StepArray DEF numberVars
    <3> QED BY <2>4, <3>1 DEF numberVars, StrtoRight, HumanizeRight
  <2> QED BY <2>1, <2>2, <2>3, <2>4 DEF NumberNext
<1>3. Inv => NumbersRight
  BY DEF NumbersRight, ArrayInv
<1> QED BY <1>1, <1>2, <1>3, PTL DEF NumberSpec

-----------------------------------------------------------------------------
(* vis and unvis.                                                          *)

(* The bits of a byte.                                                     *)
LEMMA OrHigh == \A x \in 0..127 : Or(128, x) = 128 + x
BY SMTT(30) DEF Or, Bit

LEMMA OrNothing == \A x \in 0..127 : Or(0, x) = x
BY SMTT(30) DEF Or, Bit

LEMMA OrNibbles == \A x, y \in 0..15 : Or(x, (y * 16) % 256) = 16 * y + x
BY SMTT(30) DEF Or, Bit

Octets == 0..255

(* Nothing is pushed back while s is read, and with its last byte the      *)
(* decoder says c.                                                         *)
Reads(d, s, c, f) ==
  \E ds : /\ ds[1] = d
          /\ \A i \in 1..Len(s) - 1 : unvis(ds[i], s[i], f) = <<ds[i + 1], "NOCHAR">>
          /\ unvis(ds[Len(s)], s[Len(s)], f) = Valid(c)

LEMMA ReadsOne ==
  ASSUME NEW d, NEW x, NEW c, NEW f, unvis(d, x, f) = Valid(c)
  PROVE  Reads(d, <<x>>, c, f)
<1> DEFINE ds == <<d>>
<1>1. Len(<<x>>) = 1 /\ <<x>>[1] = x /\ ds[1] = d
  OBVIOUS
<1> HIDE DEF ds
<1> QED BY <1>1 DEF Reads

LEMMA ReadsMore ==
  ASSUME NEW d, NEW d2, NEW x, NEW s \in Seq(Octets), NEW c, NEW f, s # <<>>, unvis(d, x, f) = <<d2, "NOCHAR">>,
         Reads(d2, s, c, f)
  PROVE  Reads(d, <<x>> \o s, c, f)
<1>1. PICK ds : /\ ds[1] = d2
                /\ \A i \in 1..Len(s) - 1 : unvis(ds[i], s[i], f) = <<ds[i + 1], "NOCHAR">>
                /\ unvis(ds[Len(s)], s[Len(s)], f) = Valid(c)
  BY DEF Reads
<1> DEFINE t == <<x>> \o s
           n == Len(s)
           es == [i \in 1..n + 1 |-> IF i = 1 THEN d ELSE ds[i - 1]]
<1>2. n \in Nat /\ n # 0 /\ Len(t) = n + 1 /\ t[1] = x /\ \A i \in 2..n + 1 : t[i] = s[i - 1]
  OBVIOUS
<1>3. es[1] = d /\ \A i \in 2..n + 1 : es[i] = ds[i - 1]
  BY <1>2
<1> HIDE DEF t, n, es
<1>4. \A i \in 1..n : unvis(es[i], t[i], f) = <<es[i + 1], "NOCHAR">>
  <2> TAKE i \in 1..n
  <2>1. CASE i = 1
    <3>1. es[2] = d2
      BY <1>1, <1>2, <1>3
    <3> QED BY <1>2, <1>3, <2>1, <3>1
  <2>2. CASE i # 1
    <3> DEFINE j == i - 1
    <3>1. j \in 1..n - 1 /\ i = j + 1 /\ i \in 2..n + 1 /\ i + 1 \in 2..n + 1 /\ i + 1 - 1 = i
      BY <1>2, <2>2
    <3> HIDE DEF j
    <3>2. es[i] = ds[j] /\ t[i] = s[j] /\ es[i + 1] = ds[i]
      BY <1>2, <1>3, <3>1 DEF j
    <3>3. unvis(ds[j], s[j], f) = <<ds[j + 1], "NOCHAR">>
      BY <1>1, <3>1 DEF n
    <3> QED BY <3>1, <3>2, <3>3
  <2> QED BY <2>1, <2>2
<1>5. unvis(es[n + 1], t[n + 1], f) = Valid(c)
  <2>1. n + 1 \in 2..n + 1 /\ n + 1 - 1 = n
    BY <1>2
  <2> QED BY <1>1, <1>2, <1>3, <2>1 DEF n
<1>6. Len(t) - 1 = n
  BY <1>2
<1> QED BY <1>2, <1>3, <1>4, <1>5, <1>6 DEF Reads, t

LEMMA ReadsStep ==
  ASSUME NEW d, NEW s \in Seq(Octets), s # <<>>, NEW c, NEW f, Reads(d, s, c, f)
  PROVE  \/ Tail(s) = <<>> /\ unvis(d, Head(s), f) = Valid(c)
         \/ Tail(s) # <<>> /\ \E d2 : unvis(d, Head(s), f) = <<d2, "NOCHAR">> /\ Reads(d2, Tail(s), c, f)
<1>1. PICK ds : /\ ds[1] = d
                /\ \A i \in 1..Len(s) - 1 : unvis(ds[i], s[i], f) = <<ds[i + 1], "NOCHAR">>
                /\ unvis(ds[Len(s)], s[Len(s)], f) = Valid(c)
  BY DEF Reads
<1> DEFINE n == Len(s)
           t == Tail(s)
<1>2. n \in Nat /\ n # 0 /\ Head(s) = s[1] /\ Len(t) = n - 1 /\ \A i \in 1..n - 1 : t[i] = s[i + 1]
  OBVIOUS
<1>3. CASE n = 1
  <2>1. t = <<>>
    <3>1. t \in Seq(Octets) /\ Len(t) = 0
      BY <1>2, <1>3
    <3> QED BY <3>1, EmptySeq
  <2> QED BY <1>1, <1>2, <1>3, <2>1
<1>4. CASE n # 1
  <2> DEFINE es == [i \in 1..n - 1 |-> ds[i + 1]]
             d2 == ds[2]
  <2>1. /\ 1 \in 1..n - 1 /\ n - 1 \in 1..n - 1 /\ n - 1 + 1 = n /\ 1 + 1 = 2
        /\ \A i \in 1..n - 1 : es[i] = ds[i + 1]
    BY <1>2, <1>4
  <2>2. unvis(d, s[1], f) = <<d2, "NOCHAR">>
    BY <1>1, <2>1
  <2>3. t # <<>>
    <3>1. Len(t) # 0
      BY <1>2, <1>4
    <3> QED BY <3>1, EmptySeq
  <2> HIDE DEF n, t, es
  <2>4. es[1] = d2 /\ unvis(es[Len(t)], t[Len(t)], f) = Valid(c)
    BY <1>1, <1>2, <2>1 DEF n
  <2>5. \A i \in 1..Len(t) - 1 : unvis(es[i], t[i], f) = <<es[i + 1], "NOCHAR">>
    <3> TAKE i \in 1..Len(t) - 1
    <3> DEFINE j == i + 1
    <3>1. j \in 1..n - 1 /\ i \in 1..n - 1
      BY <1>2, <1>4
    <3> HIDE DEF j
    <3>2. es[i] = ds[j] /\ t[i] = s[j] /\ es[j] = ds[j + 1]
      BY <1>2, <2>1, <3>1 DEF j
    <3> QED BY <1>1, <3>1, <3>2 DEF n, j
  <2>6. Reads(d2, t, c, f)
    BY <2>4, <2>5 DEF Reads
  <2> QED BY <1>2, <2>2, <2>3, <2>6 DEF t
<1> QED BY <1>3, <1>4

LEMMA ReadsTwo ==
  ASSUME NEW d, NEW d2, NEW x1, NEW x2, NEW c, NEW f,
         unvis(d, x1, f) = <<d2, "NOCHAR">>, unvis(d2, x2, f) = Valid(c)
  PROVE  Reads(d, <<x1, x2>>, c, f)
<1> DEFINE s == <<x1, x2>>
           ds == <<d, d2>>
<1>1. /\ Len(s) = 2 /\ 1..Len(s) - 1 = {1} /\ s[1] = x1 /\ s[2] = x2
      /\ ds[1] = d /\ ds[2] = d2 /\ ds[1 + 1] = d2
  OBVIOUS
<1> HIDE DEF s, ds
<1>2. \A i \in 1..Len(s) - 1 : unvis(ds[i], s[i], f) = <<ds[i + 1], "NOCHAR">>
  BY <1>1
<1> QED BY <1>1, <1>2 DEF Reads, s

LEMMA ReadsFour ==
  ASSUME NEW d, NEW d2, NEW d3, NEW d4, NEW x1, NEW x2, NEW x3, NEW x4, NEW c, NEW f,
         unvis(d, x1, f) = <<d2, "NOCHAR">>, unvis(d2, x2, f) = <<d3, "NOCHAR">>,
         unvis(d3, x3, f) = <<d4, "NOCHAR">>, unvis(d4, x4, f) = Valid(c)
  PROVE  Reads(d, <<x1, x2, x3, x4>>, c, f)
<1> DEFINE s == <<x1, x2, x3, x4>>
           ds == <<d, d2, d3, d4>>
<1>1. /\ Len(s) = 4 /\ 1..Len(s) - 1 = {1, 2, 3} /\ s[1] = x1 /\ s[2] = x2 /\ s[3] = x3 /\ s[4] = x4
      /\ ds[1] = d /\ ds[2] = d2 /\ ds[3] = d3 /\ ds[4] = d4
      /\ ds[1 + 1] = d2 /\ ds[2 + 1] = d3 /\ ds[3 + 1] = d4
  OBVIOUS
<1> HIDE DEF s, ds
<1>2. \A i \in 1..Len(s) - 1 : unvis(ds[i], s[i], f) = <<ds[i + 1], "NOCHAR">>
  BY <1>1
<1> QED BY <1>1, <1>2 DEF Reads, s

LEMMA ReadsThree ==
  ASSUME NEW d, NEW d2, NEW d3, NEW x1, NEW x2, NEW x3, NEW c, NEW f,
         unvis(d, x1, f) = <<d2, "NOCHAR">>, unvis(d2, x2, f) = <<d3, "NOCHAR">>,
         unvis(d3, x3, f) = Valid(c)
  PROVE  Reads(d, <<x1, x2, x3>>, c, f)
<1> DEFINE s == <<x1, x2, x3>>
           ds == <<d, d2, d3>>
<1>1. /\ Len(s) = 3 /\ 1..Len(s) - 1 = {1, 2} /\ s[1] = x1 /\ s[2] = x2 /\ s[3] = x3
      /\ ds[1] = d /\ ds[2] = d2 /\ ds[3] = d3
      /\ ds[1 + 1] = d2 /\ ds[2 + 1] = d3
  OBVIOUS
<1> HIDE DEF s, ds
<1>2. \A i \in 1..Len(s) - 1 : unvis(ds[i], s[i], f) = <<ds[i + 1], "NOCHAR">>
  BY <1>1
<1> QED BY <1>1, <1>2 DEF Reads, s

(* Where a state is the ground state, what cp holds does not matter.       *)
LEMMA GroundAlone ==
  ASSUME NEW d, d.st = "GROUND", NEW x, NEW f
  PROVE  unvis(d, x, f) = InGround(x, f) /\ unvis(Ground, x, f) = InGround(x, f)
BY SMT DEF unvis, Ground, Decoder

LEMMA GroundReads ==
  ASSUME NEW d, d.st = "GROUND", NEW s, NEW c, NEW f, Reads(Ground, s, c, f)
  PROVE  Reads(d, s, c, f)
<1>1. PICK ds : /\ ds[1] = Ground
                /\ \A i \in 1..Len(s) - 1 : unvis(ds[i], s[i], f) = <<ds[i + 1], "NOCHAR">>
                /\ unvis(ds[Len(s)], s[Len(s)], f) = Valid(c)
  BY DEF Reads
<1> DEFINE I == 1..Len(s) - 1
           es == [i \in I \cup {Len(s)} \cup {j + 1 : j \in I} \cup {1} |-> IF i = 1 THEN d ELSE ds[i]]
<1>2. es[1] = d /\ (\A i \in I : es[i] = IF i = 1 THEN d ELSE ds[i])
      /\ es[Len(s)] = IF Len(s) = 1 THEN d ELSE ds[Len(s)]
  OBVIOUS
<1>3. \A i \in I : es[i + 1] = ds[i + 1]
  <2> TAKE i \in I
  <2>1. i + 1 \in DOMAIN es /\ i + 1 # 1
    OBVIOUS
  <2> QED BY <2>1
<1>4. \A x : unvis(d, x, f) = unvis(ds[1], x, f)
  BY <1>1, GroundAlone
<1> HIDE DEF es
<1>5. \A i \in I : unvis(es[i], s[i], f) = <<es[i + 1], "NOCHAR">>
  <2> TAKE i \in I
  <2>1. CASE i = 1
    BY <1>1, <1>2, <1>3, <1>4, <2>1
  <2>2. CASE i # 1
    BY <1>1, <1>2, <1>3, <2>2
  <2> QED BY <2>1, <2>2
<1>6. unvis(es[Len(s)], s[Len(s)], f) = Valid(c)
  BY <1>1, <1>2, <1>4
<1> QED BY <1>2, <1>5, <1>6 DEF Reads

(* Short sequences put together.                                           *)
LEMMA OneOne ==
  ASSUME NEW a, NEW b
  PROVE  <<a>> \o <<b>> = <<a, b>>
<1> DEFINE s == <<a>>
           t == <<b>>
           u == <<a, b>>
           S == {a, b}
<1>1. /\ s \in Seq(S) /\ Len(s) = 1 /\ s[1] = a
      /\ t \in Seq(S) /\ Len(t) = 1 /\ t[1] = b
      /\ u \in Seq(S) /\ Len(u) = 2 /\ u[1] = a /\ u[2] = b
  OBVIOUS
<1> HIDE DEF s, t, u, S
<1>2. s \o t \in Seq(S) /\ Len(s \o t) = Len(u) /\ \A i \in 1..Len(u) : (s \o t)[i] = u[i]
  <2> DEFINE v == s \o t
  <2>0. /\ v \in Seq(S) /\ Len(v) = Len(s) + Len(t)
        /\ \A i \in 1..Len(s) + Len(t) : v[i] = IF i <= Len(s) THEN s[i] ELSE t[i - Len(s)]
    BY <1>1, ConcatProperties
  <2> HIDE DEF v
  <2>1. v \in Seq(S) /\ Len(v) = 2 /\ v[1] = s[1] /\ v[2] = t[1]
    BY <1>1, <2>0
  <2>2. 1..Len(u) = {1, 2}
    BY <1>1
  <2>3. v \in Seq(S) /\ Len(v) = Len(u) /\ \A i \in 1..Len(u) : v[i] = u[i]
    BY <1>1, <2>1, <2>2
  <2> QED BY <2>3 DEF v
<1>3. s \o t = u
  BY <1>1, <1>2, SeqEqual
<1> QED BY <1>3 DEF s, t, u

LEMMA OneTwo ==
  ASSUME NEW a, NEW b, NEW c
  PROVE  <<a>> \o <<b, c>> = <<a, b, c>>
<1> DEFINE s == <<a>>
           t == <<b, c>>
           u == <<a, b, c>>
           S == {a, b, c}
<1>1. /\ s \in Seq(S) /\ Len(s) = 1 /\ s[1] = a
      /\ t \in Seq(S) /\ Len(t) = 2 /\ t[1] = b /\ t[2] = c
      /\ u \in Seq(S) /\ Len(u) = 3 /\ u[1] = a /\ u[2] = b /\ u[3] = c
  OBVIOUS
<1> HIDE DEF s, t, u, S
<1>2. s \o t \in Seq(S) /\ Len(s \o t) = Len(u) /\ \A i \in 1..Len(u) : (s \o t)[i] = u[i]
  <2> DEFINE v == s \o t
  <2>0. /\ v \in Seq(S) /\ Len(v) = Len(s) + Len(t)
        /\ \A i \in 1..Len(s) + Len(t) : v[i] = IF i <= Len(s) THEN s[i] ELSE t[i - Len(s)]
    BY <1>1, ConcatProperties
  <2> HIDE DEF v
  <2>1. v \in Seq(S) /\ Len(v) = 3 /\ v[1] = s[1] /\ v[2] = t[1] /\ v[3] = t[2]
    BY <1>1, <2>0
  <2>2. 1..Len(u) = {1, 2, 3}
    BY <1>1
  <2>3. v \in Seq(S) /\ Len(v) = Len(u) /\ \A i \in 1..Len(u) : v[i] = u[i]
    BY <1>1, <2>1, <2>2
  <2> QED BY <2>3 DEF v
<1>3. s \o t = u
  BY <1>1, <1>2, SeqEqual
<1> QED BY <1>3 DEF s, t, u

LEMMA TwoTwo ==
  ASSUME NEW a, NEW b, NEW c, NEW d
  PROVE  <<a, b>> \o <<c, d>> = <<a, b, c, d>>
<1> DEFINE s == <<a, b>>
           t == <<c, d>>
           u == <<a, b, c, d>>
           S == {a, b, c, d}
<1>1. /\ s \in Seq(S) /\ Len(s) = 2 /\ s[1] = a /\ s[2] = b
      /\ t \in Seq(S) /\ Len(t) = 2 /\ t[1] = c /\ t[2] = d
      /\ u \in Seq(S) /\ Len(u) = 4 /\ u[1] = a /\ u[2] = b /\ u[3] = c /\ u[4] = d
  OBVIOUS
<1> HIDE DEF s, t, u, S
<1>2. s \o t \in Seq(S) /\ Len(s \o t) = Len(u) /\ \A i \in 1..Len(u) : (s \o t)[i] = u[i]
  <2> DEFINE v == s \o t
  <2>0. /\ v \in Seq(S) /\ Len(v) = Len(s) + Len(t)
        /\ \A i \in 1..Len(s) + Len(t) : v[i] = IF i <= Len(s) THEN s[i] ELSE t[i - Len(s)]
    BY <1>1, ConcatProperties
  <2> HIDE DEF v
  <2>1. v \in Seq(S) /\ Len(v) = 4 /\ v[1] = s[1] /\ v[2] = s[2] /\ v[3] = t[1] /\ v[4] = t[2]
    BY <1>1, <2>0
  <2>2. 1..Len(u) = {1, 2, 3, 4}
    BY <1>1
  <2>3. v \in Seq(S) /\ Len(v) = Len(u) /\ \A i \in 1..Len(u) : v[i] = u[i]
    BY <1>1, <2>1, <2>2
  <2> QED BY <2>3 DEF v
<1>3. s \o t = u
  BY <1>1, <1>2, SeqEqual
<1> QED BY <1>3 DEF s, t, u

LEMMA WithNothing ==
  ASSUME NEW a, NEW b
  PROVE  <<a>> \o <<>> = <<a>> /\ <<a, b>> \o <<>> = <<a, b>>
<1>1. <<a>> \in Seq({a, b}) /\ <<a, b>> \in Seq({a, b})
  OBVIOUS
<1> QED BY <1>1, ConcatEmptySeq

(* The steps of the decoder that encodings are read with.                  *)
LEMMA Letters ==
  /\ DOMAIN Letter = {7, 8, 9, 10, 11, 12, 13, 32}
  /\ Letter[7] = 97 /\ Letter[8] = 98 /\ Letter[9] = 116 /\ Letter[10] = 110 /\ Letter[11] = 118
  /\ Letter[12] = 102 /\ Letter[13] = 114 /\ Letter[32] = 115
BY DEF Letter, ch

LEMMA NamedLetters ==
  /\ DOMAIN Named = {97, 98, 116, 110, 118, 102, 114, 115, 92, 69}
  /\ Named[92] = 92
  /\ \A b \in DOMAIN Letter : Named[Letter[b]] = b
<1> DEFINE D == {7, 8, 9, 10, 11, 12, 13, 32}
<1>1. {Letter[b] : b \in D} = {97, 98, 116, 110, 118, 102, 114, 115}
  <2>1. \A b \in D : Letter[b] \in {97, 98, 116, 110, 118, 102, 114, 115}
    BY Letters
  <2>2. /\ Letter[7] \in {Letter[b] : b \in D} /\ Letter[8] \in {Letter[b] : b \in D}
        /\ Letter[9] \in {Letter[b] : b \in D} /\ Letter[10] \in {Letter[b] : b \in D}
        /\ Letter[11] \in {Letter[b] : b \in D} /\ Letter[12] \in {Letter[b] : b \in D}
        /\ Letter[13] \in {Letter[b] : b \in D} /\ Letter[32] \in {Letter[b] : b \in D}
    OBVIOUS
  <2> QED BY <2>1, <2>2, Letters
<1> DEFINE L == {Letter[b] : b \in DOMAIN Letter} \cup {ch.bslash, 69}
<1>2. L = {97, 98, 116, 110, 118, 102, 114, 115, 92, 69}
  <2>1. ch.bslash = 92
    BY DEF ch
  <2> QED BY <1>1, <2>1, Letters
<1>3. DOMAIN Named = L
  BY DEF Named
<1>4. Named[92] = 92
  BY <1>2 DEF Named, ch
<1>5. \A b \in D : Named[Letter[b]] = b
  <2> TAKE b \in D
  <2>1. Letter[b] \in L /\ Letter[b] # 92 /\ Letter[b] # 69
    BY <1>2, Letters
  <2>2. Named[Letter[b]] = CHOOSE e \in DOMAIN Letter : Letter[e] = Letter[b]
    BY <2>1 DEF Named, ch
  <2>3. (CHOOSE e \in DOMAIN Letter : Letter[e] = Letter[b]) = b
    <3> DEFINE p == CHOOSE e \in DOMAIN Letter : Letter[e] = Letter[b]
    <3>1. p \in DOMAIN Letter /\ Letter[p] = Letter[b]
      BY Letters
    <3> HIDE DEF p
    <3>2. p = b
      BY <3>1, Letters
    <3> QED BY <3>2 DEF p
  <2> QED BY <2>2, <2>3
<1> QED BY <1>2, <1>3, <1>4, <1>5, Letters

LEMMA SlashRead ==
  ASSUME NEW f, "noescape" \notin f
  PROVE  unvis(Ground, ch.bslash, f) = More("START", 0)
BY DEF unvis, Ground, Decoder, InGround

LEMMA LiteralRead ==
  ASSUME NEW c \in Octets, NEW f, c # ch.bslash, "httpstyle" \in f => c # ch.percent,
         "http1866" \in f => c # ch.amp, "mimestyle" \in f => c # ch.equal
  PROVE  Reads(Ground, <<c>>, c, f)
<1>1. unvis(Ground, c, f) = Valid(c)
  BY DEF unvis, Ground, Decoder, InGround
<1> QED BY <1>1, ReadsOne

LEMMA AfterSlash ==
  ASSUME NEW f
  PROVE  LET d == Decoder("START", 0) IN
         /\ \A b \in DOMAIN Letter : unvis(d, Letter[b], f) = Valid(b)
         /\ unvis(d, ch.bslash, f) = Valid(ch.bslash)
         /\ \A x \in 48..55 : unvis(d, x, f) = More("OCTAL2", x - 48)
         /\ unvis(d, ch.M, f) = More("META", 128)
         /\ unvis(d, ch.caret, f) = More("CTRL", 0)
<1> DEFINE d == Decoder("START", 0)
<1>1. \A x : unvis(d, x, f) = InStart(x, 0)
  BY DEF unvis, Decoder
<1> HIDE DEF d
<1>2. \A b \in DOMAIN Letter : InStart(Letter[b], 0) = Valid(b)
  <2> TAKE b \in DOMAIN Letter
  <2>1. Letter[b] \in DOMAIN Named
    BY Letters, NamedLetters
  <2>2. InStart(Letter[b], 0) = Valid(Named[Letter[b]])
    BY <2>1, NamedLetters DEF InStart, IsOctal, ch
  <2> QED BY <2>2, NamedLetters
<1>3. InStart(ch.bslash, 0) = Valid(ch.bslash)
  <2>1. ch.bslash = 92 /\ 92 \in DOMAIN Named
    BY NamedLetters DEF ch
  <2>2. InStart(92, 0) = Valid(Named[92])
    BY <2>1 DEF InStart, IsOctal, ch
  <2> QED BY <2>1, <2>2, NamedLetters
<1>4. \A x \in 48..55 : InStart(x, 0) = More("OCTAL2", x - 48)
  <2> TAKE x \in 48..55
  <2>1. x \notin DOMAIN Named /\ IsOctal(x)
    BY NamedLetters DEF IsOctal
  <2> QED BY <2>1 DEF InStart, IsOctal, ch
<1>5. InStart(ch.M, 0) = More("META", 128) /\ InStart(ch.caret, 0) = More("CTRL", 0)
  <2>1. /\ ch.M = 77 /\ ch.caret = 94
        /\ 77 \notin DOMAIN Named /\ ~IsOctal(77) /\ 94 \notin DOMAIN Named /\ ~IsOctal(94)
    BY NamedLetters DEF IsOctal, ch
  <2> QED BY <2>1, NamedLetters DEF InStart, IsOctal, ch
<1> QED BY <1>1, <1>2, <1>3, <1>4, <1>5 DEF d

LEMMA LetterReads ==
  ASSUME NEW c \in DOMAIN Letter, NEW f, "noescape" \notin f
  PROVE  Reads(Ground, <<ch.bslash, Letter[c]>>, c, f)
<1>1. unvis(Ground, ch.bslash, f) = <<Decoder("START", 0), "NOCHAR">>
  BY SlashRead DEF More
<1>2. unvis(Decoder("START", 0), Letter[c], f) = Valid(c)
  BY AfterSlash
<1> QED BY <1>1, <1>2, ReadsTwo

LEMMA SlashReads ==
  ASSUME NEW f, "noescape" \notin f
  PROVE  Reads(Ground, <<ch.bslash, ch.bslash>>, ch.bslash, f)
<1>1. unvis(Ground, ch.bslash, f) = <<Decoder("START", 0), "NOCHAR">>
  BY SlashRead DEF More
<1>2. unvis(Decoder("START", 0), ch.bslash, f) = Valid(ch.bslash)
  BY AfterSlash
<1> QED BY <1>1, <1>2, ReadsTwo

LEMMA OctalReads ==
  ASSUME NEW c \in Octets, NEW f, "noescape" \notin f
  PROVE  Reads(Ground, Octal(c), c, f)
<1> DEFINE a == c \div 64
           b == (c \div 8) % 8
           e == c % 8
<1>1. a \in 0..3 /\ b \in 0..7 /\ e \in 0..7 /\ c = 64 * a + 8 * b + e
  BY DEF Octets
<1>2. Octal(c) = <<ch.bslash, 48 + a, 48 + b, 48 + e>>
  BY DEF Octal, ch
<1> HIDE DEF a, b, e
<1>3. unvis(Ground, ch.bslash, f) = <<Decoder("START", 0), "NOCHAR">>
  BY SlashRead DEF More
<1>4. unvis(Decoder("START", 0), 48 + a, f) = <<Decoder("OCTAL2", a), "NOCHAR">>
  <2>1. 48 + a \in 48..55 /\ (48 + a) - 48 = a
    BY <1>1
  <2> QED BY <2>1, AfterSlash DEF More
<1>5. unvis(Decoder("OCTAL2", a), 48 + b, f) = <<Decoder("OCTAL3", 8 * a + b), "NOCHAR">>
  <2>1. IsOctal(48 + b) /\ (a * 8 + (48 + b) - 48) % 256 = 8 * a + b
    BY <1>1 DEF IsOctal
  <2> QED BY <2>1 DEF unvis, Decoder, More
<1>6. unvis(Decoder("OCTAL3", 8 * a + b), 48 + e, f) = Valid(c)
  <2>1. IsOctal(48 + e) /\ ((8 * a + b) * 8 + (48 + e) - 48) % 256 = c
    BY <1>1 DEF IsOctal, Octets
  <2> QED BY <2>1 DEF unvis, Decoder
<1> QED BY <1>2, <1>3, <1>4, <1>5, <1>6, ReadsFour

(* \^x, \M^x, \M-x                                                         *)
LEMMA MetaCntrlReads ==
  ASSUME NEW c \in Octets, NEW f, f \cap {"noslash", "noescape"} = {}, c >= 128 \/ IsCntrl(c)
  PROVE  Reads(Ground, MetaCntrl(c, f), c, f)
<1>0. "noescape" \notin f /\ "noslash" \notin f
  OBVIOUS
<1>1. unvis(Ground, ch.bslash, f) = <<Decoder("START", 0), "NOCHAR">>
  BY <1>0, SlashRead DEF More
<1> DEFINE m == c % 128
           x == IF m = 127 THEN ch.quest ELSE m + ch.at
<1>2. m \in 0..127 /\ (c < 128 => m = c) /\ (c >= 128 => c = 128 + m)
  BY DEF Octets
<1>3. ASSUME IsCntrl(m), NEW cp \in {0, 128}
      PROVE  unvis(Decoder("CTRL", cp), x, f) = Valid(cp + m)
  <2>1. (IF x = ch.quest THEN 127 ELSE x % 32) = m
    BY <1>2, <1>3 DEF IsCntrl, ch
  <2>2. unvis(Decoder("CTRL", cp), x, f) = Valid(Or(cp, IF x = ch.quest THEN 127 ELSE x % 32))
    BY DEF unvis, Decoder
  <2> HIDE DEF m, x
  <2>3. Or(cp, m) = cp + m
    BY <1>2, <1>3, OrHigh, OrNothing
  <2> QED BY <2>1, <2>2, <2>3
<1>4. MetaCntrl(c, f) = (<<ch.bslash>> \o (IF c >= 128 THEN <<ch.M>> ELSE <<>>))
                        \o (IF IsCntrl(m) THEN <<ch.caret, x>> ELSE <<ch.minus, m>>)
  BY <1>0 DEF MetaCntrl
<1> HIDE DEF m, x
<1>5. CASE c < 128
  <2>1. IsCntrl(m) /\ m = c /\ 0 + m = c
    BY <1>2, <1>5 DEF IsCntrl
  <2>2. MetaCntrl(c, f) = <<ch.bslash, ch.caret, x>>
    <3>1. ~(c >= 128)
      BY <1>5 DEF Octets
    <3>2. MetaCntrl(c, f) = (<<ch.bslash>> \o <<>>) \o <<ch.caret, x>>
      BY <1>4, <2>1, <3>1
    <3> QED BY <3>2, OneTwo, WithNothing
  <2>3. unvis(Decoder("START", 0), ch.caret, f) = <<Decoder("CTRL", 0), "NOCHAR">>
    BY AfterSlash DEF More
  <2>4. unvis(Decoder("CTRL", 0), x, f) = Valid(c)
    BY <1>3, <2>1
  <2> QED BY <1>1, <2>2, <2>3, <2>4, ReadsThree
<1>6. CASE c >= 128
  <2>1. unvis(Decoder("START", 0), ch.M, f) = <<Decoder("META", 128), "NOCHAR">>
    BY AfterSlash DEF More
  <2>2. CASE IsCntrl(m)
    <3>1. MetaCntrl(c, f) = <<ch.bslash, ch.M, ch.caret, x>>
      <4>1. MetaCntrl(c, f) = (<<ch.bslash>> \o <<ch.M>>) \o <<ch.caret, x>>
        BY <1>4, <1>6, <2>2
      <4>2. <<ch.bslash>> \o <<ch.M>> = <<ch.bslash, ch.M>>
        BY OneOne
      <4> QED BY <4>1, <4>2, TwoTwo
    <3>2. unvis(Decoder("META", 128), ch.caret, f) = <<Decoder("CTRL", 128), "NOCHAR">>
      BY DEF unvis, Decoder, More, ch
    <3>3. unvis(Decoder("CTRL", 128), x, f) = Valid(c)
      BY <1>2, <1>3, <1>6, <2>2
    <3> QED BY <1>1, <2>1, <3>1, <3>2, <3>3, ReadsFour
  <2>3. CASE ~IsCntrl(m)
    <3>1. MetaCntrl(c, f) = <<ch.bslash, ch.M, ch.minus, m>>
      <4>1. MetaCntrl(c, f) = (<<ch.bslash>> \o <<ch.M>>) \o <<ch.minus, m>>
        BY <1>4, <1>6, <2>3
      <4>2. <<ch.bslash>> \o <<ch.M>> = <<ch.bslash, ch.M>>
        BY OneOne
      <4> QED BY <4>1, <4>2, TwoTwo
    <3>2. unvis(Decoder("META", 128), ch.minus, f) = <<Decoder("META1", 128), "NOCHAR">>
      BY DEF unvis, Decoder, More, ch
    <3>3. unvis(Decoder("META1", 128), m, f) = Valid(c)
      <4>1. unvis(Decoder("META1", 128), m, f) = Valid(Or(128, m))
        BY DEF unvis, Decoder
      <4> QED BY <1>2, <1>6, <4>1, OrHigh
    <3> QED BY <1>1, <2>1, <3>1, <3>2, <3>3, ReadsFour
  <2> QED BY <2>2, <2>3
<1> QED BY <1>5, <1>6 DEF Octets

(* %hh and =HH                                                             *)
LEMMA HexDigits ==
  ASSUME NEW i \in 0..15
  PROVE  /\ HexDigit(i, 97) \in Octets /\ IsHex(HexDigit(i, 97)) /\ HexValue(HexDigit(i, 97)) = i
         /\ HexDigit(i, 65) \in Octets /\ IsUpperHex(HexDigit(i, 65)) /\ HexValue(HexDigit(i, 65)) = i
         /\ HexDigit(i, 65) \notin {ch.nl, ch.cr}
BY DEF HexDigit, IsHex, IsUpperHex, HexValue, IsDigit, Octets, ch

LEMMA PercentReads ==
  ASSUME NEW c \in Octets, NEW f, "httpstyle" \in f
  PROVE  Reads(Ground, <<ch.percent>> \o Hex(c, 97), c, f)
<1> DEFINE a == c \div 16
           b == c % 16
<1>1. a \in 0..15 /\ b \in 0..15 /\ c = 16 * a + b
  BY DEF Octets
<1>2. <<ch.percent>> \o Hex(c, 97) = <<ch.percent, HexDigit(a, 97), HexDigit(b, 97)>>
  BY OneTwo DEF Hex
<1> HIDE DEF a, b
<1>3. unvis(Ground, ch.percent, f) = <<Decoder("HEX1", 0), "NOCHAR">>
  BY DEF unvis, Ground, Decoder, InGround, More, ch
<1>4. unvis(Decoder("HEX1", 0), HexDigit(a, 97), f) = <<Decoder("HEX2", a), "NOCHAR">>
  <2>1. IsHex(HexDigit(a, 97)) /\ HexValue(HexDigit(a, 97)) = a
    BY <1>1, HexDigits
  <2> QED BY <2>1 DEF unvis, Decoder, More
<1>5. unvis(Decoder("HEX2", a), HexDigit(b, 97), f) = Valid(c)
  <2>1. IsHex(HexDigit(b, 97)) /\ HexValue(HexDigit(b, 97)) = b
    BY <1>1, HexDigits
  <2>2. Or(b, (a * 16) % 256) = c
    BY <1>1, OrNibbles
  <2> QED BY <2>1, <2>2 DEF unvis, Decoder
<1> QED BY <1>2, <1>3, <1>4, <1>5, ReadsThree

LEMMA EqualReads ==
  ASSUME NEW c \in Octets, NEW f, "mimestyle" \in f
  PROVE  Reads(Ground, <<ch.equal>> \o Hex(c, 65), c, f)
<1> DEFINE a == c \div 16
           b == c % 16
<1>1. a \in 0..15 /\ b \in 0..15 /\ c = 16 * a + b
  BY DEF Octets
<1>2. <<ch.equal>> \o Hex(c, 65) = <<ch.equal, HexDigit(a, 65), HexDigit(b, 65)>>
  BY OneTwo DEF Hex
<1> HIDE DEF a, b
<1>3. unvis(Ground, ch.equal, f) = <<Decoder("MIME1", 0), "NOCHAR">>
  BY DEF unvis, Ground, Decoder, InGround, More, ch
<1>4. unvis(Decoder("MIME1", 0), HexDigit(a, 65), f) = <<Decoder("MIME2", a), "NOCHAR">>
  <2>1. /\ HexDigit(a, 65) \notin {ch.nl, ch.cr}
        /\ IsUpperHex(HexDigit(a, 65)) /\ HexValue(HexDigit(a, 65)) = a
    BY <1>1, HexDigits
  <2> QED BY <2>1 DEF unvis, Decoder, More
<1>5. unvis(Decoder("MIME2", a), HexDigit(b, 65), f) = Valid(c)
  <2>1. IsUpperHex(HexDigit(b, 65)) /\ HexValue(HexDigit(b, 65)) = b
    BY <1>1, HexDigits
  <2>2. Or(b, (a * 16) % 256) = c
    BY <1>1, OrNibbles
  <2> QED BY <2>1, <2>2 DEF unvis, Decoder
<1> QED BY <1>2, <1>3, <1>4, <1>5, ReadsThree

Starts(s, x) == s \in Seq(Octets) /\ s # <<>> /\ s[1] = x

LEMMA StartsWith ==
  ASSUME NEW x, NEW s, Starts(s, x), NEW t \in Seq(Octets)
  PROVE  Starts(s \o t, x)
<1>1. s \in Seq(Octets) /\ Len(s) \in Nat /\ Len(s) # 0 /\ s[1] = x
  BY EmptySeq DEF Starts
<1> DEFINE v == s \o t
<1>2. /\ v \in Seq(Octets) /\ Len(v) = Len(s) + Len(t)
      /\ \A i \in 1..Len(s) + Len(t) : v[i] = IF i <= Len(s) THEN s[i] ELSE t[i - Len(s)]
  BY <1>1, ConcatProperties
<1> HIDE DEF v
<1>3. Len(t) \in Nat
  OBVIOUS
<1>4. v[1] = x /\ Len(v) # 0
  BY <1>1, <1>2, <1>3
<1>5. v # <<>>
  BY <1>4, EmptySeq
<1> QED BY <1>2, <1>4, <1>5 DEF Starts, v

LEMMA StartsTuples ==
  ASSUME NEW a \in Octets, NEW b \in Octets, NEW c \in Octets, NEW e \in Octets
  PROVE  Starts(<<a>>, a) /\ Starts(<<a, b>>, a) /\ Starts(<<a, b, c, e>>, a)
<1>1. <<a>> \in Seq(Octets) /\ <<a, b>> \in Seq(Octets) /\ <<a, b, c, e>> \in Seq(Octets)
  OBVIOUS
<1>2. Len(<<a>>) = 1 /\ Len(<<a, b>>) = 2 /\ Len(<<a, b, c, e>>) = 4
  OBVIOUS
<1>3. <<a>> # <<>> /\ <<a, b>> # <<>> /\ <<a, b, c, e>> # <<>>
  BY <1>2, EmptySeq
<1> QED BY <1>1, <1>3 DEF Starts

(* What vis writes for a byte is read back as that byte; only \0 is, when  *)
(* nothing octal follows, still to be told from the octal digits of        *)
(* another byte. No byte that is not an octal digit is written as          *)
(* something that begins like one.                                         *)
Short(s, c, nextc) == c = ch.nul /\ s = <<ch.bslash, ch.zero>> /\ ~IsOctal(nextc)
Written(s, c, f, nextc) ==
  /\ s \in Seq(Octets) /\ s # <<>>
  /\ ~IsOctal(c) => ~IsOctal(s[1])
  /\ Reads(Ground, s, c, f) \/ Short(s, c, nextc)

LEMMA CStyleWritten ==
  ASSUME NEW c \in Octets, NEW f, "noescape" \notin f, NEW nextc \in Octets,
         c \in DOMAIN Letter \cup {ch.nul, ch.bslash}
  PROVE  Starts(CStyle(c, nextc), ch.bslash)
         /\ (Reads(Ground, CStyle(c, nextc), c, f) \/ Short(CStyle(c, nextc), c, nextc))
<1>0. ch.nul = 0 /\ ch.bslash = 92 /\ ch.zero = 48 /\ ch.bslash \in Octets /\ ch.zero \in Octets /\ ch.nul \in Octets
  BY DEF ch, Octets
<1>1. CASE c \in DOMAIN Letter
  <2>1. CStyle(c, nextc) = <<ch.bslash, Letter[c]>> /\ Letter[c] \in Octets
    BY <1>1, Letters DEF CStyle, Octets
  <2>2. Starts(<<ch.bslash, Letter[c]>>, ch.bslash)
    BY <1>0, <2>1, StartsTuples
  <2> QED BY <1>1, <2>1, <2>2, LetterReads
<1>2. CASE c = ch.nul
  <2>1. c \notin DOMAIN Letter
    BY <1>0, <1>2, Letters
  <2>2. CASE IsOctal(nextc)
    <3>1. CStyle(c, nextc) = <<ch.bslash, ch.zero, ch.zero, ch.zero>>
      <4>1. CStyle(c, nextc) = <<ch.bslash, ch.zero>> \o <<ch.zero, ch.zero>>
        BY <1>2, <2>1, <2>2 DEF CStyle
      <4> QED BY <4>1, TwoTwo
    <3>2. Octal(c) = <<ch.bslash, ch.zero, ch.zero, ch.zero>>
      BY <1>0, <1>2 DEF Octal
    <3>3. Starts(<<ch.bslash, ch.zero, ch.zero, ch.zero>>, ch.bslash)
      BY <1>0, StartsTuples
    <3> QED BY <3>1, <3>2, <3>3, OctalReads
  <2>3. CASE ~IsOctal(nextc)
    <3>1. CStyle(c, nextc) = <<ch.bslash, ch.zero>>
      <4>1. CStyle(c, nextc) = <<ch.bslash, ch.zero>> \o <<>>
        BY <1>2, <2>1, <2>3 DEF CStyle
      <4> QED BY <4>1, WithNothing
    <3>2. Starts(<<ch.bslash, ch.zero>>, ch.bslash)
      BY <1>0, StartsTuples
    <3> QED BY <1>2, <2>3, <3>1, <3>2 DEF Short
  <2> QED BY <2>2, <2>3
<1>3. CASE c = ch.bslash
  <2>1. c \notin DOMAIN Letter /\ c # ch.nul
    BY <1>0, <1>3, Letters
  <2>2. CStyle(c, nextc) = <<ch.bslash, ch.bslash>>
    BY <1>3, <2>1 DEF CStyle
  <2>3. Starts(<<ch.bslash, ch.bslash>>, ch.bslash)
    BY <1>0, StartsTuples
  <2> QED BY <1>3, <2>2, <2>3, SlashReads
<1> QED BY <1>1, <1>2, <1>3

LEMMA OctalStarts ==
  ASSUME NEW c \in Octets
  PROVE  Starts(Octal(c), ch.bslash)
<1> DEFINE x1 == ch.zero + (c \div 64)
           x2 == ch.zero + ((c \div 8) % 8)
           x3 == ch.zero + (c % 8)
<1>1. x1 \in Octets /\ x2 \in Octets /\ x3 \in Octets /\ ch.bslash \in Octets
  BY DEF Octets, ch
<1>2. Octal(c) = <<ch.bslash, x1, x2, x3>>
  BY DEF Octal
<1> HIDE DEF x1, x2, x3
<1> QED BY <1>1, <1>2, StartsTuples

LEMMA MetaCntrlStarts ==
  ASSUME NEW c \in Octets, NEW f, "noslash" \notin f
  PROVE  Starts(MetaCntrl(c, f), ch.bslash)
<1> DEFINE A == IF c >= 128 THEN <<ch.M>> ELSE <<>>
           B == IF IsCntrl(c % 128) THEN <<ch.caret, IF c % 128 = 127 THEN ch.quest ELSE (c % 128) + ch.at>>
                                    ELSE <<ch.minus, c % 128>>
<1>1. MetaCntrl(c, f) = (<<ch.bslash>> \o A) \o B
  BY DEF MetaCntrl
<1>0. ch.bslash \in Octets /\ ch.M \in Octets /\ ch.caret \in Octets /\ ch.minus \in Octets
  BY DEF ch, Octets
<1>2. A \in Seq(Octets)
  BY <1>0
<1>3. B \in Seq(Octets)
  <2> DEFINE m == c % 128
             x == IF m = 127 THEN ch.quest ELSE m + ch.at
  <2>1. m \in Octets /\ (IsCntrl(m) => x \in Octets)
    BY DEF Octets, IsCntrl, ch
  <2>2. B = IF IsCntrl(m) THEN <<ch.caret, x>> ELSE <<ch.minus, m>>
    OBVIOUS
  <2> HIDE DEF m, x, B
  <2> QED BY <1>0, <2>1, <2>2
<1>4. Starts(<<ch.bslash>>, ch.bslash)
  BY <1>0, StartsTuples
<1> HIDE DEF A, B
<1> QED BY <1>1, <1>2, <1>3, <1>4, StartsWith

LEMMA MByteWritten ==
  ASSUME NEW c \in Octets, NEW f, f \cap {"noslash", "noescape"} = {}, NEW nextc \in Octets,
         NEW w \in BOOLEAN, w \/ c >= 128 \/ IsCntrl(c), "cstyle" \in f /\ IsGraph(c) => c = ch.bslash
  PROVE  Starts(do_mbyte(c, f, nextc, w), ch.bslash)
         /\ (Reads(Ground, do_mbyte(c, f, nextc, w), c, f) \/ Short(do_mbyte(c, f, nextc, w), c, nextc))
<1>0. "noescape" \notin f /\ "noslash" \notin f
  OBVIOUS
<1>1. CASE "cstyle" \in f /\ (c \in DOMAIN Letter \cup {ch.nul} \/ IsGraph(c))
  <2>1. do_mbyte(c, f, nextc, w) = CStyle(c, nextc)
    BY <1>1 DEF do_mbyte
  <2>2. c \in DOMAIN Letter \cup {ch.nul, ch.bslash}
    BY <1>1
  <2> QED BY <1>0, <2>1, <2>2, CStyleWritten
<1>2. CASE /\ ~("cstyle" \in f /\ (c \in DOMAIN Letter \cup {ch.nul} \/ IsGraph(c)))
           /\ w \/ c % 128 = ch.sp \/ "octal" \in f
  <2>1. do_mbyte(c, f, nextc, w) = Octal(c)
    BY <1>2 DEF do_mbyte
  <2> QED BY <1>0, <2>1, OctalReads, OctalStarts
<1>3. CASE /\ ~("cstyle" \in f /\ (c \in DOMAIN Letter \cup {ch.nul} \/ IsGraph(c)))
           /\ ~(w \/ c % 128 = ch.sp \/ "octal" \in f)
  <2>1. do_mbyte(c, f, nextc, w) = MetaCntrl(c, f)
    BY <1>3 DEF do_mbyte
  <2>2. c >= 128 \/ IsCntrl(c)
    BY <1>3
  <2> QED BY <1>0, <2>1, <2>2, MetaCntrlReads, MetaCntrlStarts
<1> QED BY <1>1, <1>2, <1>3

LEMMA StartsWritten ==
  ASSUME NEW x \in Octets, ~IsOctal(x), NEW s, Starts(s, x), NEW c, NEW f, NEW nextc,
         Reads(Ground, s, c, f) \/ Short(s, c, nextc)
  PROVE  Written(s, c, f, nextc)
BY DEF Written, Starts

(* Flags, and the characters to encode besides.                            *)
Fit(f, X) ==
  /\ f \cap {"noslash", "noescape"} = {}
  /\ ch.bslash \in X
  /\ "cstyle" \in f => \A c \in X : IsGraph(c) => c = ch.bslash

LEMMA ExtraFits ==
  ASSUME NEW f, Decodable(f)
  PROVE  Fit(f, ExtraList(f, IF "svis" \in f THEN Extra ELSE {}))
<1> DEFINE e == IF "svis" \in f THEN Extra ELSE {}
<1>1. "cstyle" \in f => \A c \in e : IsGraph(c) => c = ch.bslash
  BY DEF Decodable
<1> HIDE DEF e
<1>2. f \cap {"noslash", "noescape"} = {} /\ ("cstyle" \in f => "glob" \notin f)
  BY DEF Decodable
<1>3. "noslash" \notin f
  BY <1>2
<1>4. ~IsGraph(ch.nul) /\ ~IsGraph(ch.sp) /\ ~IsGraph(9) /\ ~IsGraph(ch.nl)
  BY DEF IsGraph, ch
<1>5. ch.bslash \in ExtraList(f, e)
  BY <1>3 DEF ExtraList
<1>6. ASSUME "cstyle" \in f, NEW c \in ExtraList(f, e), IsGraph(c)
      PROVE  c = ch.bslash
  BY <1>1, <1>2, <1>3, <1>4, <1>6 DEF ExtraList
<1> QED BY <1>2, <1>5, <1>6 DEF Fit, e

LEMMA SvisWritten ==
  ASSUME NEW c \in Octets, NEW f, NEW X, Fit(f, X), NEW nextc \in Octets,
         "httpstyle" \in f => c # ch.percent, "http1866" \in f => c # ch.amp, "mimestyle" \in f => c # ch.equal
  PROVE  Written(do_svis(c, f, nextc, X), c, f, nextc)
<1>1. CASE c \notin X /\ (IsGraph(c) \/ IsWhite(c) \/ ("safe" \in f /\ IsSafe(c)))
  <2>1. do_svis(c, f, nextc, X) = <<c>>
    BY <1>1 DEF do_svis
  <2>2. c # ch.bslash
    BY <1>1 DEF Fit
  <2>3. Starts(<<c>>, c)
    BY StartsTuples
  <2>4. Reads(Ground, <<c>>, c, f)
    BY <2>2, LiteralRead
  <2> QED BY <2>1, <2>3, <2>4 DEF Written, Starts
<1>2. CASE ~(c \notin X /\ (IsGraph(c) \/ IsWhite(c) \/ ("safe" \in f /\ IsSafe(c))))
  <2> DEFINE w == c \in X
  <2>1. do_svis(c, f, nextc, X) = do_mbyte(c, f, nextc, w)
    BY <1>2 DEF do_svis
  <2>2. w \in BOOLEAN
    OBVIOUS
  <2>3. w \/ c >= 128 \/ IsCntrl(c)
    BY <1>2 DEF IsGraph, IsWhite, IsCntrl, Octets, ch
  <2>4. "cstyle" \in f /\ IsGraph(c) => c = ch.bslash
    BY <1>2 DEF Fit
  <2>5. f \cap {"noslash", "noescape"} = {}
    BY DEF Fit
  <2> HIDE DEF w
  <2>6. /\ Starts(do_mbyte(c, f, nextc, w), ch.bslash)
        /\ Reads(Ground, do_mbyte(c, f, nextc, w), c, f) \/ Short(do_mbyte(c, f, nextc, w), c, nextc)
    BY <2>2, <2>3, <2>4, <2>5, MByteWritten
  <2>7. ch.bslash \in Octets /\ ~IsOctal(ch.bslash)
    BY DEF ch, Octets, IsOctal
  <2> QED BY <2>1, <2>6, <2>7, StartsWritten
<1> QED BY <1>1, <1>2

LEMMA HexStarts ==
  ASSUME NEW x \in Octets, NEW c \in Octets
  PROVE  Starts(<<x>> \o Hex(c, 97), x) /\ Starts(<<x>> \o Hex(c, 65), x)
<1>1. c \div 16 \in 0..15 /\ c % 16 \in 0..15
  BY DEF Octets
<1>2. Hex(c, 97) \in Seq(Octets) /\ Hex(c, 65) \in Seq(Octets)
  BY <1>1, HexDigits DEF Hex
<1>3. Starts(<<x>>, x)
  BY StartsTuples
<1> QED BY <1>2, <1>3, StartsWith

LEMMA EncodeFits ==
  ASSUME NEW c \in Octets, NEW f, NEW e, Fit(f, ExtraList(f, e)), NEW nextc \in Octets, "http1866" \in f => c # ch.amp
  PROVE  Written(Encode(c, f, nextc, e), c, f, nextc)
<1> DEFINE X == ExtraList(f, e)
<1>1. Fit(f, X)
  OBVIOUS
<1> HIDE DEF X
<1>2. CASE "httpstyle" \in f
  <2>1. Encode(c, f, nextc, e) = do_hvis(c, f, nextc, X)
    BY <1>2 DEF Encode, X
  <2>2. CASE IsAlnum(c) \/ c \in {36, ch.minus, 95, 46, 43, 33, ch.star, 39, 40, 41, 44}
    <3>1. c # ch.percent /\ c # ch.equal
      BY <2>2 DEF IsAlnum, IsDigit, ch
    <3>2. do_hvis(c, f, nextc, X) = do_svis(c, f, nextc, X)
      BY <2>2 DEF do_hvis
    <3> QED BY <1>1, <2>1, <3>1, <3>2, SvisWritten
  <2>3. CASE ~(IsAlnum(c) \/ c \in {36, ch.minus, 95, 46, 43, 33, ch.star, 39, 40, 41, 44})
    <3>1. do_hvis(c, f, nextc, X) = <<ch.percent>> \o Hex(c, 97)
      BY <2>3 DEF do_hvis
    <3>2. ch.percent \in Octets /\ ~IsOctal(ch.percent)
      BY DEF ch, Octets, IsOctal
    <3>3. Written(<<ch.percent>> \o Hex(c, 97), c, f, nextc)
      BY <1>2, <3>2, HexStarts, PercentReads, StartsWritten
    <3> QED BY <2>1, <3>1, <3>3
  <2> QED BY <2>2, <2>3
<1>3. CASE "httpstyle" \notin f /\ "mimestyle" \in f
  <2>1. Encode(c, f, nextc, e) = do_mvis(c, f, nextc, X)
    BY <1>3 DEF Encode, X
  <2>2. CASE do_mvis(c, f, nextc, X) = <<ch.equal>> \o Hex(c, 65)
    <3>2. ch.equal \in Octets /\ ~IsOctal(ch.equal)
      BY DEF ch, Octets, IsOctal
    <3>3. Written(<<ch.equal>> \o Hex(c, 65), c, f, nextc)
      BY <1>3, <3>2, HexStarts, EqualReads, StartsWritten
    <3> QED BY <2>1, <2>2, <3>3
  <2>3. CASE do_mvis(c, f, nextc, X) # <<ch.equal>> \o Hex(c, 65)
    <3>1. do_mvis(c, f, nextc, X) = do_svis(c, f, nextc, X) /\ c # ch.equal
      BY <2>3 DEF do_mvis, IsSpace, ch
    <3> QED BY <1>1, <1>3, <2>1, <3>1, SvisWritten
  <2> QED BY <2>2, <2>3
<1>4. CASE "httpstyle" \notin f /\ "mimestyle" \notin f
  <2>1. Encode(c, f, nextc, e) = do_svis(c, f, nextc, X)
    BY <1>4 DEF Encode, X
  <2> QED BY <1>1, <1>4, <2>1, SvisWritten
<1> QED BY <1>2, <1>3, <1>4

LEMMA EncodeWritten ==
  ASSUME NEW c \in Octets, NEW f, Decodable(f), NEW nextc \in Octets, "http1866" \in f => c # ch.amp
  PROVE  Written(Encode(c, f, nextc, IF "svis" \in f THEN Extra ELSE {}), c, f, nextc)
<1> DEFINE e == IF "svis" \in f THEN Extra ELSE {}
<1>1. Fit(f, ExtraList(f, e))
  BY ExtraFits
<1> HIDE DEF e
<1>2. Written(Encode(c, f, nextc, e), c, f, nextc)
  BY <1>1, EncodeFits
<1> QED BY <1>2 DEF e

(* Names.                                                                  *)
Name(j) == nv[j][1]

LEMMA NameFacts ==
  ASSUME NamesRight, NEW j \in DOMAIN nv
  PROVE  /\ DOMAIN nv = 1..Len(nv) /\ Len(nv) \in Nat /\ j \in Nat \ {0}
         /\ Name(j) \in Seq(1..255) /\ Len(Name(j)) \in Nat \ {0}
         /\ nv[j][2] \in 0..255
         /\ Name(j)[1] # ch.hash
         /\ \A i \in 1..Len(Name(j)) : Name(j)[i] \in 1..255 /\ Name(j)[i] # ch.semi
         /\ \A i \in 0..Len(Name(j)) - 1 : At(j, i) = Name(j)[i + 1]
         /\ At(j, Len(Name(j))) = 0
<1>1. DOMAIN nv = 1..Len(nv) /\ Len(nv) \in Nat /\ j \in Nat \ {0} /\ nv[j] \in Seq(1..255) \X (0..255)
  BY CodecAssumption
<1>2. Name(j) \in Seq(1..255) /\ nv[j][2] \in 0..255
  BY <1>1 DEF Name
<1>3. Name(j) # <<>> /\ Name(j)[1] # ch.hash /\ \A i \in DOMAIN Name(j) : Name(j)[i] # ch.semi
  BY DEF NamesRight, Name
<1>4. /\ Len(Name(j)) \in Nat \ {0} /\ DOMAIN Name(j) = 1..Len(Name(j))
      /\ \A i \in 1..Len(Name(j)) : Name(j)[i] \in 1..255
  <2> DEFINE s == Name(j)
  <2> HIDE DEF s
  <2>1. s \in Seq(1..255) /\ s # <<>>
    BY <1>2, <1>3 DEF s
  <2>2. Len(s) \in Nat \ {0}
    BY <2>1, EmptySeq
  <2>3. DOMAIN s = 1..Len(s) /\ \A i \in 1..Len(s) : s[i] \in 1..255
    BY <2>1, LenProperties, ElementOfSeq
  <2> QED BY <2>2, <2>3 DEF s
<1>5. \A i : At(j, i) = IF i < Len(Name(j)) THEN Name(j)[i + 1] ELSE ch.nul
  BY DEF At, Name
<1> HIDE DEF Name
<1>6. (\A i \in 0..Len(Name(j)) - 1 : At(j, i) = Name(j)[i + 1]) /\ At(j, Len(Name(j))) = 0
  BY <1>4, <1>5 DEF ch
<1> QED BY <1>1, <1>2, <1>3, <1>4, <1>6

(* The first name that begins with the first n letters of name j.          *)
IsFirst(i, j, n) == i \in DOMAIN nv /\ Agree(i, j, n) /\ \A k \in DOMAIN nv : Agree(k, j, n) => i <= k
First(j, n) == CHOOSE i \in DOMAIN nv : Agree(i, j, n) /\ \A k \in DOMAIN nv : Agree(k, j, n) => i <= k

LEMMA FirstFacts ==
  ASSUME NamesRight, NEW j \in DOMAIN nv, NEW n \in Nat
  PROVE  IsFirst(First(j, n), j, n) /\ First(j, n) \in Nat /\ First(j, n) <= j
<1> DEFINE T == {i \in DOMAIN nv : Agree(i, j, n)}
<1>1. T \subseteq Nat /\ j \in T
  BY NameFacts DEF Agree
<1>2. \E i \in T : \A k \in T : i <= k
  BY <1>1, LeastNatural, Zenon
<1>3. \E i \in DOMAIN nv : Agree(i, j, n) /\ \A k \in DOMAIN nv : Agree(k, j, n) => i <= k
  BY <1>2
<1>4. IsFirst(First(j, n), j, n)
  BY <1>3 DEF First, IsFirst
<1> QED BY <1>1, <1>4 DEF IsFirst

(* Where names with a common beginning are neighbours, all names from the  *)
(* first of them up to name j have it.                                     *)
LEMMA Between ==
  ASSUME NamesRight, NEW j \in DOMAIN nv, NEW n \in 1..Len(Name(j)), NEW k \in First(j, n)..j
  PROVE  k \in DOMAIN nv /\ Agree(k, j, n) /\ At(k, n - 1) = At(j, n - 1)
<1>1. n \in Nat /\ n - 1 \in 0..n - 1
  BY NameFacts
<1> DEFINE i == First(j, n)
<1>2. i \in DOMAIN nv /\ Agree(i, j, n) /\ i \in Nat /\ i <= j
  BY <1>1, FirstFacts DEF IsFirst
<1> HIDE DEF i
<1>3. k \in i..j
  BY DEF i
<1>4. Agree(k, j, n)
  BY <1>2, <1>3 DEF NamesRight, Name
<1>5. k \in DOMAIN nv
  BY <1>2, <1>3, NameFacts
<1> QED BY <1>1, <1>4, <1>5 DEF Agree

LEMMA AgreeMore ==
  ASSUME NEW i, NEW j, NEW n \in Nat
  PROVE  Agree(i, j, n + 1) <=> Agree(i, j, n) /\ At(i, n) = At(j, n)
<1>1. 0..(n + 1) - 1 = (0..n - 1) \cup {n}
  OBVIOUS
<1> QED BY <1>1 DEF Agree

Alike(ia, is) == {j \in DOMAIN nv : j > ia /\ \A k \in (ia + 1)..j : is = 0 \/ At(k, is - 1) = At(ia + 1, is - 1)}
StringAt(j, n) == [st |-> "STRING", is |-> n, cp |-> First(j, n) - 1]

LEMMA InStringIs ==
  ASSUME NEW c, NEW ia, NEW is, NEW uc, uc = IF c = ch.semi THEN ch.nul ELSE c, NEW F,
         F \in DOMAIN nv, F \in Alike(ia, is), At(F, is) = uc,
         \A k \in Alike(ia, is) : At(k, is) = uc => F <= k, DOMAIN nv \subseteq Nat
  PROVE  InString(c, ia, is) = IF uc = ch.nul THEN Valid(nv[F][2])
                               ELSE <<[st |-> "STRING", is |-> is + 1, cp |-> F - 1], "NOCHAR">>
<1> DEFINE hits == {j \in Alike(ia, is) : At(j, is) = uc}
           first == CHOOSE j \in hits : \A k \in hits : j <= k
<1>1. F \in hits /\ \A k \in hits : F <= k
  OBVIOUS
<1>2. first = F
  <2>1. first \in hits /\ \A k \in hits : first <= k
    BY <1>1
  <2>2. hits \subseteq Nat
    BY DEF Alike
  <2> HIDE DEF first, hits
  <2> QED BY <1>1, <2>1, <2>2
<1>3. hits # {}
  BY <1>1
<1>4. InString(c, ia, is) = IF hits = {} THEN Bad(ia)
      ELSE IF uc = ch.nul THEN Valid(nv[first][2])
      ELSE <<[st |-> "STRING", is |-> is + 1, cp |-> first - 1], "NOCHAR">>
  BY DEF InString, Alike
<1> HIDE DEF first, hits
<1> QED BY <1>2, <1>3, <1>4

(* One letter of name j, after n of them.                                  *)
LEMMA LetterFound ==
  ASSUME NamesRight, NEW j \in DOMAIN nv, NEW n \in 1..Len(Name(j)) - 1
  PROVE  InString(Name(j)[n + 1], First(j, n) - 1, n) = <<StringAt(j, n + 1), "NOCHAR">>
<1> DEFINE c == Name(j)[n + 1]
           i == First(j, n)
           F == First(j, n + 1)
           ia == i - 1
<1>1. /\ DOMAIN nv \subseteq Nat /\ n \in Nat /\ n \in 1..Len(Name(j)) /\ n \in 0..Len(Name(j)) - 1
      /\ n + 1 \in 1..Len(Name(j)) /\ n # 0 /\ n + 1 \in Nat
  BY NameFacts
<1>2. c \in 1..255 /\ c # ch.semi /\ At(j, n) = c
  BY <1>1, NameFacts
<1>3. i \in Nat /\ i \in DOMAIN nv /\ i <= j /\ IsFirst(i, j, n)
  BY <1>1, FirstFacts DEF IsFirst
<1>4. F \in Nat /\ F \in DOMAIN nv /\ F <= j /\ IsFirst(F, j, n + 1)
  BY <1>1, FirstFacts DEF IsFirst
<1>5. Agree(F, j, n) /\ At(F, n) = c
  BY <1>1, <1>2, <1>4, AgreeMore DEF IsFirst
<1>6. i <= F
  BY <1>3, <1>4, <1>5 DEF IsFirst
<1>7. \A k \in i..j : k \in DOMAIN nv /\ Agree(k, j, n) /\ At(k, n - 1) = At(j, n - 1)
  BY <1>1, Between
<1> HIDE DEF c, i, F
<1>8. ia + 1 = i /\ j \in Nat
  BY <1>3, NameFacts
<1>9. F \in Alike(ia, n)
  <2>1. F > ia
    BY <1>3, <1>4, <1>6
  <2>2. \A k \in i..F : At(k, n - 1) = At(i, n - 1)
    <3>1. i \in i..j /\ \A k \in i..F : k \in i..j
      BY <1>3, <1>4, <1>6, <1>8
    <3> QED BY <1>7, <3>1
  <2> QED BY <1>4, <1>8, <2>1, <2>2 DEF Alike
<1>10. \A k \in Alike(ia, n) : At(k, n) = c => F <= k
  <2> TAKE k \in Alike(ia, n)
  <2> HAVE At(k, n) = c
  <2>1. k \in DOMAIN nv /\ k \in Nat /\ k > ia
    BY <1>1 DEF Alike
  <2>2. CASE k > j
    BY <1>4, <1>8, <2>1, <2>2
  <2>3. CASE k <= j
    <3>1. k \in i..j
      BY <1>3, <1>8, <2>1, <2>3
    <3>2. Agree(k, j, n + 1)
      BY <1>1, <1>2, <1>7, <3>1, AgreeMore
    <3> QED BY <1>4, <2>1, <3>2 DEF IsFirst
  <2> QED BY <1>8, <2>1, <2>2, <2>3
<1>11. c = (IF c = ch.semi THEN ch.nul ELSE c) /\ c # ch.nul
  BY <1>2 DEF ch
<1> HIDE DEF ia
<1>12. InString(c, ia, n) = IF c = ch.nul THEN Valid(nv[F][2])
                            ELSE <<[st |-> "STRING", is |-> n + 1, cp |-> F - 1], "NOCHAR">>
  BY <1>1, <1>4, <1>5, <1>9, <1>10, <1>11, InStringIs
<1> QED BY <1>11, <1>12 DEF StringAt, c, i, F, ia

LEMMA FirstLetterFound ==
  ASSUME NamesRight, NEW j \in DOMAIN nv
  PROVE  InString(Name(j)[1], 0, 0) = <<StringAt(j, 1), "NOCHAR">>
<1> DEFINE c == Name(j)[1]
           F == First(j, 1)
<1>1. DOMAIN nv \subseteq Nat \ {0} /\ 1 \in 1..Len(Name(j)) /\ 0 \in 0..Len(Name(j)) - 1 /\ 0 + 1 = 1
  BY NameFacts
<1>2. c \in 1..255 /\ c # ch.semi /\ At(j, 0) = c
  BY <1>1, NameFacts
<1>4. F \in Nat /\ F \in DOMAIN nv /\ F <= j /\ IsFirst(F, j, 1)
  BY <1>1, FirstFacts DEF IsFirst
<1>5. At(F, 0) = c
  <2>1. 0 \in 0..1 - 1
    OBVIOUS
  <2> QED BY <1>2, <1>4, <2>1 DEF IsFirst, Agree
<1> HIDE DEF c, F
<1>9. Alike(0, 0) = DOMAIN nv
  <2>1. \A k \in DOMAIN nv : k > 0
    BY <1>1
  <2> QED BY <2>1 DEF Alike
<1>10. \A k \in Alike(0, 0) : At(k, 0) = c => F <= k
  <2> TAKE k \in Alike(0, 0)
  <2> HAVE At(k, 0) = c
  <2>1. Agree(k, j, 1)
    BY <1>2 DEF Agree
  <2> QED BY <1>4, <1>9, <2>1 DEF IsFirst
<1>11. c = (IF c = ch.semi THEN ch.nul ELSE c) /\ c # ch.nul
  BY <1>2 DEF ch
<1>12. InString(c, 0, 0) = IF c = ch.nul THEN Valid(nv[F][2])
                           ELSE <<[st |-> "STRING", is |-> 0 + 1, cp |-> F - 1], "NOCHAR">>
  BY <1>1, <1>4, <1>5, <1>9, <1>10, <1>11, InStringIs
<1> QED BY <1>1, <1>11, <1>12 DEF StringAt, c, F

LEMMA NameFound ==
  ASSUME NamesRight, NEW j \in DOMAIN nv
  PROVE  InString(ch.semi, First(j, Len(Name(j))) - 1, Len(Name(j))) = Valid(nv[j][2])
<1> DEFINE n == Len(Name(j))
           i == First(j, n)
           ia == i - 1
<1>1. DOMAIN nv \subseteq Nat /\ n \in Nat \ {0} /\ n \in 1..n /\ At(j, n) = 0 /\ j \in Nat
  BY NameFacts
<1>3. i \in Nat /\ i \in DOMAIN nv /\ i <= j /\ IsFirst(i, j, n)
  BY <1>1, FirstFacts DEF IsFirst
<1>7. \A k \in i..j : k \in DOMAIN nv /\ Agree(k, j, n) /\ At(k, n - 1) = At(j, n - 1)
  BY <1>1, Between
<1> HIDE DEF n, i
<1>8. ia + 1 = i
  BY <1>3
<1>9. j \in Alike(ia, n)
  <2>1. j > ia /\ i \in i..j
    BY <1>1, <1>3
  <2> QED BY <1>7, <1>8, <2>1 DEF Alike
<1>10. \A k \in Alike(ia, n) : At(k, n) = 0 => j <= k
  <2> TAKE k \in Alike(ia, n)
  <2> HAVE At(k, n) = 0
  <2>1. k \in DOMAIN nv /\ k \in Nat /\ k > ia
    BY <1>1 DEF Alike
  <2>3. CASE k <= j
    <3>1. k \in i..j
      BY <1>3, <1>8, <2>1, <2>3
    <3>2. Agree(k, j, n)
      BY <1>7, <3>1
    <3> DEFINE l == Len(Name(k))
    <3>3. /\ l \in Nat \ {0} /\ Name(k) \in Seq(1..255)
          /\ \A m \in 0..l - 1 : At(k, m) = Name(k)[m + 1] /\ Name(k)[m + 1] \in 1..255
          /\ At(k, l) = 0
      BY <2>1, NameFacts
    <3>4. /\ Name(j) \in Seq(1..255)
          /\ \A m \in 0..n - 1 : At(j, m) = Name(j)[m + 1] /\ Name(j)[m + 1] \in 1..255
      BY NameFacts DEF n
    <3> HIDE DEF l
    <3>5. \A m \in 0..n - 1 : At(k, m) = At(j, m)
      BY <3>2 DEF Agree
    <3>6. ~(n < l)
      <4> SUFFICES ASSUME n < l PROVE FALSE
        OBVIOUS
      <4>1. n \in 0..l - 1
        BY <1>1, <3>3
      <4>2. At(k, n) \in 1..255
        BY <3>3, <4>1
      <4> QED BY <4>2
    <3>7. ~(l < n)
      <4> SUFFICES ASSUME l < n PROVE FALSE
        OBVIOUS
      <4>1. l \in 0..n - 1
        BY <1>1, <3>3
      <4>2. At(j, l) \in 1..255
        BY <3>4, <4>1
      <4>3. At(k, l) = At(j, l)
        BY <3>5, <4>1
      <4>4. At(k, l) = 0
        BY <3>3
      <4> QED BY <4>2, <4>3, <4>4
    <3>8. l = n
      BY <1>1, <3>3, <3>6, <3>7
    <3>9. \A m \in 1..n : Name(k)[m] = Name(j)[m]
      <4> TAKE m \in 1..n
      <4> DEFINE p == m - 1
      <4>1. p \in 0..n - 1 /\ p + 1 = m
        BY <1>1
      <4> HIDE DEF p
      <4> QED BY <3>3, <3>4, <3>5, <3>8, <4>1
    <3>10. Name(k) = Name(j)
      BY <3>3, <3>4, <3>8, <3>9, SeqEqual DEF l, n
    <3>11. k = j
      BY <2>1, <3>10 DEF NamesRight, Name
    <3> QED BY <1>1, <3>11
  <2> QED BY <1>1, <2>1, <2>3
<1> HIDE DEF ia
<1>11. InString(ch.semi, ia, n) = IF 0 = ch.nul THEN Valid(nv[j][2])
                                  ELSE <<[st |-> "STRING", is |-> n + 1, cp |-> j - 1], "NOCHAR">>
  <2>1. 0 = IF ch.semi = ch.semi THEN ch.nul ELSE ch.semi
    BY DEF ch
  <2> QED BY <1>1, <1>9, <1>10, <2>1, InStringIs
<1> QED BY <1>11 DEF ia, i, n, ch

(* A name is read as its value.                                            *)
LEMMA NameReads ==
  ASSUME NamesRight, NEW j \in DOMAIN nv, NEW f, "http1866" \in f
  PROVE  LET s == <<ch.amp>> \o nv[j][1] \o <<ch.semi>>
         IN  Starts(s, ch.amp) /\ Reads(Ground, s, nv[j][2], f)
<1> DEFINE s == (<<ch.amp>> \o Name(j)) \o <<ch.semi>>
           L == Len(Name(j))
<1>0. ch.amp = 38 /\ ch.semi = 59 /\ ch.bslash = 92 /\ ch.percent = 37 /\ ch.amp \in Octets /\ ch.semi \in Octets
  BY DEF ch, Octets
<1>1. L \in Nat /\ L # 0 /\ Name(j) \in Seq(Octets) /\ Name(j)[1] # ch.hash
  <2>1. Name(j) \in Seq(1..255) /\ L \in Nat /\ L # 0 /\ Name(j)[1] # ch.hash
    BY NameFacts
  <2>2. Name(j) \in Seq(Octets)
    BY <2>1 DEF Octets
  <2> QED BY <2>1, <2>2
<1>2. Starts(<<ch.amp>>, ch.amp) /\ <<ch.amp>> \in Seq(Octets) /\ <<ch.semi>> \in Seq(Octets)
  BY <1>0, StartsTuples DEF Starts
<1>3. Starts(s, ch.amp)
  <2>1. Starts(<<ch.amp>> \o Name(j), ch.amp)
    BY <1>1, <1>2, StartsWith
  <2> QED BY <1>2, <2>1, StartsWith
<1>4. /\ Len(s) = L + 2 /\ s[1] = ch.amp /\ s[L + 2] = ch.semi
      /\ \A n \in 1..L : s[n + 1] = Name(j)[n]
  <2> DEFINE h == <<ch.amp>>
             e == <<ch.semi>>
             p == h \o Name(j)
  <2>1. h \in Seq(Octets) /\ e \in Seq(Octets) /\ Len(h) = 1 /\ Len(e) = 1 /\ h[1] = ch.amp /\ e[1] = ch.semi
    BY <1>2
  <2> DEFINE q == Name(j)
  <2>2. q \in Seq(Octets) /\ Len(q) = L
    BY <1>1
  <2>3. s = p \o e /\ p = h \o q
    OBVIOUS
  <2> HIDE DEF h, e, L, p, s, q
  <2>6. /\ p \in Seq(Octets) /\ Len(p) = 1 + L
        /\ \A i \in 1..1 + L : p[i] = IF i <= 1 THEN h[i] ELSE q[i - 1]
    <3>1. /\ h \o q \in Seq(Octets) /\ Len(h \o q) = Len(h) + Len(q)
          /\ \A i \in 1..Len(h) + Len(q) : (h \o q)[i] = IF i <= Len(h) THEN h[i] ELSE q[i - Len(h)]
      BY <2>1, <2>2, ConcatProperties
    <3> QED BY <2>1, <2>2, <2>3, <3>1
  <2>4. Len(s) = 1 + L + 1 /\ \A i \in 1..1 + L + 1 : s[i] = IF i <= 1 + L THEN p[i] ELSE e[i - (1 + L)]
    <3>1. /\ Len(p \o e) = Len(p) + Len(e)
          /\ \A i \in 1..Len(p) + Len(e) : (p \o e)[i] = IF i <= Len(p) THEN p[i] ELSE e[i - Len(p)]
      BY <2>1, <2>6, ConcatProperties
    <3> QED BY <2>1, <2>3, <2>6, <3>1
  <2>5. s[1] = ch.amp /\ s[L + 2] = ch.semi
    BY <1>1, <2>1, <2>4, <2>6
  <2>7. ASSUME NEW n \in 1..L PROVE s[n + 1] = Name(j)[n]
    <3> DEFINE i == n + 1
    <3>1. i \in 1..1 + L + 1 /\ i \in 1..1 + L /\ i <= 1 + L /\ ~(i <= 1) /\ i - 1 = n
      BY <1>1
    <3> HIDE DEF i
    <3>2. s[i] = Name(j)[n]
      BY <2>4, <2>6, <3>1 DEF q
    <3> QED BY <3>2 DEF i
  <2> QED BY <1>1, <2>4, <2>5, <2>7
<1> DEFINE ds == [i \in 1..L + 2 |-> IF i = 1 THEN Ground ELSE IF i = 2 THEN Decoder("AMP", 0) ELSE StringAt(j, i - 2)]
<1>5. ds[1] = Ground /\ ds[2] = Decoder("AMP", 0) /\ \A n \in 1..L : ds[n + 2] = StringAt(j, n)
  <2>1. 1 \in 1..L + 2 /\ 2 \in 1..L + 2
    BY <1>1
  <2>2. ASSUME NEW n \in 1..L PROVE ds[n + 2] = StringAt(j, n)
    <3>1. n + 2 \in 1..L + 2 /\ n + 2 # 1 /\ n + 2 # 2 /\ n + 2 - 2 = n
      BY <1>1
    <3> QED BY <3>1
  <2> QED BY <2>1, <2>2
<1> HIDE DEF ds, s, L
<1>6. unvis(ds[1], s[1], f) = <<ds[2], "NOCHAR">>
  <2>1. unvis(Ground, ch.amp, f) = <<Decoder("AMP", 0), "NOCHAR">>
    BY <1>0 DEF unvis, Ground, Decoder, InGround, More
  <2> QED BY <1>4, <1>5, <2>1
<1>7. unvis(ds[2], s[2], f) = <<ds[3], "NOCHAR">>
  <2>1. 1 \in 1..L /\ 1 + 1 = 2 /\ 1 + 2 = 3
    BY <1>1
  <2>2. s[2] = Name(j)[1] /\ ds[3] = StringAt(j, 1)
    BY <1>4, <1>5, <2>1
  <2>3. unvis(Decoder("AMP", 0), Name(j)[1], f) = InString(Name(j)[1], 0, 0)
    BY <1>1 DEF unvis, Decoder
  <2> QED BY <1>5, <2>2, <2>3, FirstLetterFound
<1>8. ASSUME NEW n \in 1..L - 1 PROVE unvis(ds[n + 2], s[n + 2], f) = <<ds[n + 3], "NOCHAR">>
  <2> DEFINE m == n + 1
  <2>1. n \in 1..L /\ m \in 1..L /\ m + 1 = n + 2 /\ m + 2 = n + 3
    BY <1>1
  <2> HIDE DEF m
  <2>2. s[n + 2] = Name(j)[m] /\ ds[n + 2] = StringAt(j, n) /\ ds[n + 3] = StringAt(j, m)
    BY <1>4, <1>5, <2>1
  <2>3. unvis(StringAt(j, n), Name(j)[m], f) = InString(Name(j)[m], First(j, n) - 1, n)
    BY DEF unvis, StringAt
  <2>4. InString(Name(j)[m], First(j, n) - 1, n) = <<StringAt(j, m), "NOCHAR">>
    BY LetterFound DEF m, L
  <2> QED BY <2>2, <2>3, <2>4
<1>9. unvis(ds[L + 2], s[L + 2], f) = Valid(nv[j][2])
  <2>1. L \in 1..L
    BY <1>1
  <2>2. unvis(StringAt(j, L), ch.semi, f) = InString(ch.semi, First(j, L) - 1, L)
    BY DEF unvis, StringAt
  <2> QED BY <1>4, <1>5, <2>1, <2>2, NameFound DEF L
<1>10. \A i \in 1..Len(s) - 1 : unvis(ds[i], s[i], f) = <<ds[i + 1], "NOCHAR">>
  <2> TAKE i \in 1..Len(s) - 1
  <2>1. i \in 1..L + 1
    BY <1>1, <1>4
  <2>2. CASE i = 1
    BY <1>6, <2>2
  <2>3. CASE i = 2
    BY <1>7, <2>3
  <2>4. CASE i # 1 /\ i # 2
    <3> DEFINE n == i - 2
    <3>1. n \in 1..L - 1 /\ i = n + 2 /\ i + 1 = n + 3
      BY <1>1, <2>1, <2>4
    <3> HIDE DEF n
    <3> QED BY <1>8, <3>1
  <2> QED BY <2>2, <2>3, <2>4
<1>11. Reads(Ground, s, nv[j][2], f)
  BY <1>4, <1>5, <1>9, <1>10 DEF Reads
<1> QED BY <1>3, <1>11 DEF s, Name

(***************************************************************************)
(* Between any two steps the decoder is idle; or it is reading the         *)
(* encoding of one byte; or it has been given \0 and waits for what        *)
(* follows, which is not an octal digit; or it waits so and is given the   *)
(* encoding of the next byte.                                              *)
(***************************************************************************)
Shortened(d, a) ==
  \/ d.st = "GROUND" /\ a = <<ch.bslash, ch.zero>>
  \/ d = Decoder("START", 0) /\ a = <<ch.zero>>
  \/ d = Decoder("OCTAL2", 0) /\ a = <<>>

Idle == decoder.st = "GROUND" /\ ahead = <<>> /\ lag = <<>>
Reading == ahead # <<>> /\ \E c \in Octets : lag = <<c>> /\ Reads(decoder, ahead, c, flags)
Shortly == lag = <<0>> /\ Shortened(decoder, ahead) /\ ~IsOctal(next)
Waiting ==
  /\ decoder = Decoder("OCTAL2", 0) /\ ahead # <<>> /\ ~IsOctal(ahead[1])
  /\ \/ \E c \in Octets : lag = <<0, c>> /\ Reads(Ground, ahead, c, flags)
     \/ lag = <<0, 0>> /\ Shortened(Ground, ahead) /\ ~IsOctal(next)

CodecInv ==
  /\ flags \in FlagSets /\ next \in Bytes \cup {End} /\ ahead \in Seq(Octets)
  /\ Idle \/ Reading \/ Shortly \/ Waiting

LEMMA InitCodec == Init => CodecInv
BY DEF Init, CodecInv, Idle, Ground, Decoder

LEMMA TakeFacts ==
  ASSUME NEW d, NEW r, Take(<<d, r>>)
  PROVE  /\ decoder' = d /\ code' = r
         /\ lag' = IF r \in {"VALID", "VALIDPUSH"} /\ lag # <<>> THEN Tail(lag) ELSE lag
BY DEF Take

(* Whatever is written next, the decoder that is idle or waits for it can  *)
(* read it.                                                                *)
LEMMA EncodeStep ==
  ASSUME CodecInv, ahead = <<>>, NEW c \in Octets, lag' = Append(lag, c), ahead' \in Seq(Octets), ahead' # <<>>,
         ~IsOctal(next) => ~IsOctal(ahead'[1]), flags' = flags, decoder' = decoder, next' \in Bytes \cup {End},
         Reads(Ground, ahead', c, flags) \/ Short(ahead', c, next')
  PROVE  CodecInv'
<1>1. flags' \in FlagSets /\ next' \in Bytes \cup {End} /\ ahead' \in Seq(Octets)
  BY DEF CodecInv
<1>2. CASE Idle
  <2>1. lag' = <<c>> /\ decoder'.st = "GROUND"
    BY <1>2 DEF Idle
  <2>2. CASE Reads(Ground, ahead', c, flags)
    <3>1. Reads(decoder', ahead', c, flags')
      BY <2>1, <2>2, GroundReads
    <3>2. Reading'
      BY <2>1, <3>1 DEF Reading
    <3> QED BY <1>1, <3>2 DEF CodecInv
  <2>3. CASE Short(ahead', c, next')
    <3>1. Shortly'
      BY <2>1, <2>3 DEF Shortly, Short, Shortened, ch
    <3> QED BY <1>1, <3>1 DEF CodecInv
  <2> QED BY <2>2, <2>3
<1>3. CASE Shortly
  <2>1. decoder' = Decoder("OCTAL2", 0) /\ ~IsOctal(ahead'[1])
    <3>1. Len(<<>>) = 0 /\ Len(<<ch.zero>>) = 1 /\ Len(<<ch.bslash, ch.zero>>) = 2
      OBVIOUS
    <3> QED BY <1>3, <3>1 DEF Shortly, Shortened
  <2>2. lag' = <<0, c>>
    <3>1. <<0>> \in Seq(Octets) /\ Append(<<0>>, c) = <<0>> \o <<c>>
      BY DEF Octets
    <3> QED BY <1>3, <3>1, OneOne DEF Shortly
  <2>3. CASE Reads(Ground, ahead', c, flags)
    <3>1. Waiting'
      BY <2>1, <2>2, <2>3 DEF Waiting
    <3> QED BY <1>1, <3>1 DEF CodecInv
  <2>4. CASE Short(ahead', c, next')
    <3>1. Shortened(Ground, ahead')
      BY <2>4 DEF Short, Shortened, Ground, Decoder
    <3>2. Waiting'
      BY <2>1, <2>2, <2>4, <3>1 DEF Waiting, Short, ch
    <3> QED BY <1>1, <3>2 DEF CodecInv
  <2> QED BY <2>3, <2>4
<1>4. ~Reading /\ ~Waiting
  BY DEF Reading, Waiting
<1> QED BY <1>2, <1>3, <1>4 DEF CodecInv

LEMMA EncodeSteps ==
  ASSUME CodecInv, NamesRight, \A f \in FlagSets : Decodable(f), NEW n \in Bytes \cup {End},
         EncodeByte(n) \/ \E j \in DOMAIN nv : EncodeName(j, n)
  PROVE  CodecInv'
<1>0. ahead = <<>> /\ next # End /\ next \in Octets /\ next' = n /\ flags' = flags /\ decoder' = decoder /\ Decodable(flags)
  BY CodecAssumption DEF EncodeByte, EncodeName, CodecInv, Octets
<1>1. CASE EncodeByte(n)
  <2> DEFINE nextc == IF n = End THEN ch.nul ELSE n
  <2>1. nextc \in Octets /\ (~IsOctal(nextc) => ~IsOctal(n))
    BY CodecAssumption DEF Octets, End, ch, IsOctal
  <2>2. /\ "http1866" \in flags => next # ch.amp
        /\ ahead' = Encode(next, flags, nextc, IF "svis" \in flags THEN Extra ELSE {})
        /\ lag' = Append(lag, next)
    BY <1>1 DEF EncodeByte
  <2> HIDE DEF nextc
  <2>3. Written(ahead', next, flags, nextc)
    BY <1>0, <2>1, <2>2, EncodeWritten
  <2>4. Reads(Ground, ahead', next, flags) \/ Short(ahead', next, next')
    BY <1>0, <2>1, <2>3 DEF Written, Short
  <2>5. ahead' \in Seq(Octets) /\ ahead' # <<>> /\ (~IsOctal(next) => ~IsOctal(ahead'[1]))
    BY <2>3 DEF Written
  <2> QED BY <1>0, <2>2, <2>4, <2>5, EncodeStep
<1>2. ASSUME NEW j \in DOMAIN nv, EncodeName(j, n) PROVE CodecInv'
  <2>1. /\ "http1866" \in flags /\ ahead' = <<ch.amp>> \o nv[j][1] \o <<ch.semi>>
        /\ lag' = Append(lag, nv[j][2])
    BY <1>2 DEF EncodeName
  <2>2. nv[j][2] \in Octets
    BY NameFacts DEF Octets
  <2>3. Starts(ahead', ch.amp) /\ Reads(Ground, ahead', nv[j][2], flags)
    BY <2>1, NameReads
  <2>4. ahead' \in Seq(Octets) /\ ahead' # <<>> /\ ~IsOctal(ahead'[1])
    BY <2>3 DEF Starts, IsOctal, ch
  <2> QED BY <1>0, <2>1, <2>2, <2>3, <2>4, EncodeStep
<1> QED BY <1>1, <1>2

(* A step of the decoder, with what the property asks of it.               *)
RoundTripStep ==
  DecodeByte \/ DecodeEnd =>
    /\ code' # "SYNBAD"
    /\ code' \in {"VALID", "VALIDPUSH"} => lag # <<>> /\ decoder'.cp = Head(lag)

LEMMA DecodeReading ==
  ASSUME CodecInv, Reading, DecodeByte
  PROVE  CodecInv' /\ RoundTripStep
<1>1. PICK c \in Octets : lag = <<c>> /\ Reads(decoder, ahead, c, flags)
  BY DEF Reading
<1>2. /\ flags \in FlagSets /\ next \in Bytes \cup {End} /\ ahead \in Seq(Octets) /\ ahead # <<>>
      /\ flags' = flags /\ next' = next
      /\ Take(unvis(decoder, Head(ahead), flags))
      /\ ahead' = IF code' = "VALIDPUSH" THEN ahead ELSE Tail(ahead)
  BY DEF CodecInv, DecodeByte
<1>3. Tail(ahead) \in Seq(Octets) /\ lag # <<>> /\ Head(lag) = c /\ Tail(lag) = <<>>
  BY <1>1, <1>2
<1>4. CASE Tail(ahead) = <<>> /\ unvis(decoder, Head(ahead), flags) = Valid(c)
  <2>1. decoder' = Decoder("GROUND", c) /\ code' = "VALID" /\ lag' = <<>>
    <3> DEFINE d == Decoder("GROUND", c)
    <3>1. Take(<<d, "VALID">>)
      BY <1>2, <1>4 DEF Valid
    <3> HIDE DEF d
    <3>2. decoder' = d /\ code' = "VALID" /\ lag' = <<>>
      BY <1>3, <3>1, TakeFacts
    <3> QED BY <3>2 DEF d
  <2>2. ahead' = <<>>
    BY <1>2, <1>4, <2>1
  <2>3. decoder'.st = "GROUND" /\ decoder'.cp = c
    BY <2>1 DEF Decoder
  <2>4. Idle'
    BY <2>1, <2>2, <2>3 DEF Idle
  <2> QED BY <1>2, <1>3, <2>1, <2>2, <2>3, <2>4 DEF CodecInv, RoundTripStep
<1>5. CASE Tail(ahead) # <<>> /\ \E d2 : unvis(decoder, Head(ahead), flags) = <<d2, "NOCHAR">> /\ Reads(d2, Tail(ahead), c, flags)
  <2>1. PICK d2 : unvis(decoder, Head(ahead), flags) = <<d2, "NOCHAR">> /\ Reads(d2, Tail(ahead), c, flags)
    BY <1>5
  <2>2. decoder' = d2 /\ code' = "NOCHAR" /\ lag' = lag
    BY <1>2, <2>1, TakeFacts
  <2>3. ahead' = Tail(ahead)
    BY <1>2, <2>2
  <2>4. Reading'
    BY <1>1, <1>2, <1>5, <2>1, <2>2, <2>3 DEF Reading
  <2> QED BY <1>2, <1>3, <2>2, <2>3, <2>4 DEF CodecInv, RoundTripStep
<1> QED BY <1>1, <1>2, <1>4, <1>5, ReadsStep

(* \0 is read as far as it goes.                                           *)
LEMMA ShortenedStep ==
  ASSUME NEW d, NEW a, Shortened(d, a), a # <<>>, NEW f, "noescape" \notin f
  PROVE  \E d2 : /\ unvis(d, Head(a), f) = <<d2, "NOCHAR">>
                 /\ Shortened(d2, Tail(a)) /\ Tail(a) \in Seq(Octets)
<1>0. ch.zero = 48 /\ ch.zero \in Octets
  BY DEF ch, Octets
<1>1. CASE d.st = "GROUND" /\ a = <<ch.bslash, ch.zero>>
  <2>1. unvis(d, ch.bslash, f) = <<Decoder("START", 0), "NOCHAR">>
    BY <1>1, GroundAlone, SlashRead DEF More
  <2>2. Head(a) = ch.bslash /\ Tail(a) = <<ch.zero>>
    BY <1>1
  <2>3. Shortened(Decoder("START", 0), <<ch.zero>>)
    BY DEF Shortened
  <2>4. <<ch.zero>> \in Seq(Octets)
    BY <1>0
  <2> QED BY <2>1, <2>2, <2>3, <2>4, Zenon
<1>2. CASE d = Decoder("START", 0) /\ a = <<ch.zero>>
  <2>1. unvis(d, ch.zero, f) = <<Decoder("OCTAL2", 0), "NOCHAR">>
    <3>1. 48 \in 48..55 /\ 48 - 48 = 0
      OBVIOUS
    <3> QED BY <1>0, <1>2, <3>1, AfterSlash DEF More
  <2>2. Head(a) = ch.zero /\ Tail(a) = <<>>
    BY <1>2
  <2>3. Shortened(Decoder("OCTAL2", 0), <<>>)
    BY DEF Shortened
  <2>4. <<>> \in Seq(Octets)
    OBVIOUS
  <2> QED BY <2>1, <2>2, <2>3, <2>4, Zenon
<1> QED BY <1>1, <1>2 DEF Shortened

LEMMA DecodeShortly ==
  ASSUME CodecInv, Shortly, DecodeByte, Decodable(flags)
  PROVE  CodecInv' /\ RoundTripStep
<1>1. /\ flags \in FlagSets /\ next \in Bytes \cup {End} /\ ahead # <<>>
      /\ flags' = flags /\ next' = next
      /\ Take(unvis(decoder, Head(ahead), flags))
      /\ ahead' = IF code' = "VALIDPUSH" THEN ahead ELSE Tail(ahead)
  BY DEF CodecInv, DecodeByte
<1>2. "noescape" \notin flags
  BY DEF Decodable
<1>3. PICK d2 : /\ unvis(decoder, Head(ahead), flags) = <<d2, "NOCHAR">>
                /\ Shortened(d2, Tail(ahead)) /\ Tail(ahead) \in Seq(Octets)
  BY <1>1, <1>2, ShortenedStep DEF Shortly
<1>4. decoder' = d2 /\ code' = "NOCHAR" /\ lag' = lag
  BY <1>1, <1>3, TakeFacts
<1>5. ahead' = Tail(ahead)
  BY <1>1, <1>4
<1>6. Shortly'
  BY <1>1, <1>3, <1>4, <1>5 DEF Shortly
<1> QED BY <1>1, <1>3, <1>4, <1>5, <1>6 DEF CodecInv, RoundTripStep

LEMMA DecodeWaiting ==
  ASSUME CodecInv, Waiting, DecodeByte
  PROVE  CodecInv' /\ RoundTripStep
<1>1. /\ flags \in FlagSets /\ next \in Bytes \cup {End} /\ ahead \in Seq(Octets) /\ ahead # <<>>
      /\ flags' = flags /\ next' = next
      /\ Take(unvis(decoder, Head(ahead), flags))
      /\ ahead' = IF code' = "VALIDPUSH" THEN ahead ELSE Tail(ahead)
  BY DEF CodecInv, DecodeByte
<1>2. unvis(decoder, Head(ahead), flags) = <<Decoder("GROUND", 0), "VALIDPUSH">>
  <2>1. Head(ahead) = ahead[1]
    BY <1>1
  <2>2. unvis(Decoder("OCTAL2", 0), ahead[1], flags) = Push(0)
    BY DEF Waiting, unvis, Decoder
  <2> QED BY <2>1, <2>2 DEF Waiting, Push
<1>3. PICK c \in Octets : /\ lag = <<0, c>>
                          /\ \/ Reads(Ground, ahead, c, flags)
                             \/ c = 0 /\ Shortened(Ground, ahead) /\ ~IsOctal(next)
  BY DEF Waiting, Octets
<1>4. lag # <<>> /\ Tail(lag) = <<c>> /\ Head(lag) = 0
  BY <1>3
<1>5. decoder' = Ground /\ code' = "VALIDPUSH" /\ lag' = <<c>> /\ decoder'.cp = 0
  <2>1. Take(<<Ground, "VALIDPUSH">>)
    BY <1>1, <1>2 DEF Ground
  <2>2. Ground.cp = 0
    BY DEF Ground, Decoder
  <2> QED BY <1>4, <2>1, <2>2, TakeFacts
<1>6. ahead' = ahead
  BY <1>1, <1>5
<1>7. Reading' \/ Shortly'
  BY <1>1, <1>3, <1>5, <1>6 DEF Reading, Shortly
<1> QED BY <1>1, <1>4, <1>5, <1>6, <1>7 DEF CodecInv, RoundTripStep

LEMMA DecodeEndStep ==
  ASSUME CodecInv, DecodeEnd
  PROVE  CodecInv' /\ RoundTripStep
<1>1. /\ flags \in FlagSets /\ next \in Bytes \cup {End} /\ ahead = <<>> /\ decoder.st # "GROUND"
      /\ flags' = flags /\ next' = next /\ ahead' = ahead /\ ahead \in Seq(Octets)
      /\ Take(unvisEnd(decoder))
  BY DEF CodecInv, DecodeEnd
<1>2. Shortly
  BY <1>1 DEF CodecInv, Idle, Reading, Waiting
<1>3. decoder = Decoder("OCTAL2", 0) /\ lag = <<0>>
  <2>1. Len(<<>>) = 0 /\ Len(<<ch.zero>>) = 1
    OBVIOUS
  <2> QED BY <1>1, <1>2, <2>1 DEF Shortly, Shortened
<1>4. unvisEnd(decoder) = <<Decoder("GROUND", 0), "VALID">>
  BY <1>3 DEF unvisEnd, Decoder
<1>5. lag # <<>> /\ Head(lag) = 0 /\ Tail(lag) = <<>>
  BY <1>3
<1>6. decoder' = Decoder("GROUND", 0) /\ code' = "VALID" /\ lag' = <<>>
  BY <1>1, <1>4, <1>5, TakeFacts
<1>7. decoder'.st = "GROUND" /\ decoder'.cp = 0
  BY <1>6 DEF Decoder
<1>8. Idle'
  BY <1>1, <1>6, <1>7 DEF Idle
<1> QED BY <1>1, <1>5, <1>6, <1>7, <1>8 DEF CodecInv, RoundTripStep

LEMMA CodecStep ==
  ASSUME NamesRight, \A f \in FlagSets : Decodable(f), CodecInv, [Next]_vars
  PROVE  CodecInv' /\ [RoundTripStep]_vars
<1>0. Decodable(flags)
  BY DEF CodecInv
<1>1. ASSUME NEW n \in Bytes \cup {End}, EncodeByte(n) \/ \E j \in DOMAIN nv : EncodeName(j, n)
      PROVE  CodecInv' /\ RoundTripStep
  <2>1. CodecInv'
    BY <1>1, EncodeSteps
  <2>2. ahead = <<>> /\ next # End
    BY <1>1 DEF EncodeByte, EncodeName
  <2>3. ~DecodeByte /\ ~DecodeEnd
    BY <2>2 DEF DecodeByte, DecodeEnd
  <2> QED BY <2>1, <2>3 DEF RoundTripStep
<1>2. CASE DecodeByte
  <2>1. ~Idle
    BY <1>2 DEF DecodeByte, Idle
  <2> QED BY <1>0, <1>2, <2>1, DecodeReading, DecodeShortly, DecodeWaiting DEF CodecInv
<1>3. CASE DecodeEnd
  BY <1>3, DecodeEndStep
<1>4. CASE UNCHANGED vars
  <2>1. CodecInv'
    BY <1>4 DEF CodecInv, Idle, Reading, Shortly, Waiting, vars
  <2> QED BY <1>4, <2>1
<1> QED BY <1>1, <1>2, <1>3, <1>4 DEF Next

(***************************************************************************)
(* Whatever bytes and names are written, in any number and order, and      *)
(* with whatever decodable flags: nothing is refused, and every byte that  *)
(* unvis says it has decoded is the oldest that is not decoded yet.        *)
(***************************************************************************)
THEOREM RoundTripCorrect ==
  ASSUME NamesRight, \A f \in FlagSets : Decodable(f)
  PROVE  Spec => RoundTrip
<1>1. CodecInv /\ [Next]_vars => CodecInv' /\ [RoundTripStep]_vars
  BY CodecStep
<1> QED BY InitCodec, <1>1, PTL DEF Spec, RoundTrip, RoundTripStep

(* And between bytes nothing is missing.                                   *)
THEOREM NothingLostCorrect ==
  ASSUME NamesRight, \A f \in FlagSets : Decodable(f)
  PROVE  Spec => []NothingLost
<1>1. CodecInv /\ [Next]_vars => CodecInv'
  BY CodecStep
<1>2. CodecInv => NothingLost
  BY DEF CodecInv, Idle, Reading, Shortly, Shortened, Waiting, NothingLost, Decoder
<1> QED BY InitCodec, <1>1, <1>2, PTL DEF Spec

-----------------------------------------------------------------------------
(* What is put together of parts, one after the other.                     *)
Joined(h, parts, n) ==
  /\ h[0] = <<>> /\ \A k \in 1..n : h[k] = h[k - 1] \o parts[k]
  
LEMMA Flattened ==
  ASSUME NEW S, NEW n \in Nat, NEW parts \in [1..n -> Seq(S)]
  PROVE  \E h \in [0..n -> Seq(S)] : Joined(h, parts, n) /\ FlattenSeq(parts) = h[n]
<1> DEFINE step == [k \in 1..n |-> [s \in Seq(S) |-> s \o parts[k]]]
<1>1. step \in [1..n -> [Seq(S) -> Seq(S)]] /\ <<>> \in Seq(S)
  BY ConcatProperties, EmptySeq
<1>2. PICK h : Stepped(h, Seq(S), <<>>, step, n)
  BY <1>1, Steps
<1>3. h \in [0..n -> Seq(S)] /\ h[0] = <<>> /\ \A k \in 1..n : h[k] = step[k][h[k - 1]]
  BY <1>2 DEF Stepped
<1>4. \A k \in 1..n : h[k - 1] \in Seq(S)
  BY <1>3
<1>5. Joined(h, parts, n)
  BY <1>3, <1>4 DEF Joined
<1>6. parts \in Seq(Seq(S)) /\ Len(parts) = n
  OBVIOUS
<1>7. CASE n = 0
  <2>1. FlattenSeq(parts) = parts /\ parts = <<>>
    BY <1>6, <1>7 DEF FlattenSeq
  <2> QED BY <1>3, <1>5, <1>7, <2>1
<1>8. CASE n # 0
  <2> DEFINE Body(f) == [i \in 1..n |-> IF i = 1 THEN parts[i] ELSE f[i - 1] \o parts[i]]
             flatten == CHOOSE f : f = Body(f)
             g == [i \in 1..n |-> h[i]]
  <2>0. 1 \in 1..n /\ \A i \in 2..n : i \in 1..n /\ i - 1 \in 1..n /\ i # 1
    BY <1>8
  <2>1. g = Body(g)
    <3>1. g[1] = parts[1]
      <4>1. parts[1] \in Seq(S) /\ h[1] = h[0] \o parts[1]
        <5>1. parts[1] \in Seq(S)
          BY <2>0
        <5>2. h[1] = h[1 - 1] \o parts[1]
          BY <1>5, <2>0, Zenon DEF Joined
        <5> QED BY <5>1, <5>2
      <4>2. <<>> \o parts[1] = parts[1]
        BY <4>1, ConcatEmptySeq
      <4> QED BY <1>3, <2>0, <4>1, <4>2
    <3>2. \A i \in 2..n : g[i] = g[i - 1] \o parts[i]
      <4> SUFFICES ASSUME NEW i \in 2..n PROVE g[i] = g[i - 1] \o parts[i]
        OBVIOUS
      <4>1. h[i] = h[i - 1] \o parts[i]
        BY <1>5, <2>0 DEF Joined
      <4> QED BY <2>0, <4>1
    <3>3. \A i \in 1..n : i # 1 => i \in 2..n
      OBVIOUS
    <3>4. \A i \in 1..n : g[i] = IF i = 1 THEN parts[i] ELSE g[i - 1] \o parts[i]
      BY <3>1, <3>2, <3>3
    <3> HIDE DEF g
    <3>5. g = [i \in 1..n |-> g[i]]
      BY DEF g
    <3> QED BY <3>4, <3>5
  <2>2. flatten = Body(flatten)
    BY <2>1, Zenon
  <2>3. FlattenSeq(parts) = flatten[n]
    BY <1>6, <1>8, Zenon DEF FlattenSeq
  <2> HIDE DEF flatten
  <2>4. flatten[1] = parts[1] /\ \A i \in 2..n : flatten[i] = flatten[i - 1] \o parts[i]
    <3>1. \A i \in 1..n : flatten[i] = IF i = 1 THEN parts[i] ELSE flatten[i - 1] \o parts[i]
      BY <2>2
    <3> QED BY <2>0, <3>1
  <2>5. \A i \in Nat : i + 1 <= n => flatten[i + 1] = h[i + 1]
    <3> DEFINE P == {i \in Nat : i + 1 <= n => flatten[i + 1] = h[i + 1]}
    <3>1. 0 \in P
      <4>1. g[1] = parts[1] /\ g[1] = h[1]
        <5>1. g[1] = IF 1 = 1 THEN parts[1] ELSE g[1 - 1] \o parts[1]
          BY <2>0, <2>1
        <5> QED BY <2>0, <5>1
      <4> HIDE DEF g
      <4> QED BY <2>4, <4>1
    <3>2. ASSUME NEW i \in Nat, i \in P PROVE i + 1 \in P
      <4> SUFFICES ASSUME i + 1 + 1 <= n PROVE flatten[i + 1 + 1] = h[i + 1 + 1]
        OBVIOUS
      <4> DEFINE j == i + 1 + 1
      <4>1. j \in 2..n /\ j \in 1..n /\ j - 1 = i + 1 /\ flatten[i + 1] = h[i + 1]
        BY <3>2
      <4> HIDE DEF j
      <4>2. flatten[j] = flatten[j - 1] \o parts[j] /\ h[j] = h[j - 1] \o parts[j]
        BY <1>5, <2>4, <4>1 DEF Joined
      <4> QED BY <4>1, <4>2 DEF j
    <3> HIDE DEF P
    <3>3. \A i \in Nat : i \in P
      BY <3>1, <3>2, InductionOnSet, Zenon
    <3> QED BY <3>3 DEF P
  <2>6. flatten[n] = h[n]
    <3>1. n - 1 \in Nat /\ n - 1 + 1 = n
      BY <1>8
    <3>2. n - 1 + 1 <= n => flatten[n - 1 + 1] = h[n - 1 + 1]
      BY <2>5, <3>1
    <3> QED BY <3>1, <3>2
  <2> QED BY <1>3, <1>5, <2>3, <2>6
<1> QED BY <1>7, <1>8

(* A prefix is shorter, and agrees wherever it is.                         *)
LEMMA PrefixIs ==
  ASSUME NEW S, NEW s \in Seq(S), NEW t \in Seq(S)
  PROVE  IsPrefix(s, t) <=> Len(s) <= Len(t) /\ \A i \in 1..Len(s) : s[i] = t[i]
<1> DEFINE n == Len(s)
<1>1. n \in Nat /\ Len(t) \in Nat
  BY LenProperties
<1>2. SubSeq(s, 1, n) = s
  BY SubSeqFull
<1> SUFFICES ASSUME n <= Len(t)
             PROVE  s = SubSeq(t, 1, n) <=> \A i \in 1..n : s[i] = t[i]
  BY <1>2, Zenon DEF IsPrefix
<1>3. \A i \in 1..n : t[i] \in S
  <2> SUFFICES ASSUME NEW i \in 1..n PROVE t[i] \in S
    OBVIOUS
  <2>1. i \in 1..Len(t)
    BY <1>1
  <2> QED BY <2>1, ElementOfSeq
<1> DEFINE u == SubSeq(t, 1, n)
<1>4. u \in Seq(S) /\ Len(u) = n /\ \A i \in 1..n : u[i] = t[i]
  <2>1. /\ u \in Seq(S)
        /\ Len(u) = IF 1 <= n THEN n - 1 + 1 ELSE 0
        /\ \A i \in 1..n - 1 + 1 : u[i] = t[1 + i - 1]
    BY <1>1, <1>3, SubSeqProperties
  <2> HIDE DEF u
  <2>2. Len(u) = n
    BY <1>1, <2>1
  <2>3. \A i \in 1..n : i \in 1..n - 1 + 1 /\ 1 + i - 1 = i
    BY <1>1
  <2> QED BY <2>1, <2>2, <2>3
<1> HIDE DEF u
<1>5. (\A i \in 1..n : s[i] = t[i]) => s = u
  <2> SUFFICES ASSUME \A i \in 1..n : s[i] = t[i] PROVE s = u
    OBVIOUS
  <2>1. \A i \in 1..Len(s) : s[i] = u[i]
    BY <1>4
  <2> HIDE DEF n
  <2>2. Len(s) = Len(u)
    BY <1>4 DEF n
  <2> QED BY <1>4, <2>1, <2>2, SeqEqual
<1> QED BY <1>4, <1>5 DEF u

(* The first n elements.                                                   *)
LEMMA Beginning ==
  ASSUME NEW S, NEW s \in Seq(S), NEW n \in Int, n <= Len(s)
  PROVE  /\ SubSeq(s, 1, n) \in Seq(S)
         /\ Len(SubSeq(s, 1, n)) = IF n < 0 THEN 0 ELSE n
         /\ \A i \in 1..Len(SubSeq(s, 1, n)) : SubSeq(s, 1, n)[i] = s[i]
<1>1. Len(s) \in Nat /\ \A i \in 1..n : s[i] \in S
  <2>1. Len(s) \in Nat
    BY LenProperties
  <2> SUFFICES ASSUME NEW i \in 1..n PROVE s[i] \in S
    BY <2>1
  <2>2. i \in 1..Len(s)
    BY <2>1
  <2> QED BY <2>2, ElementOfSeq
<1> DEFINE u == SubSeq(s, 1, n)
<1>2. /\ u \in Seq(S)
      /\ Len(u) = IF 1 <= n THEN n - 1 + 1 ELSE 0
      /\ \A i \in 1..n - 1 + 1 : u[i] = s[1 + i - 1]
  BY <1>1, SubSeqProperties
<1> HIDE DEF u
<1>3. Len(u) = IF n < 0 THEN 0 ELSE n
  BY <1>2
<1>4. \A i \in 1..Len(u) : i \in 1..n - 1 + 1 /\ 1 + i - 1 = i
  BY <1>3
<1> QED BY <1>2, <1>3, <1>4 DEF u

LEMMA PrefixSelf ==
  ASSUME NEW S, NEW s \in Seq(S)
  PROVE  IsPrefix(s, s)
<1>1. Len(s) \in Nat
  BY LenProperties
<1> QED BY <1>1, PrefixIs

-----------------------------------------------------------------------------
Chars == STRING \cup {"a"}

LEMMA PiecesTyped == Pieces \subseteq Seq(Chars)
<1> SUFFICES ASSUME NEW s \in Pieces PROVE s \in Seq(Chars)
  OBVIOUS
<1>1. s \in Seq(STRING) /\ STRING \subseteq Chars
  BY StringsAssumption DEF Chars
<1> QED BY <1>1, SeqMonotonic

(* The buffer that a path is put together in.                              *)
Cut(d, want, size) == IsPrefix(d, want) /\ (d # want => Len(d) >= size - 1)

(* Whoever looks knows.                                                    *)
Known(d, want, size, known) ==
  (d # want => known) /\ (known => d # want \/ Len(d) >= size)

LEMMA StrlcpyIs ==
  ASSUME NEW src \in Seq(Chars), NEW size \in Nat
  PROVE  LET r == strlcpy(src, size) IN
         /\ r.dst \in Seq(Chars) /\ r.reach \in Nat /\ r.reach <= size
         /\ r.ret = Len(src) /\ Len(src) \in Nat
         /\ Cut(r.dst, src, size) /\ Known(r.dst, src, size, r.ret >= size)
         /\ r.ret < size => r.dst = src
<1> DEFINE n == IF Len(src) < size - 1 THEN Len(src) ELSE size - 1
           kept == SubSeq(src, 1, n)
<1>1. Len(src) \in Nat /\ n \in Int /\ n <= Len(src) /\ (n = Len(src) \/ n = size - 1) /\ n <= size - 1
  BY LenProperties
<1>2. /\ strlcpy(src, size).dst = kept /\ strlcpy(src, size).ret = Len(src)
      /\ strlcpy(src, size).reach = IF size = 0 THEN 0 ELSE Len(kept) + 1
  BY Zenon DEF strlcpy, Least
<1> HIDE DEF n
<1>3. /\ kept \in Seq(Chars) /\ Len(kept) = (IF n < 0 THEN 0 ELSE n)
      /\ \A i \in 1..Len(kept) : kept[i] = src[i]
  BY <1>1, Beginning
<1> HIDE DEF kept
<1>4. IsPrefix(kept, src)
  <2>1. Len(kept) <= Len(src)
    BY <1>1, <1>3
  <2> QED BY <1>3, <2>1, PrefixIs
<1>5. n = Len(src) => kept = src
  <2> SUFFICES ASSUME n = Len(src) PROVE kept = src
    OBVIOUS
  <2>1. Len(kept) = Len(src)
    BY <1>1, <1>3
  <2> QED BY <1>3, <2>1, SeqEqual
<1>6. kept # src => Len(kept) >= size - 1 /\ Len(src) >= size
  BY <1>1, <1>3, <1>5
<1>7. Len(src) >= size => kept # src \/ Len(kept) >= size
  BY <1>1, <1>3
<1>8. Len(src) < size => kept = src
  BY <1>1, <1>5 DEF n
<1>9. strlcpy(src, size).reach \in Nat /\ strlcpy(src, size).reach <= size
  BY <1>1, <1>2, <1>3
<1> QED BY <1>1, <1>2, <1>3, <1>4, <1>6, <1>7, <1>8, <1>9 DEF Cut, Known

Catted(r, d, want, all, size, known) ==
  /\ r.dst \in Seq(Chars) /\ r.reach \in Nat /\ r.reach <= size /\ r.ret \in Nat
  /\ all \in Seq(Chars)
  /\ Cut(r.dst, all, size)
  /\ r.dst # all => known \/ r.ret >= size
  /\ known \/ r.ret >= size => r.dst # all \/ Len(r.dst) >= size
  /\ r.ret < size /\ d = want => r.dst = all

LEMMA StrlcatIs ==
  ASSUME NEW d \in Seq(Chars), NEW want \in Seq(Chars), NEW src \in Seq(Chars), NEW size \in Nat,
         NEW known \in BOOLEAN, Cut(d, want, size), Known(d, want, size, known)
  PROVE  Catted(strlcat(d, src, size), d, want, want \o src, size, known)
<1> DEFINE dlen == IF Len(d) < size THEN Len(d) ELSE size
           room == size - dlen - 1
           n == IF Len(src) < room THEN Len(src) ELSE room
           kept == SubSeq(src, 1, n)
           r == strlcat(d, src, size)
           all == want \o src
<1>1. Len(d) \in Nat /\ Len(want) \in Nat /\ Len(src) \in Nat
  BY LenProperties
<1>2. /\ all \in Seq(Chars) /\ Len(all) = Len(want) + Len(src)
      /\ \A i \in 1..Len(want) + Len(src) : all[i] = IF i <= Len(want) THEN want[i] ELSE src[i - Len(want)]
  BY ConcatProperties
<1>3. Len(d) <= Len(want) /\ \A i \in 1..Len(d) : d[i] = want[i]
  BY PrefixIs DEF Cut
<1> HIDE DEF all
<1>4. IsPrefix(d, all)
  <2>1. Len(d) <= Len(all) /\ \A i \in 1..Len(d) : i \in 1..Len(want) + Len(src) /\ i <= Len(want)
    BY <1>1, <1>2, <1>3
  <2>2. \A i \in 1..Len(d) : d[i] = all[i]
    BY <1>2, <1>3, <2>1
  <2> QED BY <1>2, <2>1, <2>2, PrefixIs
<1>5. CASE Len(d) >= size
  <2>1. dlen = size
    BY <1>1, <1>5
  <2>2. r.dst = d /\ r.ret = size + Len(src) /\ r.reach = 0
    BY <2>1, Zenon DEF strlcat, Least
  <2>3. r.ret >= size /\ Len(d) >= size - 1
    BY <1>1, <1>5, <2>2
  <2>4. ~(r.ret < size)
    BY <1>1, <2>2
  <2> QED BY <1>1, <1>2, <1>4, <1>5, <2>2, <2>3, <2>4 DEF Cut, Known, Catted, all, r
<1>6. CASE Len(d) < size
  <2>1. dlen = Len(d) /\ dlen # size /\ room = size - Len(d) - 1 /\ room \in Nat
    BY <1>1, <1>6
  <2>2. r.dst = d \o kept /\ r.ret = dlen + Len(src) /\ r.reach = dlen + Len(kept) + 1
    BY <2>1, Zenon DEF strlcat, Least
  <2> HIDE DEF room, dlen
  <2>3. n \in Nat /\ n <= Len(src) /\ (n = Len(src) \/ n = room) /\ n <= room
    BY <1>1, <2>1
  <2>4. kept \in Seq(Chars) /\ Len(kept) = n /\ \A i \in 1..n : kept[i] = src[i]
    BY <2>3, Beginning
  <2> HIDE DEF kept, n, r
  <2>5. /\ d \o kept \in Seq(Chars) /\ Len(d \o kept) = Len(d) + n
        /\ \A i \in 1..Len(d) + n : (d \o kept)[i] = IF i <= Len(d) THEN d[i] ELSE kept[i - Len(d)]
    <3>1. /\ d \o kept \in Seq(Chars) /\ Len(d \o kept) = Len(d) + Len(kept)
          /\ \A i \in 1..Len(d) + Len(kept) : (d \o kept)[i] = IF i <= Len(d) THEN d[i] ELSE kept[i - Len(d)]
      BY <2>4, ConcatProperties
    <3> QED BY <2>4, <3>1
  <2>6. CASE d # want
    <3>1. Len(d) >= size - 1
      BY <2>6 DEF Cut
    <3>2. room = 0 /\ n = 0
      BY <1>1, <1>6, <2>1, <2>3, <3>1
    <3>3. kept = <<>>
      <4>1. Len(kept) = 0
        BY <2>4, <3>2
      <4> QED BY <2>4, <4>1, EmptySeq
    <3>4. d \o kept = d
      BY <3>3, ConcatEmptySeq
    <3>5. d # all
      <4> SUFFICES ASSUME d = all PROVE FALSE
        OBVIOUS
      <4>1. Len(d) = Len(want)
        BY <1>1, <1>2, <1>3
      <4>2. d = want
        BY <1>3, <4>1, SeqEqual
      <4> QED BY <2>6, <4>2
    <3>6. known
      BY <2>6 DEF Known
    <3>7. r.dst = d /\ r.ret = Len(d) + Len(src) /\ r.reach = Len(d) + 1
      BY <1>1, <2>1, <2>2, <2>4, <3>2, <3>4
    <3>8. r.reach \in Nat /\ r.reach <= size /\ r.ret \in Nat
      BY <1>1, <1>6, <3>7
    <3> QED BY <1>2, <1>4, <2>6, <3>1, <3>5, <3>6, <3>7, <3>8 DEF Cut, Known, Catted, all, r
  <2>7. CASE d = want
    <3>0. \A i \in 1..n : i \in 1..Len(src)
      BY <1>1, <2>3
    <3>1. \A i \in 1..Len(d) + n : (d \o kept)[i] = all[i]
      <4> SUFFICES ASSUME NEW i \in 1..Len(d) + n PROVE (d \o kept)[i] = all[i]
        OBVIOUS
      <4>1. i \in 1..Len(want) + Len(src)
        BY <1>1, <2>3, <2>7
      <4>2. CASE i <= Len(d)
        BY <1>2, <2>5, <2>7, <4>1, <4>2
      <4>3. CASE ~(i <= Len(d))
        <5>1. i - Len(d) \in 1..n
          BY <1>1, <2>3, <4>3
        <5>2. kept[i - Len(d)] = src[i - Len(d)]
          BY <2>4, <5>1
        <5> QED BY <1>2, <2>5, <2>7, <4>1, <4>3, <5>2
      <4> QED BY <4>2, <4>3
    <3>2. IsPrefix(d \o kept, all)
      <4>1. Len(d \o kept) <= Len(all)
        BY <1>1, <1>2, <2>3, <2>5, <2>7
      <4>2. \A i \in 1..Len(d \o kept) : (d \o kept)[i] = all[i]
        BY <2>5, <3>1
      <4> QED BY <1>2, <2>5, <4>1, <4>2, PrefixIs
    <3>3. n = Len(src) => d \o kept = all
      <4> SUFFICES ASSUME n = Len(src) PROVE d \o kept = all
        OBVIOUS
      <4>1. Len(d \o kept) = Len(all)
        BY <1>2, <2>5, <2>7
      <4>2. \A i \in 1..Len(d \o kept) : (d \o kept)[i] = all[i]
        BY <2>5, <3>1
      <4> QED BY <1>2, <2>5, <4>1, <4>2, SeqEqual
    <3>4. r.ret = Len(d) + Len(src) /\ r.reach = Len(d) + n + 1
      BY <2>1, <2>2, <2>4
    <3>5. d \o kept # all => n # Len(src)
      BY <3>3
    <3>6. n # Len(src) => Len(src) > room /\ n = room
      BY <1>1, <2>1, <2>3 DEF n
    <3>7. d \o kept # all => Len(d) + n >= size - 1 /\ Len(d) + Len(src) >= size
      BY <1>1, <1>6, <2>1, <3>5, <3>6
    <3>8. Len(d) + Len(src) >= size => d \o kept # all
      <4> SUFFICES ASSUME Len(d) + Len(src) >= size, d \o kept = all PROVE FALSE
        OBVIOUS
      <4>1. Len(d) + n = Len(d) + Len(src)
        BY <1>2, <2>5, <2>7
      <4> QED BY <1>1, <2>1, <2>3, <4>1
    <3>9. known => d \o kept # all
      BY <1>1, <1>6, <2>7 DEF Known
    <3>10. Len(d) + Len(src) < size => d \o kept = all
      BY <1>1, <3>7
    <3>11. Len(d) + n + 1 \in Nat /\ Len(d) + n + 1 <= size /\ Len(d) + Len(src) \in Nat
      BY <1>1, <2>1, <2>3
    <3> QED BY <1>2, <2>2, <2>5, <3>2, <3>4, <3>7, <3>8, <3>9, <3>10, <3>11 DEF Cut, Known, Catted, all, r
  <2> QED BY <2>6, <2>7
<1> QED BY <1>1, <1>5, <1>6

BufferSays ==
  /\ siz \in Nat /\ dst \in Seq(Chars) /\ asked \in Seq(Chars) /\ told \in BOOLEAN
  /\ reach \in Nat /\ reach <= siz
  /\ Cut(dst, asked, siz) /\ Known(dst, asked, siz, told)

PathInv ==
  /\ BufferSays
  /\ lenient \in BOOLEAN /\ running \in BOOLEAN /\ (~lenient => efunc # "own")
  /\ running /\ ~lenient => (siz > 0 => dst = asked) /\ (held.null => held.size = 0)

LEMMA PathKept == ASSUME PathInv, UNCHANGED <<pathVars, efunVars>> PROVE PathInv'
BY DEF PathInv, BufferSays, pathVars, efunVars, Cut, Known, IsPrefix

LEMMA InitPath == StringInit => PathInv
<1> SUFFICES ASSUME StringInit PROVE PathInv
  OBVIOUS
<1>1. siz \in Nat /\ dst = <<>> /\ asked = <<>> /\ told = FALSE /\ reach = 0
  BY StringsAssumption DEF StringInit
<1>2. efunc = "err" /\ lenient = FALSE /\ running = TRUE /\ held.null = FALSE
  BY DEF StringInit
<1>3. <<>> \in Seq(Chars) /\ Len(<<>>) = 0
  BY EmptySeq
<1>4. IsPrefix(<<>>, <<>>)
  BY <1>3, PrefixSelf
<1>5. BufferSays
  <2>1. Cut(dst, asked, siz) /\ Known(dst, asked, siz, told)
    BY <1>1, <1>4, Zenon DEF Cut, Known
  <2>2. told \in BOOLEAN
    BY <1>1, Zenon
  <2>3. reach \in Nat /\ reach <= siz
    BY <1>1
  <2>4. dst \in Seq(Chars) /\ asked \in Seq(Chars)
    BY <1>1, <1>3, Zenon
  <2> QED BY <1>1, <2>1, <2>2, <2>3, <2>4 DEF BufferSays
<1> QED BY <1>1, <1>2, <1>5 DEF PathInv

(* A copy.                                                                 *)
LEMMA CopySays ==
  ASSUME PathInv, NEW src \in Pieces, Stored(strlcpy(src, siz), src, FALSE)
  PROVE  /\ BufferSays' /\ siz' = siz
         /\ ~(strlcpy(src, siz).ret >= siz) => dst' = asked'
<1> DEFINE r == strlcpy(src, siz)
<1>1. src \in Seq(Chars) /\ siz \in Nat
  BY PiecesTyped DEF PathInv, BufferSays
<1>2. /\ r.dst \in Seq(Chars) /\ r.reach \in Nat /\ r.reach <= siz
      /\ r.ret = Len(src) /\ Len(src) \in Nat
      /\ Cut(r.dst, src, siz) /\ Known(r.dst, src, siz, r.ret >= siz)
      /\ r.ret < siz => r.dst = src
  BY <1>1, StrlcpyIs
<1>3. dst' = r.dst /\ reach' = r.reach /\ asked' = src /\ told' = (FALSE \/ r.ret >= siz) /\ siz' = siz
  BY DEF Stored
<1> HIDE DEF r
<1>4. told' = (r.ret >= siz) /\ told' \in BOOLEAN
  BY <1>3
<1>5. BufferSays'
  BY <1>1, <1>2, <1>3, <1>4 DEF BufferSays, Cut, Known
<1> QED BY <1>1, <1>2, <1>3, <1>5 DEF r

LEMMA CatSays ==
  ASSUME PathInv, NEW src \in Pieces, Stored(strlcat(dst, src, siz), asked \o src, told)
  PROVE  /\ BufferSays' /\ siz' = siz
         /\ ~(strlcat(dst, src, siz).ret >= siz) /\ dst = asked => dst' = asked'
<1> DEFINE r == strlcat(dst, src, siz)
           all == asked \o src
<1>1. /\ src \in Seq(Chars) /\ siz \in Nat /\ dst \in Seq(Chars) /\ asked \in Seq(Chars) /\ told \in BOOLEAN
      /\ Cut(dst, asked, siz) /\ Known(dst, asked, siz, told)
  BY PiecesTyped DEF PathInv, BufferSays
<1>2. Catted(r, dst, asked, all, siz, told)
  BY <1>1, StrlcatIs, Zenon
<1>3. dst' = r.dst /\ reach' = r.reach /\ asked' = all /\ told' = (told \/ r.ret >= siz) /\ siz' = siz
  BY DEF Stored
<1> HIDE DEF r, all
<1>4. told' \in BOOLEAN
  BY <1>3
<1>5. BufferSays'
  BY <1>1, <1>2, <1>3, <1>4 DEF BufferSays, Cut, Known, Catted
<1> QED BY <1>1, <1>2, <1>3, <1>5 DEF r, Catted

LEMMA PathStep ==
  ASSUME PathInv, StringNext
  PROVE  PathInv'
<1>1. ASSUME NEW src \in Pieces, Strlcpy(src) PROVE PathInv'
  <2>1. BufferSays'
    BY <1>1, CopySays DEF Strlcpy
  <2>2. lenient' = TRUE /\ UNCHANGED running
    BY <1>1 DEF Strlcpy
  <2> QED BY <2>1, <2>2 DEF PathInv
<1>2. ASSUME NEW src \in Pieces, Strlcat(src) PROVE PathInv'
  <2>1. BufferSays'
    BY <1>2, CatSays DEF Strlcat
  <2>2. lenient' = TRUE /\ UNCHANGED running
    BY <1>2 DEF Strlcat
  <2> QED BY <2>1, <2>2 DEF PathInv
<1>3. ASSUME NEW src \in Pieces, Estrlcpy(src) PROVE PathInv'
  <2> DEFINE toolong == strlcpy(src, siz).ret >= siz
  <2>1. BufferSays' /\ siz' = siz /\ (~toolong => dst' = asked')
    BY <1>3, CopySays DEF Estrlcpy
  <2>2. running /\ Efailed(toolong)
    BY <1>3 DEF Estrlcpy, Building
  <2> HIDE DEF toolong
  <2>3. UNCHANGED <<efunc, lenient, held>> /\ running' = IF toolong THEN efunc = "own" ELSE running
    BY <2>2 DEF Efailed, Efunc
  <2> QED BY <2>1, <2>2, <2>3 DEF PathInv
<1>4. ASSUME NEW src \in Pieces, Estrlcat(src) PROVE PathInv'
  <2> DEFINE toolong == strlcat(dst, src, siz).ret >= siz
  <2>1. BufferSays' /\ siz' = siz /\ (~toolong /\ dst = asked => dst' = asked')
    BY <1>4, CatSays DEF Estrlcat
  <2>2. running /\ Efailed(toolong)
    BY <1>4 DEF Estrlcat, Building
  <2> HIDE DEF toolong
  <2>3. UNCHANGED <<efunc, lenient, held>> /\ running' = IF toolong THEN efunc = "own" ELSE running
    BY <2>2 DEF Efailed, Efunc
  <2> QED BY <2>1, <2>2, <2>3 DEF PathInv
<1>5. CASE Fill
  <2> DEFINE full == [i \in 1..siz |-> "a"]
  <2>1. siz \in Nat /\ siz' = siz /\ dst' = full /\ asked' = full /\ UNCHANGED <<told, reach, efunVars>>
    BY <1>5 DEF Fill, PathInv, BufferSays
  <2>2. full \in Seq(Chars) /\ Len(full) = siz
    <3>1. "a" \in Chars
      BY DEF Chars
    <3> QED BY <2>1, <3>1
  <2> HIDE DEF full
  <2>3. IsPrefix(full, full)
    BY <2>2, PrefixSelf
  <2>4. BufferSays'
    BY <2>1, <2>2, <2>3 DEF PathInv, BufferSays, Cut, Known
  <2> QED BY <2>1, <2>4 DEF PathInv, efunVars
<1>6. ASSUME NEW f, esetfunc(f) PROVE PathInv'
  <2>1. BufferSays'
    BY <1>6 DEF PathInv, BufferSays, esetfunc, pathVars, Cut, Known, IsPrefix
  <2>2. efunc' = (IF f = "NULL" THEN "exit" ELSE f) /\ lenient' = (lenient \/ f = "own") /\ UNCHANGED <<siz, dst, asked, running, held>>
    BY <1>6 DEF esetfunc, pathVars
  <2> QED BY <2>1, <2>2 DEF PathInv
<1>7. ASSUME NEW n \in 0..1, NEW s \in 0..1, NEW null \in BOOLEAN, Ealloc(n, s, null) PROVE PathInv'
  <2>1. BufferSays'
    BY <1>7 DEF PathInv, BufferSays, Ealloc, pathVars, Cut, Known, IsPrefix
  <2>2. /\ held'.null = null /\ held'.size = n * s /\ running /\ UNCHANGED <<siz, dst, asked, efunc, lenient>>
        /\ running' = IF null /\ n # 0 /\ s # 0 THEN efunc = "own" ELSE running
    BY <1>7 DEF Ealloc, pathVars, Building, Efunc
  <2>3. n = 0 \/ s = 0 => n * s = 0
    BY SMT
  <2> QED BY <2>1, <2>2, <2>3 DEF PathInv
<1>8. ASSUME NEW fails \in BOOLEAN, Einformed(fails) PROVE PathInv'
  <2>1. BufferSays'
    BY <1>8 DEF PathInv, BufferSays, Einformed, pathVars, Cut, Known, IsPrefix
  <2>2. /\ held'.null = fails /\ running /\ UNCHANGED <<siz, dst, asked, efunc, lenient>>
        /\ running' = IF fails THEN efunc = "own" ELSE running
    BY <1>8 DEF Einformed, pathVars, Building, Efunc
  <2> QED BY <2>1, <2>2 DEF PathInv
<1>9. CASE \/ \E c \in {"a", ":", "\\"} : AddText("escaped", c)
           \/ AddText("char", "a") \/ AddText("delim", ":")
           \/ TakeApart \/ Stresep
           \/ \E arg \in ShArgs, bufsize \in {2, 3, 5, 8, 9, 12, 15} : Shquote(arg, bufsize)
  <2>1. UNCHANGED <<pathVars, efunVars>>
    BY <1>9 DEF AddText, TakeApart, Stresep, Shquote, Separating
  <2> QED BY <2>1, PathKept
<1> QED BY <1>1, <1>2, <1>3, <1>4, <1>5, <1>6, <1>7, <1>8, <1>9 DEF StringNext, Edup, Ecall

LEMMA PathInvRight == PathInv => PathRight
<1>1. ASSUME PathInv PROVE PathRight
  BY <1>1 DEF PathInv, PathRight, BufferSays, Cut, Known
<1> QED BY <1>1

(* Where each part lies.                                                   *)
Lying(h, parts, n) ==
  /\ \A k \in 0..n : Len(h[k]) \in Nat /\ Len(h[k]) <= Len(h[n])
  /\ Len(h[0]) = 0
  /\ \A k \in 1..n : /\ Len(h[k]) = Len(h[k - 1]) + Len(parts[k]) /\ Len(parts[k]) \in Nat
                     /\ \A j \in 1..Len(parts[k]) : h[n][Len(h[k - 1]) + j] = parts[k][j]

LEMMA JoinedAt ==
  ASSUME NEW S, NEW n \in Nat, NEW parts \in [1..n -> Seq(S)], NEW h \in [0..n -> Seq(S)], Joined(h, parts, n)
  PROVE  Lying(h, parts, n)
<1> DEFINE Begun(m, k) ==
             /\ Len(h[k]) <= Len(h[m])
             /\ \A j \in 1..Len(h[k]) : h[m][j] = h[k][j]
           P == {m \in Nat : m <= n => \A k \in 0..m : Begun(m, k)}
<1>1. \A k \in 0..n : h[k] \in Seq(S) /\ Len(h[k]) \in Nat
  <2> SUFFICES ASSUME NEW k \in 0..n PROVE h[k] \in Seq(S) /\ Len(h[k]) \in Nat
    OBVIOUS
  <2>1. h[k] \in Seq(S)
    OBVIOUS
  <2> QED BY <2>1, LenProperties
<1>2. ASSUME NEW k \in 1..n
      PROVE  /\ parts[k] \in Seq(S) /\ Len(parts[k]) \in Nat /\ k - 1 \in 0..n
             /\ Len(h[k]) = Len(h[k - 1]) + Len(parts[k])
             /\ \A j \in 1..Len(h[k - 1]) + Len(parts[k]) :
                  h[k][j] = IF j <= Len(h[k - 1]) THEN h[k - 1][j] ELSE parts[k][j - Len(h[k - 1])]
  <2>1. parts[k] \in Seq(S) /\ k - 1 \in 0..n /\ h[k] = h[k - 1] \o parts[k]
    <3>1. h[k] = h[k - 1] \o parts[k]
      BY Zenon DEF Joined
    <3>2. parts[k] \in Seq(S) /\ k - 1 \in 0..n
      OBVIOUS
    <3> QED BY <3>1, <3>2
  <2>2. h[k - 1] \in Seq(S)
    BY <1>1, <2>1
  <2>3. Len(parts[k]) \in Nat
    BY <2>1, LenProperties
  <2>4. /\ Len(h[k - 1] \o parts[k]) = Len(h[k - 1]) + Len(parts[k])
        /\ \A j \in 1..Len(h[k - 1]) + Len(parts[k]) :
             (h[k - 1] \o parts[k])[j] = IF j <= Len(h[k - 1]) THEN h[k - 1][j] ELSE parts[k][j - Len(h[k - 1])]
    BY <2>1, <2>2, ConcatProperties
  <2> QED BY <2>1, <2>3, <2>4
<1>3. 0 \in P
  BY <1>1
<1>4. ASSUME NEW m \in Nat, m \in P PROVE m + 1 \in P
  <2> SUFFICES ASSUME m + 1 <= n, NEW k \in 0..m + 1 PROVE Begun(m + 1, k)
    OBVIOUS
  <2> DEFINE i == m + 1
  <2>0. i \in 1..n /\ i - 1 = m /\ m \in 0..n
    OBVIOUS
  <2>1. CASE k = m + 1
    BY <1>1, <2>0, <2>1
  <2>2. CASE k # m + 1
    <3>1. k \in 0..m /\ k \in 0..n /\ Begun(m, k)
      BY <1>4, <2>0, <2>2
    <3> HIDE DEF i
    <3>2. /\ Len(parts[i]) \in Nat /\ Len(h[i]) = Len(h[m]) + Len(parts[i])
          /\ \A j \in 1..Len(h[m]) + Len(parts[i]) : h[i][j] = IF j <= Len(h[m]) THEN h[m][j] ELSE parts[i][j - Len(h[m])]
      BY <1>2, <2>0
    <3>3. Len(h[m]) \in Nat /\ Len(h[k]) \in Nat
      BY <1>1, <2>0, <3>1
    <3>4. Begun(i, k)
      <4>0. Len(h[k]) <= Len(h[m]) /\ \A j \in 1..Len(h[k]) : h[m][j] = h[k][j]
        BY <3>1
      <4> DEFINE a == Len(h[m])
                 b == Len(parts[i])
                 c == Len(h[k])
      <4>3. a \in Nat /\ b \in Nat /\ c \in Nat /\ c <= a
        BY <3>2, <3>3, <4>0
      <4>4. Len(h[i]) = a + b
        BY <3>2
      <4> HIDE DEF a, b, c
      <4>1. c <= Len(h[i])
        BY <4>3, <4>4
      <4>2. ASSUME NEW j \in 1..Len(h[k]) PROVE h[i][j] = h[k][j]
        <5>1. h[m][j] = h[k][j]
          BY <4>0
        <5>2. j \in 1..Len(h[m]) + Len(parts[i]) /\ j <= Len(h[m])
          <6>1. j \in 1..a + b /\ j <= a
            BY <4>3 DEF c
          <6> QED BY <6>1 DEF a, b
        <5> QED BY <3>2, <5>1, <5>2
      <4> QED BY <4>1, <4>2 DEF c
    <3> QED BY <3>4 DEF i
  <2> QED BY <2>1, <2>2
<1> HIDE DEF P
<1>5. \A m \in Nat : m \in P
  BY <1>3, <1>4, InductionOnSet, Zenon
<1>6. \A k \in 0..n : Begun(n, k)
  BY <1>5 DEF P
<1>7. Len(h[0]) = 0
  BY EmptySeq DEF Joined
<1>8. ASSUME NEW k \in 1..n
      PROVE  \A j \in 1..Len(parts[k]) : h[n][Len(h[k - 1]) + j] = parts[k][j]
  <2> SUFFICES ASSUME NEW j \in 1..Len(parts[k]) PROVE h[n][Len(h[k - 1]) + j] = parts[k][j]
    OBVIOUS
  <2> DEFINE i == Len(h[k - 1]) + j
  <2>1. i \in 1..Len(h[k - 1]) + Len(parts[k]) /\ i \in 1..Len(h[k]) /\ ~(i <= Len(h[k - 1])) /\ i - Len(h[k - 1]) = j
    BY <1>1, <1>2
  <2>2. h[n][i] = h[k][i]
    BY <1>6, <2>1
  <2> HIDE DEF i
  <2>3. h[k][i] = parts[k][j]
    BY <1>2, <2>1
  <2> QED BY <2>2, <2>3 DEF i
<1> QED BY <1>1, <1>2, <1>6, <1>7, <1>8 DEF Lying

-----------------------------------------------------------------------------
(* shquote, and what sh makes of it.                                       *)
Reads0 == [inside |-> FALSE, escaped |-> FALSE, word |-> <<>>]
ReadOf(S) == [inside : BOOLEAN, escaped : BOOLEAN, word : Seq(S)]
After(r, c) ==
  IF c = Quote /\ ~r.escaped THEN [r EXCEPT !.inside = ~@]
  ELSE IF c = "\\" /\ ~r.inside /\ ~r.escaped THEN [r EXCEPT !.escaped = TRUE]
  ELSE [r EXCEPT !.escaped = FALSE, !.word = Append(@, c)]

LEMMA AfterTyped ==
  ASSUME NEW S, NEW r \in ReadOf(S), NEW c \in S
  PROVE  After(r, c) \in ReadOf(S)
<1>1. Append(r.word, c) \in Seq(S)
  BY AppendProperties DEF ReadOf
<1>2. [r EXCEPT !.inside = ~@] \in ReadOf(S)
  BY DEF ReadOf
<1>3. [r EXCEPT !.escaped = TRUE] \in ReadOf(S)
  BY DEF ReadOf
<1>4. [r EXCEPT !.escaped = FALSE, !.word = Append(@, c)] \in ReadOf(S)
  BY <1>1 DEF ReadOf
<1> QED BY <1>2, <1>3, <1>4 DEF After

LEMMA ReadingIs ==
  ASSUME NEW S, NEW w \in Seq(S)
  PROVE  \E read \in [0..Len(w) -> ReadOf(S)] :
           /\ read[0] = Reads0 /\ ShRead(w) = read[Len(w)]
           /\ \A k \in 1..Len(w) : read[k] = After(read[k - 1], w[k])
<1> DEFINE n == Len(w)
           step == [k \in 1..n |-> [r \in ReadOf(S) |-> After(r, w[k])]]
           Body(f) == [k \in 0..n |-> IF k = 0 THEN Reads0 ELSE After(f[k - 1], w[k])]
           read == CHOOSE f : f = Body(f)
<1>1. n \in Nat /\ \A k \in 1..n : w[k] \in S
  BY LenProperties, ElementOfSeq
<1>2. Reads0 \in ReadOf(S)
  BY EmptySeq DEF Reads0, ReadOf
<1> HIDE DEF n
<1>3. step \in [1..n -> [ReadOf(S) -> ReadOf(S)]]
  BY <1>1, AfterTyped
<1>4. PICK f : Stepped(f, ReadOf(S), Reads0, step, n)
  BY <1>1, <1>2, <1>3, Steps
<1>5. f \in [0..n -> ReadOf(S)] /\ f[0] = Reads0 /\ \A k \in 1..n : f[k] = step[k][f[k - 1]]
  BY <1>4, Zenon DEF Stepped
<1>6. \A k \in 1..n : f[k] = After(f[k - 1], w[k])
  BY <1>1, <1>5
<1>7. f = Body(f)
  BY <1>1, <1>5, <1>6
<1>8. read = Body(read)
  BY <1>7, Zenon
<1> HIDE DEF read
<1>9. read[0] = Reads0 /\ \A k \in 1..n : read[k] = After(read[k - 1], w[k])
  BY <1>1, <1>8
<1>10. \A k \in Nat : k <= n => read[k] \in ReadOf(S)
  <2> DEFINE P == {k \in Nat : k <= n => read[k] \in ReadOf(S)}
  <2>1. 0 \in P
    BY <1>2, <1>9
  <2>2. ASSUME NEW k \in Nat, k \in P PROVE k + 1 \in P
    <3> SUFFICES ASSUME k + 1 <= n PROVE read[k + 1] \in ReadOf(S)
      OBVIOUS
    <3> DEFINE j == k + 1
    <3>1. j \in 1..n /\ j - 1 = k /\ read[k] \in ReadOf(S)
      BY <1>1, <2>2
    <3> HIDE DEF j
    <3>2. read[j] = After(read[k], w[j]) /\ w[j] \in S
      BY <1>1, <1>9, <3>1
    <3> QED BY <3>1, <3>2, AfterTyped DEF j
  <2> HIDE DEF P
  <2>3. \A k \in Nat : k \in P
    BY <2>1, <2>2, InductionOnSet, Zenon
  <2> QED BY <2>3 DEF P
<1>11. read \in [0..n -> ReadOf(S)]
  <2>1. read = [k \in 0..n |-> read[k]]
    BY <1>8, Zenon
  <2>2. \A k \in 0..n : read[k] \in ReadOf(S)
    BY <1>1, <1>10
  <2> QED BY <2>1, <2>2
<1>12. ShRead(w) = read[n]
  BY Zenon DEF ShRead, read, n, After, Reads0
<1> QED BY <1>9, <1>11, <1>12 DEF n

(* The final element is there or not.                                       *)
LEMMA CountOne ==
  ASSUME NEW n \in Nat, NEW T \in SUBSET (1..n), NEW k \in 1..n
  PROVE  /\ Cardinality(T \cap (1..k - 1)) \in Nat
         /\ Cardinality(T \cap (1..k)) =
              IF k \in T THEN Cardinality(T \cap (1..k - 1)) + 1 ELSE Cardinality(T \cap (1..k - 1))
<1> DEFINE before == T \cap (1..k - 1)
<1>1. IsFiniteSet(1..k - 1)
  BY FS_Interval
<1>2. IsFiniteSet(before)
  BY <1>1, FS_Intersection
<1>3. Cardinality(before) \in Nat
  BY <1>2, FS_CardinalityType
<1>4. CASE k \in T
  <2>1. T \cap (1..k) = before \cup {k} /\ k \notin before
    BY <1>4
  <2> HIDE DEF before
  <2>2. Cardinality(before \cup {k}) = Cardinality(before) + 1
    BY <1>2, <2>1, FS_AddElement
  <2> QED BY <1>3, <1>4, <2>1, <2>2 DEF before
<1>5. CASE k \notin T
  <2>1. T \cap (1..k) = before
    BY <1>5
  <2> QED BY <1>3, <1>5, <2>1
<1> QED BY <1>4, <1>5

InQuotes(c) == IF c = Quote THEN <<Quote, "\\", Quote, Quote>> ELSE <<c>>

LEMMA InQuotesIs ==
  ASSUME NEW S, Quote \in S, "\\" \in S, NEW c \in S
  PROVE  /\ InQuotes(c) \in Seq(S)
         /\ Len(InQuotes(c)) = IF c = Quote THEN 4 ELSE 1
         /\ c = Quote => /\ InQuotes(c)[1] = Quote /\ InQuotes(c)[2] = "\\"
                         /\ InQuotes(c)[3] = Quote /\ InQuotes(c)[4] = Quote
         /\ c # Quote => InQuotes(c)[1] = c
<1>1. CASE c = Quote
  <2>1. InQuotes(c) = <<Quote, "\\", Quote, Quote>>
    BY <1>1 DEF InQuotes
  <2> QED BY <1>1, <2>1
<1>2. CASE c # Quote
  <2>1. InQuotes(c) = <<c>>
    BY <1>2 DEF InQuotes
  <2> QED BY <1>2, <2>1
<1> QED BY <1>1, <1>2

(* A quoted character, read between quotes.                                *)
InWord(word) == [inside |-> TRUE, escaped |-> FALSE, word |-> word]

LEMMA AfterIs ==
  ASSUME NEW word, NEW c
  PROVE  /\ c # Quote => After(InWord(word), c) = InWord(Append(word, c))
         /\ After(Reads0, Quote) = InWord(<<>>)
         /\ After(InWord(word), Quote) = [inside |-> FALSE, escaped |-> FALSE, word |-> word]
         /\ After([inside |-> FALSE, escaped |-> FALSE, word |-> word], "\\") =
              [inside |-> FALSE, escaped |-> TRUE, word |-> word]
         /\ After([inside |-> FALSE, escaped |-> TRUE, word |-> word], Quote) =
              [inside |-> FALSE, escaped |-> FALSE, word |-> Append(word, Quote)]
         /\ After([inside |-> FALSE, escaped |-> FALSE, word |-> Append(word, Quote)], Quote) =
              InWord(Append(word, Quote))
<1>1. Quote # "\\"
  BY DEF Quote
<1> QED BY <1>1 DEF After, InWord, Reads0

LEMMA QuotedIs ==
  ASSUME NEW S, Quote \in S, "\\" \in S, NEW arg \in Seq(S)
  PROVE  /\ Quoted(arg) \in Seq(S)
         /\ Len(Quoted(arg)) = 2 + Len(arg) + 3 * Cardinality({i \in DOMAIN arg : arg[i] = Quote})
         /\ Len(Quoted(arg)) \in Nat
         /\ ShRead(Quoted(arg)) = [inside |-> FALSE, escaped |-> FALSE, word |-> arg]
<1> DEFINE n == Len(arg)
           parts == [i \in 1..n |-> InQuotes(arg[i])]
           quotes == {i \in 1..n : arg[i] = Quote}
           w == Quoted(arg)
<1>1. n \in Nat /\ DOMAIN arg = 1..n /\ \A i \in 1..n : arg[i] \in S
  BY LenProperties, ElementOfSeq
<1> HIDE DEF n
<1>2. parts \in [1..n -> Seq(S)]
  BY <1>1, InQuotesIs
<1>3. PICK h \in [0..n -> Seq(S)] : Joined(h, parts, n) /\ FlattenSeq(parts) = h[n]
  BY <1>1, <1>2, Flattened
<1> DEFINE len == [k \in 0..n |-> Len(h[k])]
<1> HIDE DEF parts
<1>4. /\ len \in [0..n -> Nat] /\ len[0] = 0 /\ len[n] = Len(h[n]) /\ len[n] \in Nat
      /\ \A k \in 0..n : len[k] \in Nat /\ len[k] <= len[n]
      /\ \A k \in 1..n : /\ len[k] = len[k - 1] + Len(parts[k]) /\ Len(parts[k]) \in Nat
                         /\ \A j \in 1..Len(parts[k]) : h[n][len[k - 1] + j] = parts[k][j]
  <2>1. Lying(h, parts, n)
    BY <1>1, <1>2, <1>3, JoinedAt, Zenon
  <2>2. \A k \in 1..n : k - 1 \in 0..n /\ k \in 0..n
    BY <1>1
  <2>3. \A k \in 0..n : len[k] = Len(h[k])
    OBVIOUS
  <2>4. 0 \in 0..n /\ n \in 0..n
    BY <1>1
  <2>5. len \in [0..n -> Nat]
    BY <2>1 DEF Lying
  <2> HIDE DEF len
  <2> QED BY <2>1, <2>2, <2>3, <2>4, <2>5 DEF Lying
<1> HIDE DEF len
<1>5. h[n] \in Seq(S)
  BY <1>1, <1>3
<1>6. w = <<Quote>> \o h[n] \o <<Quote>>
  <2>1. parts = [i \in DOMAIN arg |-> IF arg[i] = Quote THEN <<Quote, "\\", Quote, Quote>> ELSE <<arg[i]>>]
    BY <1>1 DEF InQuotes, parts
  <2> QED BY <1>3, <2>1, Zenon DEF Quoted
<1>7. /\ w \in Seq(S) /\ Len(w) = len[n] + 2
      /\ w[1] = Quote /\ w[len[n] + 2] = Quote /\ \A j \in 1..len[n] : w[j + 1] = h[n][j]
  <2> DEFINE u == <<Quote>> \o h[n]
             q == <<Quote>>
  <2>1. q \in Seq(S) /\ Len(q) = 1 /\ q[1] = Quote
    OBVIOUS
  <2> HIDE DEF q
  <2>2. /\ q \o h[n] \in Seq(S) /\ Len(q \o h[n]) = Len(q) + Len(h[n])
        /\ \A i \in 1..Len(q) + Len(h[n]) : (q \o h[n])[i] = IF i <= Len(q) THEN q[i] ELSE h[n][i - Len(q)]
    BY <1>5, <2>1, ConcatProperties
  <2>3. u = q \o h[n] /\ w = u \o q
    BY <1>6 DEF q
  <2> DEFINE m == len[n]
  <2>4. m \in Nat
    BY <1>1, <1>4
  <2>5. u \in Seq(S) /\ Len(u) = 1 + m /\ u[1] = Quote /\ \A j \in 1..m : u[j + 1] = h[n][j]
    <3> HIDE DEF u, w
    <3>1. u \in Seq(S) /\ Len(u) = 1 + m /\ u[1] = Quote
      BY <1>4, <2>1, <2>2, <2>3, <2>4
    <3>2. ASSUME NEW j \in 1..m PROVE u[j + 1] = h[n][j]
      <4>1. j + 1 \in 1..Len(q) + Len(h[n]) /\ ~(j + 1 <= Len(q)) /\ j + 1 - Len(q) = j
        BY <1>4, <2>1, <2>4
      <4> QED BY <2>2, <2>3, <4>1
    <3> QED BY <3>1, <3>2
  <2> HIDE DEF u, w
  <2>6. /\ u \o q \in Seq(S) /\ Len(u \o q) = Len(u) + Len(q)
        /\ \A i \in 1..Len(u) + Len(q) : (u \o q)[i] = IF i <= Len(u) THEN u[i] ELSE q[i - Len(u)]
    BY <2>1, <2>5, ConcatProperties
  <2> HIDE DEF m
  <2>7. w \in Seq(S) /\ Len(w) = m + 2 /\ w[1] = Quote /\ w[m + 2] = Quote
    <3>1. 1 \in 1..Len(u) + Len(q) /\ m + 2 \in 1..Len(u) + Len(q) /\ ~(m + 2 <= Len(u)) /\ m + 2 - Len(u) = 1
      BY <2>1, <2>4, <2>5
    <3>2. (u \o q)[1] = u[1] /\ (u \o q)[m + 2] = q[1]
      BY <2>4, <2>5, <2>6, <3>1
    <3> QED BY <2>1, <2>3, <2>4, <2>5, <2>6, <3>2
  <2>8. ASSUME NEW j \in 1..m PROVE w[j + 1] = h[n][j]
    <3>1. j + 1 \in 1..Len(u) + Len(q) /\ j + 1 <= Len(u)
      BY <2>1, <2>4, <2>5
    <3>2. (u \o q)[j + 1] = u[j + 1]
      BY <2>6, <3>1
    <3> QED BY <2>3, <2>5, <3>2
  <2> QED BY <2>7, <2>8 DEF m
<1> HIDE DEF w
<1>8. ASSUME NEW k \in 1..n
      PROVE  /\ Len(parts[k]) = IF arg[k] = Quote THEN 4 ELSE 1
             /\ arg[k] = Quote => /\ parts[k][1] = Quote /\ parts[k][2] = "\\"
                                  /\ parts[k][3] = Quote /\ parts[k][4] = Quote
             /\ arg[k] # Quote => parts[k][1] = arg[k]
  <2>1. parts[k] = InQuotes(arg[k]) /\ arg[k] \in S
    BY <1>1 DEF parts
  <2> QED BY <2>1, InQuotesIs
<1>9. \A k \in Nat : k <= n => len[k] = k + 3 * Cardinality(quotes \cap (1..k))
  <2> DEFINE P == {k \in Nat : k <= n => len[k] = k + 3 * Cardinality(quotes \cap (1..k))}
  <2>1. 0 \in P
    <3>1. quotes \cap (1..0) = {}
      OBVIOUS
    <3>2. Cardinality(quotes \cap (1..0)) = 0
      BY <3>1, FS_EmptySet
    <3> HIDE DEF quotes
    <3> QED BY <1>4, <3>2
  <2>2. ASSUME NEW k \in Nat, k \in P PROVE k + 1 \in P
    <3> SUFFICES ASSUME k + 1 <= n PROVE len[k + 1] = k + 1 + 3 * Cardinality(quotes \cap (1..k + 1))
      OBVIOUS
    <3> DEFINE j == k + 1
               x == Cardinality(quotes \cap (1..k))
               y == Cardinality(quotes \cap (1..j))
    <3>1. j \in 1..n /\ j - 1 = k /\ len[k] = k + 3 * x
      BY <1>1, <2>2
    <3>2. quotes \in SUBSET (1..n) /\ (j \in quotes <=> arg[j] = Quote)
      BY <3>1
    <3> HIDE DEF j, quotes
    <3>3. x \in Nat /\ y = IF j \in quotes THEN x + 1 ELSE x
      <4>1. /\ Cardinality(quotes \cap (1..j - 1)) \in Nat
            /\ y = IF j \in quotes THEN Cardinality(quotes \cap (1..j - 1)) + 1 ELSE Cardinality(quotes \cap (1..j - 1))
        BY <1>1, <3>1, <3>2, CountOne
      <4> QED BY <3>1, <4>1
    <3>4. len[j] = len[k] + (IF arg[j] = Quote THEN 4 ELSE 1)
      BY <1>4, <1>8, <3>1
    <3> HIDE DEF x, y
    <3>5. len[j] = j + 3 * y
      BY <3>1, <3>2, <3>3, <3>4
    <3> QED BY <3>5 DEF j, y
  <2> HIDE DEF P
  <2>3. \A k \in Nat : k \in P
    BY <2>1, <2>2, InductionOnSet, Zenon
  <2> QED BY <2>3 DEF P
<1>10. Len(w) = 2 + n + 3 * Cardinality({i \in DOMAIN arg : arg[i] = Quote})
  <2>1. quotes \cap (1..n) = {i \in DOMAIN arg : arg[i] = Quote}
    BY <1>1
  <2>2. len[n] = n + 3 * Cardinality(quotes \cap (1..n))
    BY <1>1, <1>9
  <2> HIDE DEF quotes
  <2>3. Cardinality({i \in DOMAIN arg : arg[i] = Quote}) \in Nat
    <3>1. IsFiniteSet(1..n) /\ {i \in DOMAIN arg : arg[i] = Quote} \subseteq 1..n
      BY <1>1, FS_Interval
    <3> QED BY <3>1, FS_Subset, FS_CardinalityType
  <2> DEFINE x == Cardinality({i \in DOMAIN arg : arg[i] = Quote})
  <2>4. len[n] = n + 3 * x
    BY <2>1, <2>2
  <2>5. x \in Nat /\ Len(w) = len[n] + 2
    BY <1>7, <2>3
  <2> HIDE DEF x
  <2>6. Len(w) = 2 + n + 3 * x
    BY <1>1, <1>4, <2>4, <2>5
  <2> QED BY <2>6 DEF x
<1>11. PICK read \in [0..Len(w) -> ReadOf(S)] :
         /\ read[0] = Reads0 /\ ShRead(w) = read[Len(w)]
         /\ \A k \in 1..Len(w) : read[k] = After(read[k - 1], w[k])
  BY <1>7, ReadingIs
<1>12. \A k \in Nat : k <= n => read[1 + len[k]] = InWord(SubSeq(arg, 1, k))
  <2> DEFINE P == {k \in Nat : k <= n => read[1 + len[k]] = InWord(SubSeq(arg, 1, k))}
  <2>1. 0 \in P
    <3>1. len[n] \in Nat /\ len[0] = 0
      BY <1>1, <1>4
    <3>2. read[1] = After(read[1 - 1], w[1])
      <4>1. 1 \in 1..Len(w)
        BY <1>7, <3>1
      <4> QED BY <1>11, <4>1, Zenon
    <3>3. read[1] = InWord(<<>>)
      <4>1. read[1 - 1] = Reads0
        BY <1>11
      <4> QED BY <1>7, <3>2, <4>1, AfterIs, Zenon
    <3>4. SubSeq(arg, 1, 0) = <<>>
      BY SubSeqEmpty
    <3>5. 1 + len[0] = 1
      BY <3>1
    <3> QED BY <3>3, <3>4, <3>5
  <2>2. ASSUME NEW k \in Nat, k \in P PROVE k + 1 \in P
    <3> SUFFICES ASSUME k + 1 <= n PROVE read[1 + len[k + 1]] = InWord(SubSeq(arg, 1, k + 1))
      OBVIOUS
    <3> DEFINE j == k + 1
               p == 1 + len[k]
               word == SubSeq(arg, 1, k)
               c == arg[j]
    <3>1. j \in 1..n /\ j - 1 = k /\ k \in 0..n /\ read[p] = InWord(word)
      BY <1>1, <2>2
    <3>2. SubSeq(arg, 1, j) = Append(word, c)
      <4>1. SubSeq(arg, 1, j) = SubSeq(arg, 1, j - 1) \o <<arg[j]>>
        BY <3>1, SubSeqRecursiveSecond DEF n
      <4>2. word \in Seq(S) /\ c \in S
        <5>1. k <= Len(arg)
          BY <3>1 DEF n
        <5> QED BY <1>1, <3>1, <5>1, Beginning
      <4>3. Append(word, c) = word \o <<c>>
        BY <4>2, AppendIsConcat
      <4> QED BY <3>1, <4>1, <4>3
    <3> HIDE DEF j, word
    <3>3. p \in Nat /\ len[k] \in Nat /\ len[j] = len[k] + Len(parts[j]) /\ len[j] <= len[n] /\ len[n] \in Nat
      BY <1>1, <1>4, <3>1
    <3>4. \A i \in 1..Len(parts[j]) : w[p + i] = parts[j][i] /\ read[p + i] = After(read[p + i - 1], w[p + i])
      <4> SUFFICES ASSUME NEW i \in 1..Len(parts[j])
                   PROVE  w[p + i] = parts[j][i] /\ read[p + i] = After(read[p + i - 1], w[p + i])
        OBVIOUS
      <4>0. Len(parts[j]) \in Nat /\ h[n][len[k] + i] = parts[j][i]
        BY <1>4, <3>1
      <4> DEFINE o == len[k] + i
      <4>1. o \in 1..len[n] /\ p + i = o + 1 /\ o + 1 \in 1..Len(w)
        <5>1. i \in Nat /\ i >= 1 /\ i <= Len(parts[j]) /\ Len(w) = len[n] + 2
          BY <1>7, <4>0
        <5>2. len[k] \in Nat /\ len[n] \in Nat /\ len[k] + Len(parts[j]) <= len[n]
          BY <3>3
        <5>3. o \in 1..len[n]
          BY <4>0, <5>1, <5>2
        <5>4. p + i = o + 1
          BY <5>1, <5>2
        <5>5. o + 1 \in 1..Len(w)
          BY <5>1, <5>2, <5>3
        <5> QED BY <5>3, <5>4, <5>5
      <4> HIDE DEF o
      <4>2. w[o + 1] = h[n][o]
        BY <1>7, <4>1
      <4>3. read[o + 1] = After(read[o + 1 - 1], w[o + 1])
        BY <1>11, <4>1
      <4> HIDE DEF p
      <4>4. p + i - 1 = o + 1 - 1
        BY <3>3, <4>0, <4>1
      <4>5. h[n][o] = parts[j][i]
        BY <4>0 DEF o
      <4> QED BY <4>1, <4>2, <4>3, <4>4, <4>5
    <3>5. CASE c # Quote
      <4>1. Len(parts[j]) = 1 /\ parts[j][1] = c
        BY <1>8, <3>1, <3>5
      <4>2. 1 \in 1..Len(parts[j])
        BY <4>1
      <4>3. w[p + 1] = c /\ read[p + 1] = After(read[p + 1 - 1], w[p + 1])
        BY <3>4, <4>1, <4>2
      <4>4. p + 1 - 1 = p /\ 1 + len[j] = p + 1
        BY <3>3, <4>1
      <4> HIDE DEF p, c
      <4>5. read[p + 1] = InWord(Append(word, c))
        <5>1. After(InWord(word), c) = InWord(Append(word, c))
          BY <3>5, AfterIs
        <5>2. read[p + 1] = After(read[p], w[p + 1]) /\ w[p + 1] = c
          BY <4>3, <4>4
        <5> QED BY <3>1, <5>1, <5>2
      <4> QED BY <3>2, <4>4, <4>5 DEF j
    <3>6. CASE c = Quote
      <4>1. /\ Len(parts[j]) = 4 /\ parts[j][1] = Quote /\ parts[j][2] = "\\"
            /\ parts[j][3] = Quote /\ parts[j][4] = Quote
        BY <1>8, <3>1, <3>6
      <4>2. 1 \in 1..Len(parts[j]) /\ 2 \in 1..Len(parts[j]) /\ 3 \in 1..Len(parts[j]) /\ 4 \in 1..Len(parts[j])
        BY <4>1
      <4>3. /\ w[p + 1] = Quote /\ read[p + 1] = After(read[p + 1 - 1], w[p + 1])
            /\ w[p + 2] = "\\" /\ read[p + 2] = After(read[p + 2 - 1], w[p + 2])
            /\ w[p + 3] = Quote /\ read[p + 3] = After(read[p + 3 - 1], w[p + 3])
            /\ w[p + 4] = Quote /\ read[p + 4] = After(read[p + 4 - 1], w[p + 4])
        BY <3>4, <4>1, <4>2, Zenon
      <4>4. p + 1 - 1 = p /\ p + 2 - 1 = p + 1 /\ p + 3 - 1 = p + 2 /\ p + 4 - 1 = p + 3 /\ 1 + len[j] = p + 4
        BY <3>3, <4>1
      <4> HIDE DEF p, c
      <4>5. read[p + 1] = [inside |-> FALSE, escaped |-> FALSE, word |-> word]
        BY <3>1, <4>3, <4>4, AfterIs
      <4>6. read[p + 2] = [inside |-> FALSE, escaped |-> TRUE, word |-> word]
        BY <4>3, <4>4, <4>5, AfterIs
      <4>7. read[p + 3] = [inside |-> FALSE, escaped |-> FALSE, word |-> Append(word, Quote)]
        BY <4>3, <4>4, <4>6, AfterIs
      <4>8. read[p + 4] = InWord(Append(word, Quote))
        BY <4>3, <4>4, <4>7, AfterIs
      <4> QED BY <3>2, <3>6, <4>4, <4>8 DEF j
    <3> QED BY <3>5, <3>6
  <2> HIDE DEF P
  <2>3. \A k \in Nat : k \in P
    BY <2>1, <2>2, InductionOnSet, Zenon
  <2> QED BY <2>3 DEF P
<1>13. ShRead(w) = [inside |-> FALSE, escaped |-> FALSE, word |-> arg]
  <2>1. SubSeq(arg, 1, n) = arg
    BY SubSeqFull DEF n
  <2>2. read[1 + len[n]] = InWord(arg)
    <3>1. n <= n
      BY <1>1
    <3>2. read[1 + len[n]] = InWord(SubSeq(arg, 1, n))
      BY <1>1, <1>12, <3>1
    <3> QED BY <2>1, <3>2
  <2>3. len[n] \in Nat
    BY <1>1, <1>4
  <2> DEFINE e == len[n] + 2
  <2>4. e \in 1..Len(w) /\ e - 1 = 1 + len[n] /\ Len(w) = e /\ w[e] = Quote
    BY <1>7, <2>3
  <2> HIDE DEF e
  <2>5. read[e] = After(read[e - 1], w[e])
    BY <1>11, <2>4
  <2>6. read[e] = After(InWord(arg), Quote)
    BY <2>2, <2>4, <2>5
  <2> QED BY <1>11, <2>4, <2>6, AfterIs
<1>14. Len(w) \in Nat
  BY <1>1, <1>4, <1>7
<1> QED BY <1>7, <1>10, <1>13, <1>14 DEF w, n

QuoteInv ==
  quoted = NoQuote \/ \E arg \in ShArgs, size \in Nat :
    quoted = [arg |-> arg, size |-> size, done |-> shquote(arg, size)]

LEMMA QuoteInvRight == QuoteInv => QuotedRight
<1> SUFFICES ASSUME NEW arg \in ShArgs, NEW size \in Nat,
                    quoted = [arg |-> arg, size |-> size, done |-> shquote(arg, size)]
             PROVE  QuotedRight
  BY DEF QuoteInv, QuotedRight
<1>1. arg \in Seq(ShChars) /\ Quote \in ShChars /\ "\\" \in ShChars
  <2>1. PICK n \in 0..3 : arg \in [1..n -> ShChars]
    BY DEF ShArgs
  <2> QED BY <2>1 DEF ShChars, Quote
<1> DEFINE len == 2 + Len(arg) + 3 * Cardinality({i \in DOMAIN arg : arg[i] = Quote})
<1>2. /\ Len(Quoted(arg)) = len /\ len \in Nat
      /\ ShRead(Quoted(arg)) = [inside |-> FALSE, escaped |-> FALSE, word |-> arg]
  BY <1>1, QuotedIs
<1>3. shquote(arg, size) = IF size < len + 1 THEN [ret |-> -1, buf |-> <<>>] ELSE [ret |-> len, buf |-> Quoted(arg)]
  BY DEF shquote
<1> HIDE DEF len
<1>4. CASE size < len + 1
  <2>1. quoted.done.ret = -1 /\ quoted.size <= Len(Quoted(quoted.arg))
    BY <1>2, <1>3, <1>4
  <2> QED BY <2>1 DEF QuotedRight
<1>5. CASE ~(size < len + 1)
  <2>1. quoted.done.ret = len /\ quoted.done.buf = Quoted(arg) /\ quoted.arg = arg /\ quoted.size = size
    BY <1>3, <1>5
  <2>2. len # -1 /\ len < size
    BY <1>2, <1>5
  <2> QED BY <1>2, <2>1, <2>2 DEF QuotedRight
<1> QED BY <1>4, <1>5

LEMMA QuoteStep == ASSUME QuoteInv, StringNext PROVE QuoteInv'
<1>1. ASSUME NEW arg \in ShArgs, NEW bufsize \in {2, 3, 5, 8, 9, 12, 15}, Shquote(arg, bufsize) PROVE QuoteInv'
  BY <1>1 DEF Shquote, QuoteInv
<1>2. ASSUME UNCHANGED quoted PROVE QuoteInv'
  BY <1>2 DEF QuoteInv
<1> QED BY <1>1, <1>2 DEF StringNext, Edup, Ecall, Einformed, Ealloc, esetfunc, Fill, Strlcpy, Strlcat, Estrlcpy, Estrlcat,
                          Building, Separating, AddText, TakeApart, Stresep

(* stresep: the parts of a string, its memory, and its tokens.             *)
TextChars == {"a", ":", "\\"}
SepChars == TextChars \cup {Nul}
PartsOf(e) ==
  {part \in [is : {"char", "delim", "escaped"}, c : TextChars] :
     /\ part.is = "char" => part.c = "a"
     /\ part.is = "delim" => part.c = ":"
     /\ part.is = "escaped" => e # Nul}
Width(part) == IF part.is = "escaped" THEN 2 ELSE 1
BytesOf(part, e) == IF part.is = "escaped" THEN <<e, part.c>> ELSE <<part.c>>

(* From the k-th part on the string is in memory, each part where pos      *)
(* says, and nothing behind final is of interest.                           *)
Laid(parts, e, mem, pos, k, final) ==
  LET n == Len(parts) IN
  /\ mem \in Seq(SepChars) /\ final \in Nat /\ final <= Len(mem)
  /\ \A j \in k..n + 1 : pos[j] \in Nat /\ pos[j] >= 1 /\ pos[j] <= pos[n + 1]
  /\ pos[n + 1] <= final
  /\ \A j \in k..n : /\ pos[j + 1] = pos[j] + Width(parts[j])
                     /\ mem[pos[j]] = BytesOf(parts[j], e)[1]
                     /\ parts[j].is = "escaped" => mem[pos[j] + 1] = parts[j].c
  /\ \A p \in pos[k]..pos[n + 1] - 1 : mem[p] # Nul
  /\ mem[pos[n + 1]] = Nul

(* One turn of the loop.                                                   *)
Turned(mem, s, e, final) ==
  IF Escape(mem, s, e) THEN [i \in DOMAIN mem |-> IF i \in s..final - 1 THEN mem[i + 1] ELSE mem[i]] ELSE mem

LEMMA TurnedTyped ==
  ASSUME NEW mem \in Seq(SepChars), NEW s \in Nat, s >= 1, NEW e, NEW final \in Nat, final <= Len(mem)
  PROVE  Turned(mem, s, e, final) \in Seq(SepChars) /\ Len(Turned(mem, s, e, final)) = Len(mem)
<1> DEFINE n == Len(mem)
           m == [i \in 1..n |-> IF i \in s..final - 1 THEN mem[i + 1] ELSE mem[i]]
<1>1. n \in Nat /\ DOMAIN mem = 1..n /\ \A i \in 1..n : mem[i] \in SepChars
  BY LenProperties, ElementOfSeq
<1> HIDE DEF n
<1>2. \A i \in 1..n : m[i] \in SepChars
  <2> SUFFICES ASSUME NEW i \in 1..n PROVE m[i] \in SepChars
    OBVIOUS
  <2>1. CASE i \in s..final - 1
    <3>1. i + 1 \in 1..n
      BY <1>1, <2>1 DEF n
    <3> QED BY <1>1, <2>1, <3>1
  <2>2. CASE i \notin s..final - 1
    BY <1>1, <2>2
  <2> QED BY <2>1, <2>2
<1>3. m \in [1..n -> SepChars]
  BY <1>2
<1> HIDE DEF m
<1>4. m \in Seq(SepChars) /\ Len(m) = n
  BY <1>1, <1>3
<1>5. Turned(mem, s, e, final) = IF Escape(mem, s, e) THEN m ELSE mem
  BY <1>1 DEF Turned, m
<1> QED BY <1>4, <1>5 DEF n

(* A part that is no delimiter leaves its character behind.                *)
Passed(parts, e, mem, mem2, s, j, final) ==
  /\ mem2[s] = parts[j].c /\ \A p \in 1..s - 1 : mem2[p] = mem[p]
  /\ \E pos : Laid(parts, e, mem2, pos, j + 1, final) /\ pos[j + 1] = s + 1

LEMMA PassPart ==
  ASSUME NEW e \in {"\\", Nul}, NEW parts \in Seq(PartsOf(e)), NEW mem, NEW pos, NEW j \in 1..Len(parts),
         NEW final, Laid(parts, e, mem, pos, j, final), parts[j].is # "delim"
  PROVE  /\ ~Stops(mem, pos[j], {":"}, e)
         /\ Passed(parts, e, mem, Turned(mem, pos[j], e, final), pos[j], j, final)
<1> DEFINE n == Len(parts)
           s == pos[j]
           part == parts[j]
           mem2 == Turned(mem, s, e, final)
<1>1. /\ mem \in Seq(SepChars) /\ final \in Nat /\ final <= Len(mem)
      /\ \A i \in j..n + 1 : pos[i] \in Nat /\ pos[i] >= 1 /\ pos[i] <= pos[n + 1]
      /\ pos[n + 1] <= final
      /\ \A i \in j..n : /\ pos[i + 1] = pos[i] + Width(parts[i])
                         /\ mem[pos[i]] = BytesOf(parts[i], e)[1]
                         /\ parts[i].is = "escaped" => mem[pos[i] + 1] = parts[i].c
      /\ \A p \in pos[j]..pos[n + 1] - 1 : mem[p] # Nul
      /\ mem[pos[n + 1]] = Nul
  BY Zenon DEF Laid
<1>2. n \in Nat /\ part \in PartsOf(e) /\ Len(mem) \in Nat /\ DOMAIN mem = 1..Len(mem)
  BY <1>1, LenProperties, ElementOfSeq
<1> HIDE DEF n
<1>3. j \in j..n + 1 /\ n + 1 \in j..n + 1 /\ j \in j..n /\ j + 1 \in j..n + 1
  BY <1>2 DEF n
<1>4. /\ s \in Nat /\ s >= 1 /\ pos[n + 1] \in Nat /\ pos[j + 1] \in Nat /\ pos[j + 1] <= pos[n + 1]
      /\ pos[j + 1] = s + Width(part) /\ mem[s] = BytesOf(part, e)[1]
      /\ part.is = "escaped" => mem[s + 1] = part.c
  BY <1>1, <1>3
<1>5. mem2 \in Seq(SepChars) /\ Len(mem2) = Len(mem)
  BY <1>1, <1>4, TurnedTyped
<1> HIDE DEF s, part, mem2
<1>6. CASE part.is = "escaped"
  <2>1. mem[s] = e /\ Escape(mem, s, e) /\ Width(part) = 2 /\ part.c # Nul
    BY <1>2, <1>4, <1>6 DEF PartsOf, BytesOf, Escape, Width, TextChars, Nul
  <2>2. mem2 = [i \in 1..Len(mem) |-> IF i \in s..final - 1 THEN mem[i + 1] ELSE mem[i]]
    BY <1>2, <2>1 DEF Turned, mem2
  <2>3. \A i \in s..final - 1 : mem2[i] = mem[i + 1]
    BY <1>1, <1>2, <1>4, <2>2
  <2>4. \A p \in 1..s - 1 : mem2[p] = mem[p]
    BY <1>1, <1>2, <1>4, <2>1, <2>2
  <2> DEFINE pos2 == [i \in j + 1..n + 1 |-> pos[i] - 1]
             end == pos[n + 1]
  <2>5. \A i \in j + 1..n + 1 : pos2[i] = pos[i] - 1 /\ i \in j..n + 1
    BY <1>2
  <2>6. j + 1 \in j + 1..n + 1 /\ n + 1 \in j + 1..n + 1
    BY <1>2 DEF n
  <2>7. /\ pos2[j + 1] = s + 1 /\ pos2[n + 1] = end - 1 /\ end - 1 \in Nat /\ end - 1 >= s + 1 /\ end <= final
        /\ pos[j + 1] = s + 2
    BY <1>1, <1>4, <2>1, <2>5, <2>6
  <2>7a. /\ pos[n + 1] = end /\ end \in Nat /\ final \in Nat /\ s \in Nat /\ s >= 1
         /\ \A p \in s..end - 1 : mem[p] # Nul
         /\ mem[end] = Nul
    BY <1>1, <1>4 DEF s
  <2> HIDE DEF pos2, end
  <2>8. \A i \in j + 1..n + 1 : pos[i] >= s + 2
    <3> DEFINE P == {d \in Nat : j + 1 + d <= n + 1 => pos[j + 1 + d] >= s + 2}
    <3>1. 0 \in P
      <4>1. j + 1 + 0 = j + 1
        BY <1>2
      <4>2. pos[j + 1 + 0] >= s + 2
        BY <2>7, <2>7a, <4>1
      <4> QED BY <4>2
    <3>2. ASSUME NEW d \in Nat, d \in P PROVE d + 1 \in P
      <4> SUFFICES ASSUME j + 1 + (d + 1) <= n + 1 PROVE pos[j + 1 + (d + 1)] >= s + 2
        OBVIOUS
      <4> DEFINE i == j + 1 + d
      <4>0. j + 1 + d <= n + 1 /\ i \in j..n /\ i \in j..n + 1 /\ j + 1 + (d + 1) = i + 1
        BY <1>2
      <4>0a. pos[i] >= s + 2
        BY <3>2, <4>0, Zenon
      <4>1. i \in j..n /\ i \in j..n + 1 /\ pos[i] >= s + 2 /\ j + 1 + (d + 1) = i + 1
        BY <4>0, <4>0a, Zenon
      <4> HIDE DEF i
      <4>2. pos[i + 1] = pos[i] + Width(parts[i]) /\ pos[i] \in Nat
        BY <1>1, <4>1
      <4>3. Width(parts[i]) \in {1, 2}
        BY DEF Width
      <4> QED BY <1>4, <4>1, <4>2, <4>3
    <3> HIDE DEF P
    <3>3. \A d \in Nat : d \in P
      BY <3>1, <3>2, InductionOnSet, Zenon
    <3> SUFFICES ASSUME NEW i \in j + 1..n + 1 PROVE pos[i] >= s + 2
      OBVIOUS
    <3>4. i - j - 1 \in Nat /\ j + 1 + (i - j - 1) = i /\ i <= n + 1
      BY <1>2
    <3>5. i - j - 1 \in P
      BY <3>3, <3>4
    <3> QED BY <3>4, <3>5 DEF P
  <2>9. Laid(parts, e, mem2, pos2, j + 1, final)
    <3>1. \A i \in j + 1..n + 1 : pos2[i] \in Nat /\ pos2[i] >= 1 /\ pos2[i] <= pos2[n + 1]
      <4> SUFFICES ASSUME NEW i \in j + 1..n + 1 PROVE pos2[i] \in Nat /\ pos2[i] >= 1 /\ pos2[i] <= pos2[n + 1]
        OBVIOUS
      <4>1. pos[i] \in Nat /\ pos[i] <= end /\ pos2[i] = pos[i] - 1 /\ pos[i] >= s + 2
        BY <1>1, <2>5, <2>7a, <2>8
      <4> QED BY <2>7, <2>7a, <4>1
    <3>2. pos2[n + 1] <= final
      BY <2>7, <2>7a
    <3>3. ASSUME NEW i \in j + 1..n
          PROVE  /\ pos2[i + 1] = pos2[i] + Width(parts[i])
                 /\ mem2[pos2[i]] = BytesOf(parts[i], e)[1]
                 /\ parts[i].is = "escaped" => mem2[pos2[i] + 1] = parts[i].c
      <4>1. i \in j..n /\ i \in j + 1..n + 1 /\ i + 1 \in j + 1..n + 1
        BY <1>2
      <4>2. /\ pos2[i] = pos[i] - 1 /\ pos2[i + 1] = pos[i + 1] - 1 /\ pos[i] >= s + 2 /\ pos[i + 1] <= end
            /\ pos[i] \in Nat /\ pos[i + 1] \in Nat
        BY <1>1, <2>5, <2>7a, <2>8, <4>1
      <4>3. /\ pos[i + 1] = pos[i] + Width(parts[i])
            /\ mem[pos[i]] = BytesOf(parts[i], e)[1]
            /\ parts[i].is = "escaped" => mem[pos[i] + 1] = parts[i].c
        BY <1>1, <4>1
      <4>4. Width(parts[i]) = IF parts[i].is = "escaped" THEN 2 ELSE 1
        BY DEF Width
      <4> DEFINE q == pos[i] - 1
      <4>5. q \in s..final - 1 /\ q + 1 = pos[i]
        <5>1. pos[i] <= pos[n + 1]
          BY <1>1, <4>1
        <5>2. pos[i] >= s + 2 /\ pos[i] <= end /\ end <= final /\ pos[i] \in Nat
          BY <2>7, <2>7a, <4>2, <5>1
        <5> QED BY <2>7a, <5>2
      <4>6. parts[i].is = "escaped" => q + 1 \in s..final - 1 /\ q + 1 + 1 = pos[i] + 1
        BY <2>7, <2>7a, <4>2, <4>3, <4>4
      <4> HIDE DEF q
      <4>7. mem2[q] = mem[pos[i]] /\ (parts[i].is = "escaped" => mem2[q + 1] = mem[pos[i] + 1])
        BY <2>3, <4>5, <4>6
      <4>8. pos2[i] = q
        BY <4>2 DEF q
      <4>9. pos2[i + 1] = pos2[i] + Width(parts[i])
        BY <4>2, <4>3, <4>4
      <4> QED BY <4>3, <4>7, <4>8, <4>9
    <3>4. \A p \in pos2[j + 1]..pos2[n + 1] - 1 : mem2[p] # Nul
      <4> SUFFICES ASSUME NEW p \in s + 1..end - 1 - 1 PROVE mem2[p] # Nul
        BY <2>7
      <4>1. p \in s..final - 1 /\ p + 1 \in s..end - 1
        BY <2>7, <2>7a
      <4>2. mem[p + 1] # Nul
        BY <2>7a, <4>1
      <4> QED BY <2>3, <4>1, <4>2
    <3>5. mem2[pos2[n + 1]] = Nul
      <4>1. end - 1 \in s..final - 1 /\ end - 1 + 1 = end
        BY <2>7, <2>7a
      <4>2. mem2[end - 1] = mem[end]
        BY <2>3, <4>1
      <4> QED BY <2>7, <2>7a, <4>2
    <3> QED BY <1>1, <1>5, <3>1, <3>2, <3>3, <3>4, <3>5, Zenon DEF Laid, n
  <2>10. mem2[s] = part.c
    <3>1. s \in s..final - 1
      BY <2>7, <2>7a
    <3> QED BY <1>4, <1>6, <2>3, <3>1
  <2>11. ~Stops(mem, s, {":"}, e)
    BY <2>1 DEF Stops
  <2> QED BY <2>4, <2>7, <2>9, <2>10, <2>11 DEF Passed, s, part, mem2
<1>7. CASE part.is # "escaped"
  <2>1. part.is = "char" /\ part.c = "a" /\ Width(part) = 1 /\ mem[s] = "a"
    BY <1>2, <1>4, <1>7 DEF PartsOf, BytesOf, Width, part
  <2>2. ~Escape(mem, s, e) /\ mem2 = mem
    BY <2>1 DEF Escape, Turned, mem2, Nul
  <2>3. ~Stops(mem, s, {":"}, e)
    BY <2>1 DEF Stops, Nul
  <2>4. pos[j + 1] = s + 1
    BY <1>4, <2>1
  <2>5. Laid(parts, e, mem, pos, j + 1, final)
    <3>1. \A i \in j + 1..n + 1 : i \in j..n + 1
      BY <1>2
    <3>2. \A i \in j + 1..n : i \in j..n
      BY <1>2
    <3>3. \A p \in pos[j + 1]..pos[n + 1] - 1 : p \in pos[j]..pos[n + 1] - 1
      BY <1>4, <2>4 DEF s
    <3> QED BY <1>1, <3>1, <3>2, <3>3 DEF Laid, n
  <2> QED BY <2>1, <2>2, <2>3, <2>4, <2>5 DEF Passed, s, part, mem2
<1> QED BY <1>6, <1>7

(* What the loop makes of the memory, turn by turn.                        *)
TurnsOf(closed, mem, tok, l, e) ==
  /\ closed[0] = mem
  /\ \A k \in 0..l - 1 : closed[k] \in Seq(SepChars) /\ Len(closed[k]) = Len(mem)
  /\ \A k \in 1..l - 1 : closed[k] = Turned(closed[k - 1], tok + k - 1, e, tok + l - 1)

LEMMA ClosedIs ==
  ASSUME NEW mem \in Seq(SepChars), NEW tok \in Nat, tok >= 1, NEW l \in Nat, l >= 1, tok + l - 1 <= Len(mem), NEW e
  PROVE  TurnsOf(ClosedUp(mem, tok, l, e), mem, tok, l, e)
<1> DEFINE final == tok + l - 1
           n == l - 1
           M == {m \in Seq(SepChars) : Len(m) = Len(mem)}
           step == [k \in 1..n |-> [m \in M |-> Turned(m, tok + k - 1, e, final)]]
           Turn(before, k) == IF Escape(before, tok + k - 1, e) THEN Closed(before, tok + k, l - k) ELSE before
           Body(f) == [k \in 0..n |-> IF k = 0 THEN mem ELSE LET before == f[k - 1]
                                                             IN  IF Escape(before, tok + k - 1, e)
                                                                 THEN Closed(before, tok + k, l - k) ELSE before]
           closed == CHOOSE f : f = Body(f)
<1>1. n \in Nat /\ final \in Nat /\ final <= Len(mem) /\ n + 1 = l
  OBVIOUS
<1>2. ASSUME NEW k \in 1..n, NEW m \in M
      PROVE  Turned(m, tok + k - 1, e, final) \in M /\ Turned(m, tok + k - 1, e, final) = Turn(m, k)
  <2>1. tok + k - 1 \in Nat /\ tok + k - 1 >= 1 /\ m \in Seq(SepChars) /\ final <= Len(m)
    BY <1>1
  <2>2. Turned(m, tok + k - 1, e, final) \in M
    BY <1>1, <2>1, TurnedTyped
  <2>3. tok + k + (l - k) - 2 = final - 1
    OBVIOUS
  <2>4. Turned(m, tok + k - 1, e, final) = Turn(m, k)
    <3>1. ((tok + k) - 1)..((tok + k) + (l - k) - 2) = (tok + k - 1)..(final - 1)
      BY <2>3
    <3>2. Closed(m, tok + k, l - k) = [i \in DOMAIN m |-> IF i \in (tok + k - 1)..(final - 1) THEN m[i + 1] ELSE m[i]]
      BY <3>1, Zenon DEF Closed
    <3> QED BY <3>2, Zenon DEF Turned
  <2> QED BY <2>2, <2>4
<1> HIDE DEF final, n, M
<1>3. mem \in M
  BY DEF M
<1>4. step \in [1..n -> [M -> M]]
  BY <1>2
<1>5. PICK f : Stepped(f, M, mem, step, n)
  BY <1>1, <1>3, <1>4, Steps
<1>6. f \in [0..n -> M] /\ f[0] = mem /\ \A k \in 1..n : f[k] = step[k][f[k - 1]]
  BY <1>5, Zenon DEF Stepped
<1>7. \A k \in 1..n : f[k - 1] \in M
  BY <1>1, <1>6
<1>8. \A k \in 1..n : f[k] = Turned(f[k - 1], tok + k - 1, e, final)
  BY <1>6, <1>7
<1>9. \A k \in 1..n : f[k] = Turn(f[k - 1], k)
  BY <1>2, <1>7, <1>8, Zenon
<1>10. f = Body(f)
  <2>1. f = [k \in 0..n |-> f[k]]
    BY <1>6
  <2>2. ASSUME NEW k \in 0..n
        PROVE  f[k] = IF k = 0 THEN mem ELSE LET before == f[k - 1]
                                             IN  IF Escape(before, tok + k - 1, e)
                                                 THEN Closed(before, tok + k, l - k) ELSE before
    <3>1. k = 0 \/ k \in 1..n
      BY <1>1
    <3>2. CASE k = 0
      BY <1>6, <3>2
    <3>3. CASE k \in 1..n
      <4>1. k # 0
        BY <3>3
      <4>2. f[k] = Turn(f[k - 1], k)
        BY <1>9, <3>3, Zenon
      <4> QED BY <4>1, <4>2, Zenon
    <3> QED BY <3>1, <3>2, <3>3
  <2> QED BY <2>1, <2>2, Zenon
<1>11. closed = Body(closed)
  BY <1>10, Zenon
<1>12. ClosedUp(mem, tok, l, e) = closed
  BY Zenon DEF ClosedUp, closed, n
<1> HIDE DEF closed
<1>13. closed[0] = mem /\ \A k \in 1..n : closed[k] = Turn(closed[k - 1], k)
  <2>1. 0 \in 0..n
    BY <1>1
  <2>2. closed[0] = mem
    BY <1>11, <2>1
  <2>3. ASSUME NEW k \in 1..n PROVE closed[k] = Turn(closed[k - 1], k)
    <3>1. k \in 0..n /\ k # 0
      OBVIOUS
    <3> QED BY <1>11, <3>1
  <2> QED BY <2>2, <2>3, Zenon
<1>14. \A k \in Nat : k <= n => closed[k] \in M
  <2> DEFINE P == {k \in Nat : k <= n => closed[k] \in M}
  <2>1. 0 \in P
    BY <1>3, <1>13
  <2>2. ASSUME NEW k \in Nat, k \in P PROVE k + 1 \in P
    <3> SUFFICES ASSUME k + 1 <= n PROVE closed[k + 1] \in M
      OBVIOUS
    <3> DEFINE j == k + 1
    <3>1. j \in 1..n /\ j - 1 = k /\ closed[k] \in M
      BY <1>1, <2>2
    <3> HIDE DEF j
    <3>2. closed[j] = Turn(closed[j - 1], j) /\ closed[j - 1] \in M
      BY <1>13, <3>1, Zenon
    <3>3. closed[j] \in M
      BY <1>2, <3>1, <3>2, Zenon
    <3> QED BY <3>3 DEF j
  <2> HIDE DEF P
  <2>3. \A k \in Nat : k \in P
    BY <2>1, <2>2, InductionOnSet, Zenon
  <2> QED BY <2>3 DEF P
<1>15. \A k \in 0..n : closed[k] \in Seq(SepChars) /\ Len(closed[k]) = Len(mem)
  BY <1>1, <1>14 DEF M
<1>16. ASSUME NEW k \in 1..n PROVE closed[k] = Turned(closed[k - 1], tok + k - 1, e, final)
  <2>1. k - 1 \in Nat /\ k - 1 <= n
    BY <1>1
  <2>2. closed[k - 1] \in M
    BY <1>14, <2>1
  <2> QED BY <1>2, <1>13, <2>2, Zenon
<1> QED BY <1>12, <1>13, <1>15, <1>16, Zenon DEF TurnsOf, n, final

(* Where the loop stops.                                                   *)
LEMMA LeastIs ==
  ASSUME NEW S \in SUBSET Nat, NEW k \in S, \A i \in S : k <= i
  PROVE  Min(S) = k
<1>1. \A i \in S : i = k \/ ~(i <= k)
  OBVIOUS
<1> QED BY <1>1 DEF Min

LEMMA DelimStops ==
  ASSUME NEW e \in {"\\", Nul}, NEW parts \in Seq(PartsOf(e)), NEW mem, NEW pos, NEW j \in 1..Len(parts),
         NEW final, Laid(parts, e, mem, pos, j, final), parts[j].is = "delim"
  PROVE  Stops(mem, pos[j], {":"}, e) /\ mem[pos[j]] # Nul
<1>1. j \in j..Len(parts) /\ parts[j] \in PartsOf(e)
  BY LenProperties, ElementOfSeq
<1>2. mem[pos[j]] = BytesOf(parts[j], e)[1]
  BY <1>1, Zenon DEF Laid
<1>3. mem[pos[j]] = ":"
  BY <1>1, <1>2 DEF BytesOf, PartsOf
<1> QED BY <1>3 DEF Stops, Escape, Nul

LEMMA EndStops ==
  ASSUME NEW e \in {"\\", Nul}, NEW parts, NEW mem, NEW pos, NEW k,
         NEW final, Laid(parts, e, mem, pos, k, final)
  PROVE  Stops(mem, pos[Len(parts) + 1], {":"}, e) /\ mem[pos[Len(parts) + 1]] = Nul
<1>1. mem[pos[Len(parts) + 1]] = Nul
  BY Zenon DEF Laid
<1> QED BY <1>1 DEF Stops, Escape, Nul

(* The parts before the next delimiter, or before the end.                 *)
EndsAfter(parts, k, N) ==
  /\ N \in Nat /\ k + N <= Len(parts) + 1
  /\ \A q \in 0..N - 1 : parts[k + q].is # "delim"
  /\ k + N = Len(parts) + 1 \/ parts[k + N].is = "delim"

LEMMA EndIs ==
  ASSUME NEW S, NEW parts \in Seq(S), NEW k \in 1..Len(parts) + 1
  PROVE  \E N : EndsAfter(parts, k, N)
<1> DEFINE n == Len(parts)
           E == {i \in Nat : k + i = n + 1 \/ (k + i <= n /\ parts[k + i].is = "delim")}
<1>1. n \in Nat
  BY LenProperties
<1>2. n + 1 - k \in E
  BY <1>1
<1>3. PICK N \in E : \A i \in E : N <= i
  <2>1. E \subseteq Nat /\ E # {}
    BY <1>2
  <2> HIDE DEF E
  <2> QED BY <2>1, LeastNatural, Zenon
<1>4. N \in Nat /\ k + N <= n + 1 /\ (k + N = n + 1 \/ parts[k + N].is = "delim")
  BY <1>1, <1>3
<1>5. \A q \in 0..N - 1 : parts[k + q].is # "delim"
  <2> SUFFICES ASSUME NEW q \in 0..N - 1, parts[k + q].is = "delim" PROVE FALSE
    OBVIOUS
  <2>1. q \in Nat /\ k + q <= n /\ ~(N <= q)
    BY <1>1, <1>4
  <2>2. q \in E
    BY <2>1
  <2> QED BY <1>3, <2>1, <2>2
<1> QED BY <1>4, <1>5 DEF EndsAfter

(* The memory m when the loop from tok has passed i parts from the k-th on. *)
Ran(parts, e, m, tok, k, i, final) ==
  /\ \A q \in 0..i - 1 : m[tok + q] = parts[k + q].c
  /\ \E pos : Laid(parts, e, m, pos, k + i, final) /\ pos[k + i] = tok + i

LEMMA Loop ==
  ASSUME NEW e \in {"\\", Nul}, NEW parts \in Seq(PartsOf(e)), NEW k \in 1..Len(parts) + 1, NEW mem, NEW pos,
         NEW final, Laid(parts, e, mem, pos, k, final), final = pos[Len(parts) + 1],
         NEW l, l = final - pos[k] + 1, NEW closed, TurnsOf(closed, mem, pos[k], l, e),
         NEW N, EndsAfter(parts, k, N)
  PROVE  /\ N <= l - 1 /\ Ran(parts, e, closed[N], pos[k], k, N, final)
         /\ \A q \in 0..N - 1 : ~Stops(closed[q], pos[k] + q, {":"}, e)
<1> DEFINE n == Len(parts)
           tok == pos[k]
           PassedAll(i) == /\ i <= l - 1 /\ Ran(parts, e, closed[i], tok, k, i, final)
                    /\ \A q \in 0..i - 1 : ~Stops(closed[q], tok + q, {":"}, e)
           P == {i \in Nat : i <= N => PassedAll(i)}
<1>1. n \in Nat /\ k \in k..n + 1 /\ n + 1 \in k..n + 1
  BY LenProperties
<1>2. /\ N \in Nat /\ k + N <= n + 1
      /\ \A q \in 0..N - 1 : parts[k + q].is # "delim"
  BY Zenon DEF EndsAfter
<1>3. tok \in Nat /\ tok >= 1 /\ final \in Nat /\ tok <= final
  BY <1>1 DEF Laid
<1>4. l \in Nat /\ l >= 1 /\ tok + l - 1 = final /\ l - 1 = final - tok
  BY <1>3
<1>5. closed[0] = mem /\ \A i \in 1..l - 1 : closed[i] = Turned(closed[i - 1], tok + i - 1, e, final)
  BY <1>4 DEF TurnsOf
<1> HIDE DEF n, tok
<1>6. 0 \in P
  <2>1. k + 0 = k /\ tok + 0 = tok /\ 0 <= l - 1
    BY <1>3, <1>4
  <2>2. Laid(parts, e, closed[0], pos, k + 0, final) /\ pos[k + 0] = tok + 0
    BY <1>5, <2>1 DEF tok
  <2>3. Ran(parts, e, closed[0], tok, k, 0, final)
    BY <2>2 DEF Ran
  <2> QED BY <2>1, <2>3
<1>7. ASSUME NEW i \in Nat, i \in P PROVE i + 1 \in P
  <2> SUFFICES ASSUME i + 1 <= N PROVE PassedAll(i + 1)
    OBVIOUS
  <2>1. i <= N /\ i \in 0..N - 1 /\ k + i \in 1..n /\ i \in Nat
    BY <1>1, <1>2
  <2>2. PassedAll(i)
    BY <1>7, <2>1
  <2>3. PICK pos1 : Laid(parts, e, closed[i], pos1, k + i, final) /\ pos1[k + i] = tok + i
    BY <2>2 DEF Ran
  <2> DEFINE j == k + i
             s == tok + i
             m == Turned(closed[i], s, e, final)
  <2>4. j \in 1..Len(parts) /\ parts[j].is # "delim" /\ Laid(parts, e, closed[i], pos1, j, final) /\ pos1[j] = s
    BY <1>2, <2>1, <2>3 DEF n
  <2> HIDE DEF j, s, m
  <2>5. ~Stops(closed[i], s, {":"}, e) /\ Passed(parts, e, closed[i], m, s, j, final)
    <3>1. /\ ~Stops(closed[i], pos1[j], {":"}, e)
          /\ Passed(parts, e, closed[i], Turned(closed[i], pos1[j], e, final), pos1[j], j, final)
      BY <2>4, PassPart
    <3> QED BY <2>4, <3>1 DEF m
  <2>6. m[s] = parts[j].c /\ \A p \in 1..s - 1 : m[p] = closed[i][p]
    BY <2>5, Zenon DEF Passed
  <2>7. PICK pos2 : Laid(parts, e, m, pos2, j + 1, final) /\ pos2[j + 1] = s + 1
    BY <2>5, Zenon DEF Passed
  <2>8. i + 1 <= l - 1
    <3>1. j + 1 \in j + 1..n + 1
      BY <1>1, <2>4 DEF n
    <3>2. pos2[j + 1] \in Nat /\ pos2[j + 1] <= pos2[n + 1] /\ pos2[n + 1] <= final /\ pos2[n + 1] \in Nat
      <4>1. n + 1 \in j + 1..n + 1
        BY <1>1, <2>4 DEF n
      <4> QED BY <2>7, <3>1, <4>1 DEF Laid, n
    <3>3. s + 1 <= final
      BY <1>3, <2>7, <3>2
    <3> QED BY <1>3, <1>4, <2>1, <3>3 DEF s
  <2>9. closed[i + 1] = m
    <3>1. i + 1 \in 1..l - 1 /\ (i + 1) - 1 = i /\ tok + (i + 1) - 1 = tok + i
      BY <1>3, <1>4, <2>1, <2>8
    <3>2. closed[i + 1] = Turned(closed[(i + 1) - 1], tok + (i + 1) - 1, e, final)
      BY <1>5, <3>1, Zenon
    <3> QED BY <3>1, <3>2 DEF m, s
  <2>10. \A q \in 0..(i + 1) - 1 : ~Stops(closed[q], tok + q, {":"}, e)
    <3> SUFFICES ASSUME NEW q \in 0..(i + 1) - 1 PROVE ~Stops(closed[q], tok + q, {":"}, e)
      OBVIOUS
    <3>1. q \in 0..i - 1 \/ q = i
      OBVIOUS
    <3> QED BY <2>2, <2>5, <3>1 DEF s
  <2>11. Ran(parts, e, closed[i + 1], tok, k, i + 1, final)
    <3>1. k + (i + 1) = j + 1 /\ tok + (i + 1) = s + 1
      BY <1>3, <2>1 DEF j, s
    <3>2. ASSUME NEW q \in 0..(i + 1) - 1 PROVE closed[i + 1][tok + q] = parts[k + q].c
      <4>1. CASE q = i
        BY <2>6, <2>9, <4>1 DEF j, s
      <4>2. CASE q # i
        <5>1. q \in 0..i - 1 /\ tok + q \in 1..s - 1
          BY <1>3, <2>1, <4>2 DEF s
        <5>2. closed[i][tok + q] = parts[k + q].c
          BY <2>2, <5>1 DEF Ran
        <5> QED BY <2>6, <2>9, <5>1, <5>2
      <4> QED BY <4>1, <4>2
    <3>3. Laid(parts, e, closed[i + 1], pos2, k + (i + 1), final) /\ pos2[k + (i + 1)] = tok + (i + 1)
      BY <2>7, <2>9, <3>1
    <3> QED BY <3>2, <3>3, Zenon DEF Ran
  <2> QED BY <2>8, <2>10, <2>11
<1> HIDE DEF P
<1>8. N \in P
  BY <1>2, <1>6, <1>7, InductionOnSet, Zenon
<1> QED BY <1>2, <1>8 DEF P, tok

LEMMA TextIs ==
  ASSUME NEW m \in Seq(SepChars), NEW tok \in Nat, tok >= 1, NEW N \in Nat, tok + N <= Len(m),
         m[tok + N] = Nul, \A q \in 0..N - 1 : m[tok + q] # Nul
  PROVE  TextAt(m, tok) = [q \in 1..N |-> m[tok + q - 1]] /\ Len(TextAt(m, tok)) = N
<1> DEFINE S == {i \in tok..Len(m) : m[i] = Nul}
           between == [q \in 1..N |-> m[tok + q - 1]]
<1>1. Len(m) \in Nat
  BY LenProperties
<1>2. Min(S) = tok + N
  <2>1. S \in SUBSET Nat /\ tok + N \in S
    BY <1>1
  <2>2. ASSUME NEW i \in S PROVE tok + N <= i
    <3> SUFFICES ASSUME i < tok + N PROVE FALSE
      BY <1>1
    <3>1. i - tok \in 0..N - 1 /\ tok + (i - tok) = i
      OBVIOUS
    <3>2. m[tok + (i - tok)] # Nul
      BY <3>1, Zenon
    <3> QED BY <3>1, <3>2
  <2> HIDE DEF S
  <2> QED BY <2>1, <2>2, LeastIs
<1>3. TextAt(m, tok) = SubSeq(m, tok, tok + N - 1)
  <2>1. TextAt(m, tok) = SubSeq(m, tok, Min(S) - 1)
    BY Zenon DEF TextAt
  <2> HIDE DEF S
  <2> QED BY <1>2, <2>1
<1>4. SubSeq(m, tok, tok + N - 1) = between
  <2> DEFINE b == tok + N - 1
             sub == SubSeq(m, tok, b)
  <2>1. /\ tok \in 1..Len(m) + 1 /\ b \in tok - 1..Len(m) /\ b - tok + 1 = N
        /\ \A q \in 1..N : tok + q - 1 \in Nat
    BY <1>1
  <2> HIDE DEF b
  <2>2. sub \in Seq(SepChars) /\ Len(sub) = b - tok + 1 /\ \A q \in 1..b - tok + 1 : sub[q] = m[tok + q - 1]
    BY <2>1, SubSeqProperties
  <2> HIDE DEF sub
  <2>3. sub = [q \in 1..Len(sub) |-> sub[q]]
    BY <2>2
  <2>4. sub = between
    BY <2>1, <2>2, <2>3
  <2> QED BY <2>4 DEF sub, b
<1>5. Len(between) = N
  <2>1. between \in [1..N -> SepChars]
    <3>1. \A q \in 1..N : m[tok + q - 1] \in SepChars
      <4> SUFFICES ASSUME NEW q \in 1..N PROVE m[tok + q - 1] \in SepChars
        OBVIOUS
      <4>1. tok + q - 1 \in 1..Len(m)
        BY <1>1
      <4> QED BY <4>1, ElementOfSeq
    <3> QED BY <3>1
  <2> QED BY <2>1
<1> QED BY <1>3, <1>4, <1>5, Zenon

(* The characters of N parts from the k-th on.                             *)
CharsOf(parts, k, N) == [q \in 1..N |-> parts[k + q - 1].c]

(* What stresep makes of a string that is in memory from its k-th part on, *)
(* with N parts before the next delimiter.                                 *)
Took(r, parts, e, k, N, size) ==
  /\ r.tok = CharsOf(parts, k, N) /\ Len(r.mem) = size
  /\ k + N = Len(parts) + 1 => r.stringp = 0
  /\ k + N # Len(parts) + 1 => /\ r.stringp # 0
                               /\ \E pos : Laid(parts, e, r.mem, pos, k + N + 1, size) /\ pos[k + N + 1] = r.stringp

LEMMA StresepIs ==
  ASSUME NEW e \in {"\\", Nul}, NEW parts \in Seq(PartsOf(e)), NEW k \in 1..Len(parts) + 1, NEW mem, NEW pos,
         Laid(parts, e, mem, pos, k, Len(mem)), NEW N, EndsAfter(parts, k, N)
  PROVE  Took(stresep(mem, pos[k], {":"}, e), parts, e, k, N, Len(mem))
<1> DEFINE n == Len(parts)
           tok == pos[k]
           final == pos[n + 1]
           l == final - tok + 1
           closed == ClosedUp(mem, tok, l, e)
           m == closed[N]
           s == tok + N
           size == Len(mem)
<1>1. n \in Nat /\ k \in k..n + 1 /\ n + 1 \in k..n + 1
  BY LenProperties
<1>2. /\ mem \in Seq(SepChars) /\ size \in Nat /\ size <= Len(mem)
      /\ \A j \in k..n + 1 : pos[j] \in Nat /\ pos[j] >= 1 /\ pos[j] <= pos[n + 1]
      /\ pos[n + 1] <= size
      /\ \A j \in k..n : /\ pos[j + 1] = pos[j] + Width(parts[j])
                         /\ mem[pos[j]] = BytesOf(parts[j], e)[1]
                         /\ parts[j].is = "escaped" => mem[pos[j] + 1] = parts[j].c
      /\ \A p \in pos[k]..pos[n + 1] - 1 : mem[p] # Nul
      /\ mem[pos[n + 1]] = Nul
  BY Zenon DEF Laid
<1>3. /\ tok \in Nat /\ tok >= 1 /\ final \in Nat /\ tok <= final /\ final <= size /\ size \in Nat
  BY <1>1, <1>2
<1>4. Laid(parts, e, mem, pos, k, final)
  BY <1>2, <1>3 DEF Laid
<1>5. N \in Nat /\ k + N <= n + 1 /\ (k + N = n + 1 \/ parts[k + N].is = "delim")
  BY Zenon DEF EndsAfter
<1> HIDE DEF n, tok, final, l, closed, m, s, size
<1>6. l \in Nat /\ l >= 1 /\ tok + l - 1 = final /\ tok + l - 1 <= Len(mem) /\ l = final - tok + 1
  BY <1>3 DEF l, size
<1>7. Len(TextAt(mem, tok)) + 1 = l
  <2> DEFINE d == final - tok
  <2>1. d \in Nat /\ tok + d = final /\ tok + d <= Len(mem) /\ d + 1 = l
    BY <1>3 DEF size, l
  <2>2. mem[tok + d] = Nul
    BY <1>2, <2>1 DEF final
  <2>3. \A q \in 0..d - 1 : mem[tok + q] # Nul
    <3> SUFFICES ASSUME NEW q \in 0..d - 1 PROVE mem[tok + q] # Nul
      OBVIOUS
    <3>1. tok + q \in tok..final - 1
      BY <1>3, <2>1
    <3> QED BY <1>2, <3>1 DEF tok, final
  <2> HIDE DEF d
  <2>4. Len(TextAt(mem, tok)) = d
    BY <1>2, <1>3, <2>1, <2>2, <2>3, TextIs
  <2> QED BY <2>1, <2>4
<1>8. TurnsOf(closed, mem, tok, l, e)
  BY <1>2, <1>3, <1>6, ClosedIs DEF closed
<1>9. /\ N <= l - 1 /\ Ran(parts, e, m, tok, k, N, final)
      /\ \A q \in 0..N - 1 : ~Stops(closed[q], tok + q, {":"}, e)
  <2>1. Laid(parts, e, mem, pos, k, final) /\ final = pos[Len(parts) + 1] /\ l = final - pos[k] + 1
    BY <1>4, <1>6 DEF final, tok, n
  <2>2. TurnsOf(closed, mem, pos[k], l, e)
    BY <1>8 DEF tok
  <2> QED BY <2>1, <2>2, Loop DEF m, tok
<1>10. PICK pos1 : Laid(parts, e, m, pos1, k + N, final) /\ pos1[k + N] = s
  BY <1>9 DEF Ran, s
<1>11. m \in Seq(SepChars) /\ Len(m) = size
  <2>1. N \in 0..l - 1
    BY <1>5, <1>6, <1>9
  <2> QED BY <1>8, <2>1 DEF TurnsOf, m, size
<1>12. Stops(m, s, {":"}, e) /\ (m[s] = Nul <=> k + N = n + 1)
  <2>1. CASE k + N = n + 1
    <3>1. Stops(m, pos1[Len(parts) + 1], {":"}, e) /\ m[pos1[Len(parts) + 1]] = Nul
      BY <1>10, EndStops, Zenon
    <3> QED BY <1>10, <2>1, <3>1 DEF n
  <2>2. CASE k + N # n + 1
    <3>1. k + N \in 1..Len(parts) /\ parts[k + N].is = "delim"
      BY <1>1, <1>5, <2>2 DEF n
    <3> DEFINE j == k + N
    <3>2. j \in 1..Len(parts) /\ parts[j].is = "delim" /\ Laid(parts, e, m, pos1, j, final) /\ pos1[j] = s
      BY <1>10, <3>1
    <3> HIDE DEF j
    <3>3. Stops(m, pos1[j], {":"}, e) /\ m[pos1[j]] # Nul
      BY <3>2, DelimStops
    <3> QED BY <2>2, <3>2, <3>3
  <2> QED BY <2>1, <2>2
<1>13. s \in Nat /\ s >= 1 /\ s <= final
  BY <1>3, <1>5, <1>6, <1>9 DEF s
<1>14. Min({i \in 0..l - 1 : Stops(closed[i], tok + i, {":"}, e)}) = N
  <2> DEFINE S == {i \in 0..l - 1 : Stops(closed[i], tok + i, {":"}, e)}
  <2>1. S \in SUBSET Nat /\ N \in S
    BY <1>5, <1>6, <1>9, <1>12 DEF m, s
  <2>2. \A i \in S : N <= i
    <3> SUFFICES ASSUME NEW i \in 0..l - 1, Stops(closed[i], tok + i, {":"}, e), ~(N <= i) PROVE FALSE
      OBVIOUS
    <3>1. i \in 0..N - 1
      BY <1>5
    <3> QED BY <1>9, <3>1
  <2> HIDE DEF S
  <2>3. Min(S) = N
    BY <2>1, <2>2, LeastIs
  <2> QED BY <2>3 DEF S
<1> DEFINE mem2 == [m EXCEPT ![s] = Nul]
           r == Separate(mem, tok, l, {":"}, e)
<1>15. r = IF m[s] = Nul THEN [mem |-> m, stringp |-> 0] ELSE [mem |-> mem2, stringp |-> s + 1]
  BY <1>14, Zenon DEF Separate, closed, m, s
<1>16. ASSUME NEW x, x \in Seq(SepChars), Len(x) = size, x[s] = Nul, \A p \in Nat : p # s => x[p] = m[p]
       PROVE  TextAt(x, tok) = CharsOf(parts, k, N)
  <2>1. \A q \in 0..N - 1 : tok + q \in Nat /\ tok + q # s
    BY <1>3, <1>5 DEF s
  <2>2. \A q \in 0..N - 1 : x[tok + q] = parts[k + q].c
    BY <1>9, <1>16, <2>1 DEF Ran
  <2>3. ASSUME NEW q \in 0..N - 1 PROVE parts[k + q].c # Nul
    <3>1. k + q \in 1..Len(parts)
      BY <1>1, <1>5 DEF n
    <3>2. parts[k + q] \in PartsOf(e)
      BY <3>1, ElementOfSeq
    <3> QED BY <3>2 DEF PartsOf, TextChars, Nul
  <2>4. x[tok + N] = Nul /\ tok + N <= Len(x) /\ \A q \in 0..N - 1 : x[tok + q] # Nul
    <3>1. tok + N <= size
      BY <1>3, <1>13 DEF s
    <3> QED BY <1>16, <2>2, <2>3, <3>1 DEF s
  <2>5. TextAt(x, tok) = [q \in 1..N |-> x[tok + q - 1]]
    BY <1>3, <1>5, <1>16, <2>4, TextIs
  <2>6. ASSUME NEW q \in 1..N PROVE x[tok + q - 1] = parts[k + q - 1].c
    <3> DEFINE d == q - 1
    <3>1. d \in 0..N - 1 /\ tok + d = tok + q - 1 /\ k + d = k + q - 1
      BY <1>1, <1>3, <1>5
    <3> HIDE DEF d
    <3>2. x[tok + d] = parts[k + d].c
      BY <2>2, <3>1
    <3> QED BY <3>1, <3>2
  <2> QED BY <2>5, <2>6 DEF CharsOf
<1> HIDE DEF mem2, r
<1>17. stresep(mem, tok, {":"}, e) = [mem |-> r.mem, stringp |-> r.stringp, tok |-> TextAt(r.mem, tok)]
  BY <1>7, Zenon DEF stresep, r
<1>18. CASE k + N = n + 1
  <2>1. r.mem = m /\ r.stringp = 0 /\ m[s] = Nul
    BY <1>12, <1>15, <1>18
  <2>2. TextAt(m, tok) = CharsOf(parts, k, N)
    BY <1>11, <1>16, <2>1
  <2> QED BY <1>11, <1>17, <1>18, <2>1, <2>2 DEF Took, n, size, tok
<1>19. CASE k + N # n + 1
  <2>1. r.mem = mem2 /\ r.stringp = s + 1
    BY <1>12, <1>15, <1>19
  <2>2. DOMAIN m = 1..size /\ s \in 1..size
    BY <1>3, <1>11, <1>13, LenProperties
  <2>3. mem2 \in Seq(SepChars) /\ Len(mem2) = size
    <3>1. mem2 \in [1..size -> SepChars]
      <4>1. m \in [1..size -> SepChars] /\ Nul \in SepChars
        BY <1>11, LenProperties DEF SepChars
      <4> QED BY <2>2, <4>1 DEF mem2
    <3> QED BY <1>2, <3>1
  <2>4. mem2[s] = Nul
    BY <2>2 DEF mem2
  <2>5. \A p \in Nat : p # s => mem2[p] = m[p]
    BY <2>2 DEF mem2
  <2>6. TextAt(mem2, tok) = CharsOf(parts, k, N)
    BY <1>16, <2>3, <2>4, <2>5
  <2> DEFINE j == k + N
  <2>7. Laid(parts, e, mem2, pos1, j + 1, size) /\ pos1[j + 1] = s + 1
    <3>0. j \in 1..n /\ j \in Nat /\ parts[j].is = "delim" /\ Laid(parts, e, m, pos1, j, final) /\ pos1[j] = s
      BY <1>1, <1>5, <1>10, <1>19
    <3> HIDE DEF j
    <3>1. /\ \A i \in j..n + 1 : pos1[i] \in Nat /\ pos1[i] >= 1 /\ pos1[i] <= pos1[n + 1]
          /\ pos1[n + 1] <= final
          /\ \A i \in j..n : /\ pos1[i + 1] = pos1[i] + Width(parts[i])
                             /\ m[pos1[i]] = BytesOf(parts[i], e)[1]
                             /\ parts[i].is = "escaped" => m[pos1[i] + 1] = parts[i].c
          /\ \A p \in pos1[j]..pos1[n + 1] - 1 : m[p] # Nul
          /\ m[pos1[n + 1]] = Nul
      BY <3>0, Zenon DEF Laid, n
    <3>2. j \in j..n /\ j + 1 \in j..n + 1 /\ n + 1 \in j..n + 1 /\ n \in Nat /\ n + 1 \in j + 1..n + 1
      BY <1>1, <3>0
    <3>3. Width(parts[j]) = 1
      BY <3>0 DEF Width
    <3>4. pos1[j + 1] = s + 1
      BY <3>0, <3>1, <3>2, <3>3
    <3> DEFINE end == pos1[n + 1]
    <3>5. end \in Nat /\ end = pos1[n + 1] /\ end <= final /\ end >= s + 1
      BY <3>1, <3>2, <3>4
    <3> HIDE DEF end
    <3>6. \A i \in j + 1..n + 1 : pos1[i] >= s + 1
      <4> DEFINE P == {d \in Nat : j + 1 + d <= n + 1 => pos1[j + 1 + d] >= s + 1}
      <4>1. 0 \in P
        <5>1. j + 1 + 0 = j + 1
          BY <3>0
        <5> QED BY <1>13, <3>4, <5>1
      <4>2. ASSUME NEW d \in Nat, d \in P PROVE d + 1 \in P
        <5> SUFFICES ASSUME j + 1 + (d + 1) <= n + 1 PROVE pos1[j + 1 + (d + 1)] >= s + 1
          OBVIOUS
        <5> DEFINE i == j + 1 + d
        <5>1. i \in j..n /\ i \in j..n + 1 /\ pos1[i] >= s + 1 /\ j + 1 + (d + 1) = i + 1
          BY <3>0, <3>2, <4>2
        <5> HIDE DEF i
        <5>2. pos1[i + 1] = pos1[i] + Width(parts[i]) /\ pos1[i] \in Nat
          BY <3>1, <5>1
        <5>3. Width(parts[i]) \in {1, 2}
          BY DEF Width
        <5> QED BY <1>13, <5>1, <5>2, <5>3
      <4> HIDE DEF P
      <4>3. \A d \in Nat : d \in P
        BY <4>1, <4>2, InductionOnSet, Zenon
      <4> SUFFICES ASSUME NEW i \in j + 1..n + 1 PROVE pos1[i] >= s + 1
        OBVIOUS
      <4>6. j \in Nat /\ n \in Nat
        BY <3>0, <3>2
      <4>4. i - j - 1 \in Nat /\ j + 1 + (i - j - 1) = i /\ i <= n + 1
        BY <4>6
      <4>5. i - j - 1 \in P
        BY <4>3, <4>4
      <4> QED BY <4>4, <4>5 DEF P
    <3>7. \A i \in j + 1..n + 1 : pos1[i] \in Nat /\ pos1[i] >= 1 /\ pos1[i] <= pos1[n + 1]
      BY <3>0, <3>1, <3>2
    <3>8. end <= size
      BY <1>3, <3>5
    <3>9. ASSUME NEW i \in j + 1..n
          PROVE  /\ pos1[i + 1] = pos1[i] + Width(parts[i])
                 /\ mem2[pos1[i]] = BytesOf(parts[i], e)[1]
                 /\ parts[i].is = "escaped" => mem2[pos1[i] + 1] = parts[i].c
      <4>1. i \in j..n /\ i \in j + 1..n + 1
        BY <3>0, <3>2
      <4>2. pos1[i] \in Nat /\ pos1[i] >= s + 1
        BY <3>6, <3>7, <4>1
      <4>3. pos1[i] # s /\ pos1[i] + 1 # s /\ pos1[i] + 1 \in Nat
        BY <1>13, <4>2
      <4>4. mem2[pos1[i]] = m[pos1[i]] /\ mem2[pos1[i] + 1] = m[pos1[i] + 1]
        BY <2>5, <4>2, <4>3
      <4> QED BY <3>1, <4>1, <4>4
    <3>10. \A p \in pos1[j + 1]..pos1[n + 1] - 1 : mem2[p] # Nul
      <4> SUFFICES ASSUME NEW p \in s + 1..end - 1 PROVE mem2[p] # Nul
        BY <3>4, <3>5
      <4>1. p \in s..end - 1 /\ p \in Nat /\ p # s
        BY <1>13, <3>5
      <4>2. m[p] # Nul
        BY <3>0, <3>1, <3>5, <4>1
      <4> QED BY <2>5, <4>1, <4>2
    <3>11. mem2[pos1[n + 1]] = Nul
      <4>1. end # s
        BY <1>13, <3>5
      <4> QED BY <2>5, <3>1, <3>5, <4>1
    <3>12. size \in Nat /\ size <= Len(mem2) /\ pos1[n + 1] <= size
      BY <1>2, <2>3, <3>5, <3>8 DEF size
    <3> QED BY <2>3, <3>4, <3>7, <3>9, <3>10, <3>11, <3>12, Zenon DEF Laid, n
  <2>8. s + 1 # 0
    BY <1>13
  <2> QED BY <1>17, <1>19, <2>1, <2>3, <2>6, <2>7, <2>8 DEF Took, n, size, tok
<1> QED BY <1>18, <1>19 DEF size, tok

LEMMA LastOf ==
  ASSUME NEW S, NEW s \in Seq(S), NEW x \in S
  PROVE  Front(Append(s, x)) = s /\ Last(Append(s, x)) = x
<1> DEFINE t == Append(s, x)
           n == Len(s)
<1>1. t \in Seq(S) /\ Len(t) = n + 1 /\ (\A i \in 1..n : t[i] = s[i]) /\ t[n + 1] = x /\ n \in Nat
  BY AppendProperties, LenProperties
<1> HIDE DEF t, n
<1>2. Last(t) = x
  BY <1>1 DEF Last
<1>3. Front(t) = SubSeq(t, 1, n)
  <2>1. n + 1 - 1 = n
    BY <1>1
  <2> QED BY <1>1, <2>1 DEF Front
<1>4. SubSeq(t, 1, n) \in Seq(S) /\ Len(SubSeq(t, 1, n)) = n /\ \A i \in 1..Len(SubSeq(t, 1, n)) : SubSeq(t, 1, n)[i] = t[i]
  BY <1>1, Beginning
<1>5. SubSeq(t, 1, n) = s
  <2>1. \A i \in 1..Len(SubSeq(t, 1, n)) : SubSeq(t, 1, n)[i] = s[i]
    BY <1>1, <1>4
  <2> QED BY <1>4, <2>1, SeqEqual DEF n
<1> QED BY <1>2, <1>3, <1>5 DEF t

(* The tokens of the first parts.                                          *)
Word == Seq(TextChars)
TokenSeqs == Seq(Word) \ {<<>>}
TokenStep(t, part) ==
  IF part.is = "delim" THEN Append(t, <<>>) ELSE Append(Front(t), Append(Last(t), part.c))
TokensOf(T, parts) ==
  /\ T[0] = <<<<>>>> /\ \A k \in 0..Len(parts) : T[k] \in TokenSeqs
  /\ \A k \in 1..Len(parts) : T[k] = TokenStep(T[k - 1], parts[k])

LEMMA TokenTyped ==
  ASSUME NEW t \in TokenSeqs, NEW e, NEW part \in PartsOf(e)
  PROVE  /\ TokenStep(t, part) \in TokenSeqs
         /\ Len(TokenStep(t, part)) >= Len(t)
         /\ \A q \in 1..Len(t) - 1 : TokenStep(t, part)[q] = t[q]
<1> DEFINE n == Len(t)
<1>1. t \in Seq(Word) /\ n \in Nat /\ n >= 1
  <2>1. t \in Seq(Word) /\ t # <<>>
    BY DEF TokenSeqs
  <2> QED BY <2>1, LenProperties, EmptySeq
<1>2. part.c \in TextChars /\ <<>> \in Word
  BY EmptySeq DEF PartsOf, Word
<1> HIDE DEF n
<1>3. CASE part.is = "delim"
  <2>1. /\ Append(t, <<>>) \in Seq(Word) /\ Append(t, <<>>) # <<>> /\ Len(Append(t, <<>>)) = n + 1
        /\ \A q \in 1..n : Append(t, <<>>)[q] = t[q]
    BY <1>1, <1>2, AppendProperties DEF n
  <2>2. TokenStep(t, part) = Append(t, <<>>)
    BY <1>3 DEF TokenStep
  <2> QED BY <1>1, <2>1, <2>2 DEF TokenSeqs, n
<1>4. CASE part.is # "delim"
  <2> DEFINE front == Front(t)
             final == Last(t)
  <2>1. front \in Seq(Word) /\ Len(front) = n - 1 /\ \A q \in 1..n - 1 : front[q] = t[q]
    <3>1. front = SubSeq(t, 1, n - 1)
      BY DEF Front, n
    <3>2. n - 1 \in Int /\ n - 1 <= Len(t) /\ ~(n - 1 < 0)
      BY <1>1 DEF n
    <3> DEFINE m == n - 1
    <3> HIDE DEF m, front
    <3>3. /\ SubSeq(t, 1, m) \in Seq(Word) /\ Len(SubSeq(t, 1, m)) = (IF m < 0 THEN 0 ELSE m)
          /\ \A i \in 1..Len(SubSeq(t, 1, m)) : SubSeq(t, 1, m)[i] = t[i]
      BY <1>1, <3>2, Beginning DEF m
    <3> QED BY <3>1, <3>2, <3>3 DEF m
  <2>2. final \in Word
    <3>1. n \in 1..Len(t)
      BY <1>1 DEF n
    <3>2. t[n] \in Word
      BY <1>1, <3>1, ElementOfSeq
    <3> QED BY <3>2 DEF Last, n
  <2> HIDE DEF front, final
  <2>3. Append(final, part.c) \in Word
    BY <1>2, <2>2, AppendProperties DEF Word
  <2> DEFINE more == Append(final, part.c)
             new == Append(front, more)
  <2> HIDE DEF more
  <2>4. more \in Word
    BY <2>3 DEF more
  <2>5. new \in Seq(Word) /\ new # <<>> /\ Len(new) = Len(front) + 1 /\ \A q \in 1..Len(front) : new[q] = front[q]
    BY <2>1, <2>4, AppendProperties
  <2> HIDE DEF new
  <2>6. TokenStep(t, part) = new
    BY <1>4 DEF TokenStep, new, more, front, final
  <2>7. Len(new) = n /\ \A q \in 1..n - 1 : new[q] = t[q]
    BY <1>1, <2>1, <2>5
  <2> QED BY <1>1, <2>5, <2>6, <2>7 DEF TokenSeqs, n
<1> QED BY <1>3, <1>4

LEMMA TokensAre ==
  ASSUME NEW e, text \in Seq(PartsOf(e))
  PROVE  \E T : TokensOf(T, text) /\ Tokens = T[Len(text)]
<1> DEFINE n == Len(text)
           step == [k \in 1..n |-> [t \in TokenSeqs |-> TokenStep(t, text[k])]]
           Body(f) == [k \in 0..n |-> IF k = 0 THEN <<<<>>>>
                                      ELSE LET before == f[k - 1]
                                           IN  IF text[k].is = "delim" THEN Append(before, <<>>)
                                               ELSE Append(Front(before), Append(Last(before), text[k].c))]
           T == CHOOSE f : f = Body(f)
<1>1. n \in Nat /\ \A k \in 1..n : text[k] \in PartsOf(e)
  BY LenProperties, ElementOfSeq
<1>2. <<<<>>>> \in TokenSeqs
  <2>1. <<>> \in Word
    BY EmptySeq DEF Word
  <2> HIDE DEF n
  <2> QED BY <2>1 DEF TokenSeqs
<1> HIDE DEF n
<1>3. step \in [1..n -> [TokenSeqs -> TokenSeqs]]
  BY <1>1, TokenTyped
<1>4. PICK f : Stepped(f, TokenSeqs, <<<<>>>>, step, n)
  BY <1>1, <1>2, <1>3, Steps
<1>5. f \in [0..n -> TokenSeqs] /\ f[0] = <<<<>>>> /\ \A k \in 1..n : f[k] = step[k][f[k - 1]]
  BY <1>4, Zenon DEF Stepped
<1>6. \A k \in 1..n : f[k] = TokenStep(f[k - 1], text[k])
  <2> SUFFICES ASSUME NEW k \in 1..n PROVE f[k] = TokenStep(f[k - 1], text[k])
    OBVIOUS
  <2>1. k - 1 \in 0..n
    BY <1>1
  <2>2. f[k - 1] \in TokenSeqs /\ f[k] = step[k][f[k - 1]]
    BY <1>5, <2>1
  <2>3. step[k] = [t \in TokenSeqs |-> TokenStep(t, text[k])]
    OBVIOUS
  <2> QED BY <2>2, <2>3
<1>7. f = Body(f)
  <2>1. f = [k \in 0..n |-> f[k]]
    BY <1>5
  <2>2. ASSUME NEW k \in 0..n
        PROVE  f[k] = IF k = 0 THEN <<<<>>>>
                      ELSE LET before == f[k - 1]
                           IN  IF text[k].is = "delim" THEN Append(before, <<>>)
                               ELSE Append(Front(before), Append(Last(before), text[k].c))
    <3>1. CASE k = 0
      BY <1>5, <3>1
    <3>2. CASE k # 0
      <4>1. k \in 1..n
        BY <1>1, <3>2
      <4>2. f[k] = TokenStep(f[k - 1], text[k])
        BY <1>6, <4>1, Zenon
      <4> QED BY <3>2, <4>2, Zenon DEF TokenStep
    <3> QED BY <3>1, <3>2
  <2> QED BY <2>1, <2>2, Zenon
<1>8. T = Body(T)
  BY <1>7, Zenon
<1>9. Tokens = T[n]
  BY Zenon DEF Tokens, T, n
<1> HIDE DEF T
<1>10. T[0] = <<<<>>>> /\ \A k \in 1..n : T[k] = TokenStep(T[k - 1], text[k])
  <2>1. 0 \in 0..n
    BY <1>1
  <2>2. T[0] = <<<<>>>>
    BY <1>8, <2>1, Zenon
  <2>3. ASSUME NEW k \in 1..n PROVE T[k] = TokenStep(T[k - 1], text[k])
    <3>1. k \in 0..n /\ k # 0
      OBVIOUS
    <3> QED BY <1>8, <3>1, Zenon DEF TokenStep
  <2> QED BY <2>2, <2>3
<1>11. \A k \in Nat : k <= n => T[k] \in TokenSeqs
  <2> DEFINE P == {k \in Nat : k <= n => T[k] \in TokenSeqs}
  <2>1. 0 \in P
    BY <1>2, <1>10
  <2>2. ASSUME NEW k \in Nat, k \in P PROVE k + 1 \in P
    <3> SUFFICES ASSUME k + 1 <= n PROVE T[k + 1] \in TokenSeqs
      OBVIOUS
    <3> DEFINE j == k + 1
    <3>1. j \in 1..n /\ j - 1 = k /\ T[k] \in TokenSeqs
      BY <1>1, <2>2
    <3> HIDE DEF j
    <3>2. T[j] = TokenStep(T[k], text[j]) /\ text[j] \in PartsOf(e)
      BY <1>1, <1>10, <3>1
    <3> QED BY <3>1, <3>2, TokenTyped DEF j
  <2> HIDE DEF P
  <2>3. \A k \in Nat : k \in P
    BY <2>1, <2>2, InductionOnSet, Zenon
  <2> QED BY <2>3 DEF P
<1>12. \A k \in 0..n : T[k] \in TokenSeqs
  BY <1>1, <1>11
<1> QED BY <1>9, <1>10, <1>12, Zenon DEF TokensOf, n

(* Tokens that are complete stay as they are.                              *)
LEMMA TokenKeeps ==
  ASSUME NEW e, NEW parts \in Seq(PartsOf(e)), NEW T, TokensOf(T, parts), NEW done \in Seq(Word), NEW x \in Word,
         NEW j \in 0..Len(parts), T[j] = Append(done, x)
  PROVE  IsPrefix(done, T[Len(parts)])
<1> DEFINE n == Len(parts)
           Keeps(t) == Len(t) > Len(done) /\ \A q \in 1..Len(done) : t[q] = done[q]
           P == {d \in Nat : j + d <= n => Keeps(T[j + d])}
<1>1. n \in Nat /\ Len(done) \in Nat /\ \A k \in 1..n : parts[k] \in PartsOf(e)
  BY LenProperties, ElementOfSeq
<1>2. (\A k \in 0..n : T[k] \in TokenSeqs) /\ \A k \in 1..n : T[k] = TokenStep(T[k - 1], parts[k])
  BY Zenon DEF TokensOf
<1> HIDE DEF n
<1>3. 0 \in P
  <2>1. Keeps(Append(done, x))
    BY <1>1, AppendProperties
  <2>2. j + 0 = j
    BY <1>1
  <2> QED BY <2>1, <2>2
<1>4. ASSUME NEW d \in Nat, d \in P PROVE d + 1 \in P
  <2> SUFFICES ASSUME j + (d + 1) <= n PROVE Keeps(T[j + (d + 1)])
    OBVIOUS
  <2> DEFINE i == j + d
  <2>1. i + 1 \in 1..n /\ (i + 1) - 1 = i /\ i \in 0..n /\ Keeps(T[i]) /\ j + (d + 1) = i + 1
    BY <1>1, <1>4 DEF n
  <2> HIDE DEF i
  <2>2. T[i + 1] = TokenStep(T[i], parts[i + 1]) /\ T[i] \in TokenSeqs /\ parts[i + 1] \in PartsOf(e)
    <3>1. T[i + 1] = TokenStep(T[(i + 1) - 1], parts[i + 1])
      BY <1>2, <2>1, Zenon
    <3> QED BY <1>1, <1>2, <2>1, <3>1
  <2> DEFINE t == T[i]
             new == T[i + 1]
             part == parts[i + 1]
  <2>3. new \in TokenSeqs /\ Len(new) >= Len(t) /\ \A q \in 1..Len(t) - 1 : new[q] = t[q]
    <3>1. new = TokenStep(t, part) /\ t \in TokenSeqs /\ part \in PartsOf(e)
      BY <2>2
    <3> HIDE DEF new, t, part
    <3> QED BY <3>1, TokenTyped
  <2>4. Keeps(t)
    BY <2>1
  <2>5. t \in TokenSeqs
    BY <2>2
  <2> HIDE DEF t, new
  <2>6. Len(t) \in Nat /\ Len(new) \in Nat
    BY <2>3, <2>5, LenProperties DEF TokenSeqs
  <2>7. Keeps(new)
    BY <1>1, <2>3, <2>4, <2>6
  <2> QED BY <2>1, <2>7 DEF new
<1> HIDE DEF P
<1>5. \A d \in Nat : d \in P
  BY <1>3, <1>4, InductionOnSet, Zenon
<1>6. Keeps(T[n])
  <2>1. n - j \in Nat /\ j + (n - j) = n
    BY <1>1 DEF n
  <2>2. n - j \in P
    BY <1>5, <2>1
  <2> QED BY <2>1, <2>2 DEF P
<1>7. T[n] \in Seq(Word)
  BY <1>1, <1>2 DEF TokenSeqs
<1>8. Len(T[n]) \in Nat
  BY <1>7, LenProperties
<1> QED BY <1>1, <1>6, <1>7, <1>8, PrefixIs DEF n

(* A token grows a character with every part that is no delimiter.         *)
LEMMA TokenGrows ==
  ASSUME NEW e, NEW parts \in Seq(PartsOf(e)), NEW T, TokensOf(T, parts), NEW done \in Seq(Word),
         NEW k \in 1..Len(parts) + 1, T[k - 1] = Append(done, <<>>), NEW N, EndsAfter(parts, k, N)
  PROVE  /\ CharsOf(parts, k, N) \in Word
         /\ T[k + N - 1] = Append(done, CharsOf(parts, k, N))
         /\ k + N # Len(parts) + 1 => T[k + N] = Append(Append(done, CharsOf(parts, k, N)), <<>>)
<1> DEFINE n == Len(parts)
           GrownTo(i) == CharsOf(parts, k, i) \in Word /\ T[k + i - 1] = Append(done, CharsOf(parts, k, i))
           P == {i \in Nat : i <= N => GrownTo(i)}
<1>1. n \in Nat /\ \A j \in 1..n : parts[j] \in PartsOf(e)
  BY LenProperties, ElementOfSeq
<1>2. (\A j \in 0..n : T[j] \in TokenSeqs) /\ \A j \in 1..n : T[j] = TokenStep(T[j - 1], parts[j])
  BY Zenon DEF TokensOf
<1>3. /\ N \in Nat /\ k + N <= n + 1 /\ \A q \in 0..N - 1 : parts[k + q].is # "delim"
      /\ k + N = n + 1 \/ parts[k + N].is = "delim"
  BY Zenon DEF EndsAfter
<1> HIDE DEF n
<1>4. 0 \in P
  <2>1. CharsOf(parts, k, 0) = <<>>
    BY DEF CharsOf
  <2>2. <<>> \in Word
    BY EmptySeq DEF Word
  <2>3. k + 0 - 1 = k - 1
    BY <1>1 DEF n
  <2> QED BY <2>1, <2>2, <2>3
<1>5. ASSUME NEW i \in Nat, i \in P PROVE i + 1 \in P
  <2> SUFFICES ASSUME i + 1 <= N PROVE GrownTo(i + 1)
    OBVIOUS
  <2> DEFINE j == k + i
             before == CharsOf(parts, k, i)
             word == CharsOf(parts, k, i + 1)
  <2>1. j \in 1..n /\ j - 1 = k + i - 1 /\ j = k + (i + 1) - 1 /\ i \in 0..N - 1 /\ i <= N
    BY <1>1, <1>3 DEF n
  <2>2. before \in Word /\ T[j - 1] = Append(done, before)
    BY <1>5, <2>1
  <2>3. parts[j].is # "delim" /\ parts[j] \in PartsOf(e)
    BY <1>1, <1>3, <2>1
  <2>4. T[j] = TokenStep(Append(done, before), parts[j])
    BY <1>2, <2>1, <2>2
  <2>5. Len(before) = i
    <3>1. before = [q \in 1..i |-> parts[k + q - 1].c]
      BY DEF CharsOf
    <3>2. before \in Seq(TextChars)
      BY <2>2 DEF Word
    <3>3. DOMAIN before = 1..i /\ DOMAIN before = 1..Len(before) /\ Len(before) \in Nat
      BY <3>1, <3>2, LenProperties
    <3> QED BY <3>3
  <2>6. parts[j].c \in TextChars
    BY <2>3 DEF PartsOf
  <2>7. word = [q \in 1..i + 1 |-> parts[k + q - 1].c] /\ \A q \in 1..i : before[q] = parts[k + q - 1].c
    BY DEF CharsOf
  <2> DEFINE c == parts[j].c
             app == Append(before, c)
  <2> HIDE DEF before, word, c, app
  <2>8. app \in Seq(TextChars) /\ Len(app) = i + 1 /\ (\A q \in 1..i : app[q] = before[q]) /\ app[i + 1] = c
    BY <2>2, <2>5, <2>6, AppendProperties DEF Word, app, c
  <2>9. word = app
    <3>1. app = [q \in 1..i + 1 |-> app[q]]
      BY <2>8
    <3>2. ASSUME NEW q \in 1..i + 1 PROVE app[q] = parts[k + q - 1].c
      <4>1. CASE q = i + 1
        BY <2>1, <2>8, <4>1 DEF c, j
      <4>2. CASE q # i + 1
        <5>1. q \in 1..i
          BY <4>2
        <5> QED BY <2>7, <2>8, <5>1
      <4> QED BY <4>1, <4>2
    <3> QED BY <2>7, <3>1, <3>2
  <2>10. T[j] = Append(done, app)
    <3>1. Front(Append(done, before)) = done /\ Last(Append(done, before)) = before
      BY <2>2, LastOf
    <3> QED BY <2>3, <2>4, <3>1, Zenon DEF TokenStep, app, c
  <2> QED BY <2>1, <2>8, <2>9, <2>10 DEF Word, word
<1> HIDE DEF P
<1>6. N \in P
  BY <1>3, <1>4, <1>5, InductionOnSet, Zenon
<1>7. GrownTo(N)
  BY <1>3, <1>6 DEF P
<1>8. ASSUME k + N # n + 1 PROVE T[k + N] = Append(Append(done, CharsOf(parts, k, N)), <<>>)
  <2>1. k + N \in 1..n /\ parts[k + N].is = "delim" /\ (k + N) - 1 = k + N - 1
    BY <1>1, <1>3, <1>8 DEF n
  <2>2. T[k + N] = TokenStep(T[(k + N) - 1], parts[k + N])
    BY <1>2, <2>1, Zenon
  <2> QED BY <1>7, <2>1, <2>2 DEF TokenStep
<1> QED BY <1>7, <1>8 DEF n

(* The string TakeApart puts into memory.                                  *)
LEMMA InMemoryIs ==
  ASSUME esc \in {"\\", Nul}, text \in Seq(PartsOf(esc)), text # <<>>
  PROVE  /\ Append(InMemory, Nul) # <<>>
         /\ \E pos : /\ Laid(text, esc, Append(InMemory, Nul), pos, 1, Len(Append(InMemory, Nul)))
                     /\ pos[1] = 1
<1> DEFINE n == Len(text)
           parts == [i \in 1..n |-> BytesOf(text[i], esc)]
<1>1. n \in Nat /\ DOMAIN text = 1..n /\ \A i \in 1..n : text[i] \in PartsOf(esc)
  BY LenProperties, ElementOfSeq
<1>2. ASSUME NEW i \in 1..n
      PROVE  /\ BytesOf(text[i], esc) \in Seq(TextChars) /\ Len(BytesOf(text[i], esc)) = Width(text[i])
             /\ text[i].is = "escaped" => BytesOf(text[i], esc)[2] = text[i].c
  <2>1. text[i].c \in TextChars /\ (text[i].is = "escaped" => esc \in TextChars)
    BY <1>1 DEF PartsOf, TextChars
  <2> QED BY <2>1 DEF BytesOf, Width
<1>3. InMemory = FlattenSeq(parts)
  BY <1>1 DEF InMemory, BytesOf
<1> HIDE DEF n
<1>4. parts \in [1..n -> Seq(TextChars)] /\ \A i \in 1..n : parts[i] = BytesOf(text[i], esc)
  BY <1>2
<1> HIDE DEF parts
<1>5. PICK h \in [0..n -> Seq(TextChars)] : Joined(h, parts, n) /\ FlattenSeq(parts) = h[n]
  BY <1>1, <1>4, Flattened
<1>6. Lying(h, parts, n)
  BY <1>1, <1>4, <1>5, JoinedAt
<1> DEFINE whole == h[n]
           size == Len(whole)
           mem == Append(whole, Nul)
           pos == [j \in 1..n + 1 |-> Len(h[j - 1]) + 1]
<1>7. whole \in Seq(TextChars) /\ size \in Nat
  <2>1. n \in 0..n
    BY <1>1
  <2> QED BY <1>5, <2>1, LenProperties
<1>8. /\ mem \in Seq(SepChars) /\ mem # <<>> /\ Len(mem) = size + 1 /\ mem[size + 1] = Nul
      /\ \A p \in 1..size : mem[p] = whole[p] /\ whole[p] \in TextChars
  <2>1. whole \in Seq(SepChars) /\ Nul \in SepChars
    BY <1>7, SeqMonotonic DEF SepChars
  <2>2. \A p \in 1..size : whole[p] \in TextChars
    BY <1>7, ElementOfSeq
  <2> HIDE DEF whole
  <2> QED BY <2>1, <2>2, AppendProperties
<1>9. ASSUME NEW j \in 1..n + 1 PROVE pos[j] \in Nat /\ pos[j] >= 1 /\ pos[j] <= size + 1
  <2>1. j - 1 \in 0..n
    BY <1>1
  <2>2. Len(h[j - 1]) \in Nat /\ Len(h[j - 1]) <= size
    BY <1>6, <2>1 DEF Lying
  <2>3. pos[j] = Len(h[j - 1]) + 1
    OBVIOUS
  <2> HIDE DEF pos, size
  <2> DEFINE a == Len(h[j - 1])
  <2>4. a \in Nat /\ a <= size /\ pos[j] = a + 1
    BY <2>2, <2>3
  <2> HIDE DEF a
  <2> QED BY <1>7, <2>4
<1>10. pos[1] = 1 /\ pos[n + 1] = size + 1
  <2>1. 1 \in 1..n + 1 /\ n + 1 \in 1..n + 1 /\ 1 - 1 = 0 /\ (n + 1) - 1 = n
    BY <1>1
  <2>2. Len(h[0]) = 0
    BY <1>6 DEF Lying
  <2> QED BY <2>1, <2>2
<1>11. ASSUME NEW j \in 1..n
       PROVE  /\ pos[j + 1] = pos[j] + Width(text[j])
              /\ mem[pos[j]] = BytesOf(text[j], esc)[1]
              /\ text[j].is = "escaped" => mem[pos[j] + 1] = text[j].c
  <2> DEFINE part == parts[j]
             w == Len(part)
             a == Len(h[j - 1])
  <2>1. part = BytesOf(text[j], esc) /\ w = Width(text[j]) /\ (text[j].is = "escaped" => part[2] = text[j].c)
    BY <1>2, <1>4
  <2>2. Len(h[j]) = a + w /\ \A i \in 1..w : whole[a + i] = part[i]
    BY <1>6, Zenon DEF Lying
  <2>3. pos[j] = a + 1 /\ pos[j + 1] = Len(h[j]) + 1
    <3>1. j \in 1..n + 1 /\ j + 1 \in 1..n + 1 /\ (j + 1) - 1 = j
      BY <1>1
    <3> QED BY <3>1
  <2>4. a \in Nat /\ Len(h[j]) <= size
    <3>1. j - 1 \in 0..n /\ j \in 0..n
      BY <1>1
    <3> QED BY <1>6, <3>1 DEF Lying
  <2>5. w = IF text[j].is = "escaped" THEN 2 ELSE 1
    BY <2>1 DEF Width
  <2> HIDE DEF a, w, part, whole, size, mem, pos
  <2>6. pos[j + 1] = pos[j] + Width(text[j])
    BY <2>1, <2>2, <2>3, <2>4, <2>5
  <2>7. 1 \in 1..w /\ a + 1 \in 1..size /\ (text[j].is = "escaped" => 2 \in 1..w /\ a + 2 \in 1..size /\ a + 1 + 1 = a + 2)
    BY <1>7, <2>2, <2>4, <2>5
  <2>8. mem[a + 1] = part[1] /\ (text[j].is = "escaped" => mem[a + 2] = part[2])
    BY <1>8, <2>2, <2>7
  <2> QED BY <2>1, <2>3, <2>6, <2>7, <2>8
<1> HIDE DEF pos, mem, size, whole
<1>12. \A p \in pos[1]..pos[n + 1] - 1 : mem[p] # Nul
  <2> SUFFICES ASSUME NEW p \in 1..size PROVE mem[p] # Nul
    BY <1>7, <1>10
  <2> QED BY <1>8 DEF TextChars, Nul
<1>13. Laid(text, esc, mem, pos, 1, Len(mem))
  <2>1. Len(mem) \in Nat /\ Len(mem) <= Len(mem) /\ pos[n + 1] <= Len(mem)
    BY <1>7, <1>8, <1>10
  <2>2. \A j \in 1..n + 1 : pos[j] \in Nat /\ pos[j] >= 1 /\ pos[j] <= pos[n + 1]
    BY <1>9, <1>10
  <2>3. mem[pos[n + 1]] = Nul
    BY <1>8, <1>10
  <2> QED BY <1>8, <1>11, <1>12, <2>1, <2>2, <2>3, Zenon DEF Laid, n
<1>14. InMemory = whole
  BY <1>3, <1>5 DEF whole
<1>15. mem = Append(InMemory, Nul)
  BY <1>14 DEF mem
<1> QED BY <1>8, <1>10, <1>13, <1>15

(* What is left of the string lies in memory, and the tokens are those of  *)
(* the parts that are done.                                                *)
TakenOff(T) ==
  /\ stringp = 0 => toks = T[Len(text)]
  /\ stringp # 0 => \E k \in 1..Len(text) + 1 : \E pos :
       Laid(text, esc, str, pos, k, Len(str)) /\ pos[k] = stringp /\ T[k - 1] = Append(toks, <<>>)

SepInv ==
  /\ delims = {":"} /\ esc \in {"\\", Nul}
  /\ text \in Seq(PartsOf(esc)) /\ toks \in Seq(Word)
  /\ str = <<>> => stringp = 0 /\ toks = <<>>
  /\ str # <<>> => \E T : TokensOf(T, text) /\ Tokens = T[Len(text)] /\ TakenOff(T)

LEMMA InitSep == StringInit => SepInv
<1> SUFFICES ASSUME StringInit PROVE SepInv
  OBVIOUS
<1>1. /\ delims = {":"} /\ esc \in {"\\", Nul} /\ text = <<>> /\ toks = <<>> /\ str = <<>> /\ stringp = 0
  BY DEF StringInit
<1>2. text \in Seq(PartsOf(esc)) /\ toks \in Seq(Word)
  BY <1>1, EmptySeq
<1> QED BY <1>1, <1>2 DEF SepInv

LEMMA SepKept == ASSUME SepInv, UNCHANGED sepVars PROVE SepInv'
<1>1. UNCHANGED <<delims, esc, text, str, stringp, toks>>
  BY DEF sepVars
<1>2. Tokens' = Tokens
  BY <1>1 DEF Tokens
<1>3. \A T : TakenOff(T) => TakenOff(T)'
  BY <1>1 DEF TakenOff
<1> QED BY <1>1, <1>2, <1>3 DEF SepInv

LEMMA AddStep ==
  ASSUME SepInv, NEW is, NEW c, AddText(is, c), [is |-> is, c |-> c] \in PartsOf(esc)
  PROVE  SepInv'
<1>1. /\ str = <<>> /\ text' = Append(text, [is |-> is, c |-> c])
      /\ UNCHANGED <<delims, esc, str, stringp, toks>>
  BY DEF AddText, Separating
<1>2. text' \in Seq(PartsOf(esc))
  BY <1>1, AppendProperties DEF SepInv
<1> QED BY <1>1, <1>2 DEF SepInv

LEMMA TakeStep == ASSUME SepInv, TakeApart PROVE SepInv'
<1>1. /\ str = <<>> /\ text # <<>> /\ str' = Append(InMemory, Nul) /\ stringp' = 1
      /\ UNCHANGED <<delims, esc, text, toks>>
  BY DEF TakeApart, Separating
<1>2. esc \in {"\\", Nul} /\ text \in Seq(PartsOf(esc)) /\ toks = <<>> /\ delims = {":"}
  BY <1>1 DEF SepInv
<1>3. str' # <<>> /\ \E pos : Laid(text, esc, str', pos, 1, Len(str')) /\ pos[1] = 1
  <2>1. /\ Append(InMemory, Nul) # <<>>
        /\ \E pos : /\ Laid(text, esc, Append(InMemory, Nul), pos, 1, Len(Append(InMemory, Nul)))
                    /\ pos[1] = 1
    BY <1>1, <1>2, InMemoryIs
  <2> QED BY <1>1, <2>1, Zenon
<1>4. PICK pos : Laid(text, esc, str', pos, 1, Len(str')) /\ pos[1] = 1
  BY <1>3
<1>5. PICK T : TokensOf(T, text) /\ Tokens = T[Len(text)]
  BY <1>2, TokensAre
<1>6. T[1 - 1] = Append(toks, <<>>)
  <2>1. T[0] = <<<<>>>>
    BY <1>5, Zenon DEF TokensOf
  <2> QED BY <1>2, <2>1
<1>7. 1 \in 1..Len(text) + 1
  BY <1>2, LenProperties
<1>8. TakenOff(T)'
  <2>1. \E k \in 1..Len(text) + 1 : \E p : Laid(text, esc, str', p, k, Len(str')) /\ p[k] = 1 /\ T[k - 1] = Append(toks, <<>>)
    BY <1>4, <1>6, <1>7, Zenon
  <2> QED BY <1>1, <2>1 DEF TakenOff
<1>9. Tokens' = Tokens
  BY <1>1 DEF Tokens
<1>10. \E U : TokensOf(U, text') /\ Tokens' = U[Len(text')] /\ TakenOff(U)'
  BY <1>1, <1>5, <1>8, <1>9, Zenon
<1>11. toks \in Seq(Word)
  BY DEF SepInv
<1> QED BY <1>1, <1>2, <1>3, <1>10, <1>11, Zenon DEF SepInv

LEMMA StresepStep == ASSUME SepInv, Stresep PROVE SepInv'
<1> DEFINE r == stresep(str, stringp, delims, esc)
           n == Len(text)
<1>1. /\ stringp # 0 /\ str' = r.mem /\ stringp' = r.stringp /\ toks' = Append(toks, r.tok)
      /\ UNCHANGED <<delims, esc, text>>
  BY Zenon DEF Stresep, Separating
<1>2. /\ esc \in {"\\", Nul} /\ text \in Seq(PartsOf(esc)) /\ toks \in Seq(Word) /\ delims = {":"}
      /\ str # <<>>
  BY <1>1, Zenon DEF SepInv
<1>3. PICK T : TokensOf(T, text) /\ Tokens = T[n] /\ TakenOff(T)
  BY <1>2, Zenon DEF SepInv
<1>4. PICK k \in 1..n + 1 : \E p : Laid(text, esc, str, p, k, Len(str)) /\ p[k] = stringp /\ T[k - 1] = Append(toks, <<>>)
  BY <1>1, <1>3, Zenon DEF TakenOff
<1>16. PICK pos : Laid(text, esc, str, pos, k, Len(str)) /\ pos[k] = stringp /\ T[k - 1] = Append(toks, <<>>)
  BY <1>4
<1>5. PICK N : EndsAfter(text, k, N)
  BY <1>2, EndIs
<1>6. n \in Nat /\ N \in Nat /\ k + N <= n + 1
  BY <1>2, <1>5, LenProperties DEF EndsAfter
<1>7. Took(r, text, esc, k, N, Len(str))
  <2>1. Took(stresep(str, pos[k], {":"}, esc), text, esc, k, N, Len(str))
    BY <1>2, <1>16, <1>5, StresepIs
  <2> QED BY <1>2, <1>16, <2>1, Zenon
<1> DEFINE word == CharsOf(text, k, N)
<1> HIDE DEF r
<1>8. /\ r.tok = word /\ Len(r.mem) = Len(str)
      /\ k + N = n + 1 => r.stringp = 0
      /\ k + N # n + 1 => /\ r.stringp # 0
                          /\ \E p : Laid(text, esc, r.mem, p, k + N + 1, Len(str)) /\ p[k + N + 1] = r.stringp
  BY <1>7, Zenon DEF Took
<1>9. /\ word \in Word /\ T[k + N - 1] = Append(toks, word)
      /\ k + N # n + 1 => T[k + N] = Append(Append(toks, word), <<>>)
  BY <1>2, <1>3, <1>16, <1>5, TokenGrows
<1> HIDE DEF word
<1>10. toks' \in Seq(Word) /\ toks' = Append(toks, word)
  <2>1. Append(toks, word) \in Seq(Word)
    BY <1>2, <1>9, AppendProperties
  <2> QED BY <1>1, <1>8, <2>1
<1>11. Len(str) >= 1
  <2>1. k \in k..n + 1
    BY <1>6
  <2> QED BY <1>16, <2>1 DEF Laid
<1>12. str' # <<>>
  <2> SUFFICES ASSUME str' = <<>> PROVE FALSE
    OBVIOUS
  <2>1. Len(str) = 0
    BY <1>1, <1>8, EmptySeq
  <2> QED BY <1>11, <2>1
<1>15. ASSUME TakenOff(T)' PROVE \E U : TokensOf(U, text') /\ Tokens' = U[Len(text')] /\ TakenOff(U)'
  <2>1. Tokens' = Tokens
    BY <1>1 DEF Tokens
  <2> QED BY <1>1, <1>3, <1>15, <2>1, Zenon DEF n
<1> HIDE DEF n
<1>13. CASE k + N = n + 1
  <2>1. k + N - 1 = n
    BY <1>6, <1>13
  <2>2. toks' = T[n] /\ stringp' = 0
    BY <1>1, <1>8, <1>9, <1>10, <1>13, <2>1
  <2>3. TakenOff(T)'
    BY <1>1, <2>2 DEF TakenOff, n
  <2> QED BY <1>1, <1>2, <1>10, <1>12, <1>15, <2>3, Zenon DEF SepInv
<1>14. CASE k + N # n + 1
  <2> DEFINE j == k + N + 1
  <2>1. j \in 1..n + 1 /\ j - 1 = k + N
    BY <1>6, <1>14
  <2> HIDE DEF j
  <2>2. T[j - 1] = Append(toks', <<>>) /\ stringp' # 0
    BY <1>1, <1>8, <1>9, <1>10, <1>14, <2>1
  <2>3. PICK p : Laid(text, esc, r.mem, p, j, Len(str)) /\ p[j] = r.stringp
    BY <1>8, <1>14 DEF j
  <2>4. Laid(text, esc, str', p, j, Len(str')) /\ p[j] = stringp'
    BY <1>1, <1>8, <2>3
  <2>5. TakenOff(T)'
    <3>1. \E i \in 1..n + 1 : \E q : Laid(text, esc, str', q, i, Len(str')) /\ q[i] = stringp' /\ T[i - 1] = Append(toks', <<>>)
      BY <2>1, <2>2, <2>4, Zenon
    <3> QED BY <1>1, <2>2, <3>1 DEF TakenOff, n
  <2> QED BY <1>1, <1>2, <1>10, <1>12, <1>15, <2>5, Zenon DEF SepInv
<1> QED BY <1>13, <1>14

LEMMA SepStep == ASSUME SepInv, StringNext PROVE SepInv'
<1>1. ASSUME NEW c \in {"a", ":", "\\"}, AddText("escaped", c) PROVE SepInv'
  <2>1. [is |-> "escaped", c |-> c] \in PartsOf(esc)
    BY <1>1 DEF PartsOf, TextChars, AddText
  <2> QED BY <1>1, <2>1, AddStep
<1>2. CASE AddText("char", "a")
  <2>1. [is |-> "char", c |-> "a"] \in PartsOf(esc)
    BY DEF PartsOf, TextChars
  <2> QED BY <1>2, <2>1, AddStep
<1>3. CASE AddText("delim", ":")
  <2>1. [is |-> "delim", c |-> ":"] \in PartsOf(esc)
    BY DEF PartsOf, TextChars
  <2> QED BY <1>3, <2>1, AddStep
<1>4. CASE UNCHANGED sepVars
  BY <1>4, SepKept
<1> QED BY <1>1, <1>2, <1>3, <1>4, TakeStep, StresepStep
         DEF StringNext, Edup, Ecall, Einformed, Ealloc, esetfunc, Fill, Strlcpy, Strlcat, Estrlcpy, Estrlcat, Shquote, Building

LEMMA SepInvRight == SepInv => TokensRight
<1> SUFFICES ASSUME SepInv PROVE TokensRight
  OBVIOUS
<1>1. esc \in {"\\", Nul} /\ text \in Seq(PartsOf(esc)) /\ toks \in Seq(Word)
  BY DEF SepInv
<1>2. CASE str = <<>>
  <2>1. PICK T : TokensOf(T, text) /\ Tokens = T[Len(text)]
    BY <1>1, TokensAre
  <2>2. Tokens \in Seq(Word)
    <3>1. Len(text) \in 0..Len(text)
      BY <1>1, LenProperties
    <3> QED BY <2>1, <3>1 DEF TokensOf, TokenSeqs
  <2>3. toks = <<>> /\ Len(toks) = 0
    BY <1>2, EmptySeq DEF SepInv
  <2>4. Len(Tokens) \in Nat
    BY <2>2, LenProperties
  <2>5. IsPrefix(toks, Tokens)
    <3>1. Len(toks) <= Len(Tokens) /\ \A i \in 1..Len(toks) : toks[i] = Tokens[i]
      BY <2>3, <2>4
    <3> QED BY <1>1, <2>2, <3>1, PrefixIs
  <2> QED BY <1>2, <2>5 DEF TokensRight
<1>3. CASE str # <<>>
  <2>1. PICK T : TokensOf(T, text) /\ Tokens = T[Len(text)] /\ TakenOff(T)
    BY <1>3 DEF SepInv
  <2>2. CASE stringp = 0
    <3>1. toks = Tokens
      BY <2>1, <2>2 DEF TakenOff
    <3>2. IsPrefix(toks, toks)
      BY <1>1, PrefixSelf
    <3> QED BY <3>1, <3>2 DEF TokensRight
  <2>3. CASE stringp # 0
    <3>1. PICK k \in 1..Len(text) + 1 : T[k - 1] = Append(toks, <<>>)
      BY <2>1, <2>3 DEF TakenOff
    <3> DEFINE j == k - 1
    <3>2. j \in 0..Len(text) /\ T[j] = Append(toks, <<>>) /\ <<>> \in Word
      BY <1>1, <3>1, LenProperties, EmptySeq DEF Word
    <3> HIDE DEF j
    <3>3. IsPrefix(toks, T[Len(text)])
      BY <1>1, <2>1, <3>2, TokenKeeps
    <3> QED BY <2>1, <2>3, <3>3 DEF TokensRight
  <2> QED BY <2>2, <2>3
<1> QED BY <1>2, <1>3

(***************************************************************************)
(* For any strings and sizes, whichever allocations fail: what strlcpy and *)
(* strlcat leave is the beginning of what was asked for, and whoever looks *)
(* at what they return, or calls estrlcpy, knows when it is not all;       *)
(* stresep gives the tokens of any text one by one, the escape characters  *)
(* taken away; and sh reads back the word that shquote wrote, if it fits.  *)
(***************************************************************************)
THEOREM StringsCorrect == StringSpec => []StringsRight
<1> DEFINE Inv == PathInv /\ SepInv /\ QuoteInv
<1>1. StringInit => Inv
  BY InitPath, InitSep DEF QuoteInv, StringInit
<1>2. Inv /\ [StringNext]_stringVars => Inv'
  <2> SUFFICES ASSUME Inv, [StringNext]_stringVars PROVE Inv'
    OBVIOUS
  <2>1. CASE StringNext
    BY <2>1, PathStep, SepStep, QuoteStep
  <2>2. CASE UNCHANGED stringVars
    <3>1. UNCHANGED <<pathVars, efunVars>> /\ UNCHANGED sepVars /\ UNCHANGED quoted
      BY <2>2 DEF stringVars
    <3>2. QuoteInv'
      BY <3>1 DEF QuoteInv
    <3> QED BY <3>1, <3>2, PathKept, SepKept
  <2> QED BY <2>1, <2>2
<1>3. Inv => StringsRight
  BY PathInvRight, SepInvRight, QuoteInvRight DEF StringsRight
<1> QED BY <1>1, <1>2, <1>3, PTL DEF StringSpec

-----------------------------------------------------------------------------
(* Strings of vis: what strnunvisx has done after each byte of src.        *)
FedBy(fed, src, dlen, f) ==
  fed[0] = Unfed /\ \A k \in 1..Len(src) : fed[k] = Fed(fed[k - 1], src[k], dlen, f)

LEMMA FedIs ==
  ASSUME NEW src, Len(src) \in Nat, NEW dlen, NEW f
  PROVE  \E fed : FedBy(fed, src, dlen, f) /\ strnunvisx(src, dlen, f) = Finished(fed[Len(src)], dlen)
<1> DEFINE n == Len(src)
           Body(g) == [i \in 0..n |-> IF i = 0 THEN Unfed ELSE Fed(g[i - 1], src[i], dlen, f)]
           fed == CHOOSE g : g = Body(g)
           P == {m \in Nat : \E g : g[0] = Unfed /\ \A k \in 1..m : g[k] = Fed(g[k - 1], src[k], dlen, f)}
<1>1. 0 \in P
  <2> DEFINE g == [k \in 0..0 |-> Unfed]
  <2>1. g[0] = Unfed /\ \A k \in 1..0 : g[k] = Fed(g[k - 1], src[k], dlen, f)
    OBVIOUS
  <2> QED BY <2>1
<1>2. ASSUME NEW m \in Nat, m \in P PROVE m + 1 \in P
  <2>1. PICK g : g[0] = Unfed /\ \A k \in 1..m : g[k] = Fed(g[k - 1], src[k], dlen, f)
    BY <1>2
  <2> DEFINE x == Fed(g[m], src[m + 1], dlen, f)
  <2> HIDE DEF x
  <2> DEFINE h == [k \in 0..m + 1 |-> IF k = m + 1 THEN x ELSE g[k]]
  <2>2. h[0] = Unfed /\ h[m + 1] = x /\ m + 1 - 1 = m /\ h[m] = g[m]
    BY <2>1
  <2>3. \A k \in 1..m : h[k] = g[k] /\ h[k - 1] = g[k - 1]
    OBVIOUS
  <2> HIDE DEF h
  <2>4. ASSUME NEW k \in 1..m + 1 PROVE h[k] = Fed(h[k - 1], src[k], dlen, f)
    <3>1. CASE k = m + 1
      <4>1. k - 1 = m
        BY <3>1
      <4> QED BY <2>2, <3>1, <4>1, Zenon DEF x
    <3>2. CASE k # m + 1
      <4>1. k \in 1..m
        BY <3>2
      <4>2. h[k] = g[k] /\ h[k - 1] = g[k - 1] /\ g[k] = Fed(g[k - 1], src[k], dlen, f)
        BY <2>1, <2>3, <4>1, Zenon
      <4> QED BY <4>2, Zenon
    <3> QED BY <3>1, <3>2
  <2> QED BY <2>2, <2>4
<1> HIDE DEF P
<1>3. n \in P
  BY <1>1, <1>2, InductionOnSet, Zenon
<1>4. PICK h : h[0] = Unfed /\ \A k \in 1..n : h[k] = Fed(h[k - 1], src[k], dlen, f)
  BY <1>3 DEF P
<1> DEFINE g == [i \in 0..n |-> h[i]]
<1> HIDE DEF n
<1>5. n \in Nat
  BY DEF n
<1>6. \A i \in 0..n : g[i] = h[i]
  OBVIOUS
<1>7. g = Body(g)
  <2>1. ASSUME NEW i \in 0..n PROVE h[i] = IF i = 0 THEN Unfed ELSE Fed(g[i - 1], src[i], dlen, f)
    <3>1. CASE i = 0
      BY <1>4, <3>1, Zenon
    <3>2. CASE i # 0
      <4>1. i \in 1..n /\ i - 1 \in 0..n
        BY <1>5, <3>2
      <4>2. g[i - 1] = h[i - 1] /\ h[i] = Fed(h[i - 1], src[i], dlen, f)
        BY <1>4, <1>6, <4>1, Zenon
      <4> QED BY <3>2, <4>2, Zenon
    <3> QED BY <3>1, <3>2
  <2> QED BY <2>1, Zenon
<1> HIDE DEF g
<1>8. fed = Body(fed)
  BY <1>7, Zenon
<1>9. strnunvisx(src, dlen, f) = Finished(fed[n], dlen)
  BY Zenon DEF strnunvisx, n, fed
<1> HIDE DEF fed
<1>10. fed[0] = Unfed
  <2>1. 0 \in 0..n
    BY <1>5
  <2> QED BY <1>8, <2>1, Zenon
<1>11. ASSUME NEW k \in 1..n PROVE fed[k] = Fed(fed[k - 1], src[k], dlen, f)
  <2>1. k \in 0..n /\ k # 0
    BY <1>5
  <2> QED BY <1>8, <2>1, Zenon
<1> QED BY <1>9, <1>10, <1>11, Zenon DEF FedBy, n

LEMMA OneLonger ==
  ASSUME NEW S, NEW s \in Seq(S), NEW m \in Nat, m < Len(s)
  PROVE  /\ SubSeq(s, 1, m) \in Seq(S) /\ Len(SubSeq(s, 1, m)) = m
         /\ s[m + 1] \in S
         /\ SubSeq(s, 1, m + 1) = Append(SubSeq(s, 1, m), s[m + 1])
<1> DEFINE u == SubSeq(s, 1, m)
           j == m + 1
           v == SubSeq(s, 1, j)
           w == Append(u, s[j])
<1>1. Len(s) \in Nat
  BY LenProperties
<1>2. j \in Int /\ j <= Len(s) /\ ~(j < 0) /\ ~(m < 0) /\ m \in Int /\ m <= Len(s) /\ j \in 1..Len(s)
  BY <1>1
<1>3. s[j] \in S
  BY <1>2, ElementOfSeq
<1>4. u \in Seq(S) /\ Len(u) = m /\ \A i \in 1..Len(u) : u[i] = s[i]
  BY <1>2, Beginning
<1> HIDE DEF j, u
<1>5. v \in Seq(S) /\ Len(v) = j /\ \A i \in 1..Len(v) : v[i] = s[i]
  BY <1>2, Beginning
<1>6. w \in Seq(S) /\ Len(w) = Len(u) + 1 /\ (\A i \in 1..Len(u) : w[i] = u[i]) /\ w[Len(u) + 1] = s[j]
  BY <1>3, <1>4, AppendProperties
<1> HIDE DEF v, w
<1>7. Len(v) = Len(w) /\ j = m + 1
  BY <1>4, <1>5, <1>6 DEF j
<1>8. \A i \in 1..Len(v) : v[i] = w[i]
  BY <1>4, <1>5, <1>6, <1>7
<1>9. v = w
  BY <1>5, <1>6, <1>7, <1>8, SeqEqual
<1> QED BY <1>3, <1>4, <1>9 DEF u, v, w, j

(* How a string is written: h is what its first bytes are encoded as.      *)
Spelt(of, f, parts, nexts, h) ==
  /\ of \in Seq(Octets) /\ Len(of) \in Nat /\ "noescape" \notin f
  /\ parts \in [1..Len(of) -> Seq(Octets)] /\ h \in [0..Len(of) -> Seq(Octets)]
  /\ Lying(h, parts, Len(of))
  /\ \A i \in 1..Len(of) : Written(parts[i], of[i], f, nexts[i])
  /\ \A i \in 1..Len(of) - 1 : ~IsOctal(nexts[i]) => ~IsOctal(of[i + 1])

(* Of the encoding of byte m + 1, rest has still to be given.              *)
MidByte(t, p, m, rest, of, f, nexts, h) ==
  /\ m \in Nat /\ m < Len(of) /\ rest \in Seq(Octets)
  /\ t.text = SubSeq(of, 1, m)
  /\ p + Len(rest) = Len(h[m + 1])
  /\ \A j \in 1..Len(rest) : h[Len(of)][p + j] = rest[j]
  /\ \/ rest # <<>> /\ Reads(t.decoder, rest, of[m + 1], f)
     \/ Shortened(t.decoder, rest) /\ of[m + 1] = 0 /\ ~IsOctal(nexts[m + 1])

AtEnd(t, p, of, h) == t.decoder.st = "GROUND" /\ t.text = of /\ p = Len(h[Len(of)])
(* p bytes have been given, and all that were complete are there.          *)
On(t, p, of, f, nexts, h, dlen) ==
  /\ ~t.failed /\ Len(t.text) <= dlen
  /\ AtEnd(t, p, of, h) \/ \E m, rest : MidByte(t, p, m, rest, of, f, nexts, h)
(* There was no room for the next.                                         *)
Off(t, of, dlen) == t.failed /\ dlen < Len(of) /\ t.text = SubSeq(of, 1, dlen)

LEMMA StartsByte ==
  ASSUME NEW of, NEW f, NEW parts, NEW nexts, NEW h, Spelt(of, f, parts, nexts, h),
         NEW t, t.decoder.st = "GROUND", NEW m \in 0..Len(of), t.text = SubSeq(of, 1, m)
  PROVE  \/ AtEnd(t, Len(h[m]), of, h)
         \/ m < Len(of) /\ MidByte(t, Len(h[m]), m, parts[m + 1], of, f, nexts, h) /\ parts[m + 1] # <<>>
<1>1. of \in Seq(Octets) /\ Len(of) \in Nat /\ Lying(h, parts, Len(of))
  BY DEF Spelt
<1>2. CASE m = Len(of)
  <2>1. SubSeq(of, 1, Len(of)) = of
    BY <1>1, SubSeqFull
  <2> QED BY <1>2, <2>1 DEF AtEnd
<1>3. CASE m # Len(of)
  <2> DEFINE i == m + 1
             p == Len(h[m])
             part == parts[i]
  <2>1. i \in 1..Len(of) /\ i - 1 = m /\ m \in Nat /\ m < Len(of)
    BY <1>1, <1>3
  <2> HIDE DEF i
  <2>2. Written(part, of[i], f, nexts[i])
    BY <2>1 DEF Spelt
  <2>3. Len(h[i]) = p + Len(part) /\ \A j \in 1..Len(part) : h[Len(of)][p + j] = part[j]
    <3>1. Len(h[i]) = Len(h[i - 1]) + Len(parts[i]) /\ \A j \in 1..Len(parts[i]) : h[Len(of)][Len(h[i - 1]) + j] = parts[i][j]
      BY <1>1, <2>1, Zenon DEF Lying
    <3> QED BY <2>1, <3>1
  <2> HIDE DEF p, part
  <2>4. part \in Seq(Octets) /\ part # <<>>
    BY <2>2 DEF Written
  <2>5. \/ part # <<>> /\ Reads(t.decoder, part, of[i], f)
        \/ Shortened(t.decoder, part) /\ of[i] = 0 /\ ~IsOctal(nexts[i])
    <3>1. CASE Reads(Ground, part, of[i], f)
      BY <2>4, <3>1, GroundReads
    <3>2. CASE Short(part, of[i], nexts[i])
      BY <3>2 DEF Short, Shortened, ch
    <3> QED BY <2>2, <3>1, <3>2 DEF Written
  <2>6. MidByte(t, p, m, part, of, f, nexts, h)
    BY <2>1, <2>3, <2>4, <2>5, Zenon DEF MidByte, i
  <2> QED BY <2>1, <2>4, <2>6 DEF p, part, i
<1> QED BY <1>2, <1>3

LEMMA NothingStored ==
  ASSUME NEW t, NEW x, NEW dlen, NEW f, NEW d, unvis(t.decoder, x, f) = <<d, "NOCHAR">>
  PROVE  Given(t, x, dlen, f) = [decoder |-> d, text |-> t.text, failed |-> FALSE, again |-> FALSE]
<1> DEFINE r == <<d, "NOCHAR">>
<1>1. r[1] = d /\ r[2] = "NOCHAR"
  OBVIOUS
<1>2. unvis(t.decoder, x, f) = r
  OBVIOUS
<1> HIDE DEF r
<1>3. r[2] \notin {"VALID", "VALIDPUSH"} /\ r[2] # "SYNBAD" /\ r[2] # "VALIDPUSH"
  BY <1>1
<1> QED BY <1>1, <1>2, <1>3 DEF Given, Answered

StoredOrOff(g, of, m, dlen, returns) ==
  \/ Off(g, of, dlen) /\ ~g.again
  \/ /\ ~g.failed /\ m < dlen
     /\ g.decoder = Decoder("GROUND", of[m + 1]) /\ g.text = SubSeq(of, 1, m + 1)
     /\ g.again <=> returns = "VALIDPUSH"

LEMMA ByteStored ==
  ASSUME NEW t, NEW x, NEW dlen \in Nat, NEW f, NEW of, of \in Seq(Octets), NEW m \in Nat, m < Len(of),
         t.text = SubSeq(of, 1, m), m <= dlen,
         NEW returns \in {"VALID", "VALIDPUSH"},
         unvis(t.decoder, x, f) = <<Decoder("GROUND", of[m + 1]), returns>>
  PROVE  StoredOrOff(Given(t, x, dlen, f), of, m, dlen, returns)
<1> DEFINE c == of[m + 1]
           d == Decoder("GROUND", c)
           r == <<d, returns>>
           g == Given(t, x, dlen, f)
<1>1. r[1] = d /\ r[2] = returns
  OBVIOUS
<1>2. unvis(t.decoder, x, f) = r
  OBVIOUS
<1>3. d.cp = c
  BY DEF Decoder
<1> HIDE DEF d, r, c
<1>4. Len(t.text) = m /\ Append(t.text, c) = SubSeq(of, 1, m + 1)
  BY OneLonger DEF c
<1>5. r[2] \in {"VALID", "VALIDPUSH"} /\ r[2] # "SYNBAD"
  BY <1>1
<1> DEFINE full == Len(t.text) >= dlen
<1>6. /\ g.failed <=> full
      /\ g.again <=> ~full /\ r[2] = "VALIDPUSH"
      /\ g.decoder = r[1]
      /\ g.text = IF ~full THEN Append(t.text, r[1].cp) ELSE t.text
  <2>1. g.failed <=> full
    BY <1>2, <1>5, Zenon DEF Given, Answered
  <2>2. g.again <=> ~full /\ r[2] = "VALIDPUSH"
    BY <1>2, <1>5, Zenon DEF Given, Answered
  <2>3. g.decoder = r[1]
    BY <1>2, Zenon DEF Given, Answered
  <2>4. g.text = IF ~full THEN Append(t.text, r[1].cp) ELSE t.text
    BY <1>2, <1>5, Zenon DEF Given, Answered
  <2> QED BY <2>1, <2>2, <2>3, <2>4
<1> HIDE DEF g
<1>7. CASE m = dlen
  <2>1. Len(t.text) >= dlen
    BY <1>4, <1>7
  <2>2. g.failed /\ g.text = t.text /\ ~g.again
    BY <1>6, <2>1
  <2> QED BY <1>7, <2>2 DEF Off, StoredOrOff, g
<1>8. CASE m # dlen
  <2>1. ~(Len(t.text) >= dlen) /\ m < dlen
    BY <1>4, <1>8
  <2>2. ~g.failed /\ g.text = Append(t.text, c) /\ g.decoder = d /\ (g.again <=> returns = "VALIDPUSH")
    BY <1>1, <1>3, <1>6, <2>1
  <2> QED BY <1>4, <2>1, <2>2 DEF StoredOrOff, g, d, c
<1> QED BY <1>7, <1>8

LEMMA ByteGiven ==
  ASSUME NEW of, NEW f, NEW parts, NEW nexts, NEW h, Spelt(of, f, parts, nexts, h), NEW dlen \in Nat,
         NEW t, NEW p \in Nat, NEW m, NEW rest, MidByte(t, p, m, rest, of, f, nexts, h), rest # <<>>,
         m <= dlen, NEW x, x = h[Len(of)][p + 1]
  PROVE  /\ ~Given(t, x, dlen, f).again
         /\ Off(Given(t, x, dlen, f), of, dlen) \/ On(Given(t, x, dlen, f), p + 1, of, f, nexts, h, dlen)
<1> DEFINE g == Given(t, x, dlen, f)
           i == m + 1
           rest2 == Tail(rest)
           pp == p + 1
<1>0. of \in Seq(Octets) /\ Len(of) \in Nat /\ "noescape" \notin f
  BY DEF Spelt
<1>1. m \in Nat /\ m < Len(of) /\ rest \in Seq(Octets) /\ t.text = SubSeq(of, 1, m) /\ i \in 1..Len(of)
      /\ p + Len(rest) = Len(h[i]) /\ \A j \in 1..Len(rest) : h[Len(of)][p + j] = rest[j]
  BY <1>0 DEF MidByte
<1>2. /\ rest2 \in Seq(Octets) /\ Len(rest) \in Nat /\ Len(rest) # 0 /\ Len(rest2) = Len(rest) - 1
      /\ \A j \in 1..Len(rest) - 1 : rest2[j] = rest[j + 1]
      /\ Head(rest) = rest[1]
  BY <1>1
<1>3. x = Head(rest)
  <2>1. 1 \in 1..Len(rest)
    BY <1>2
  <2> QED BY <1>1, <1>2, <2>1
<1>4. Len(t.text) = m
  BY <1>1, OneLonger
<1> HIDE DEF g, i, rest2
<1>5. pp + Len(rest2) = Len(h[i]) /\ \A j \in 1..Len(rest2) : h[Len(of)][pp + j] = rest2[j]
  <2>1. pp + Len(rest2) = Len(h[i])
    <3> DEFINE a == Len(rest)
               b == Len(rest2)
    <3>1. a \in Nat /\ b = a - 1 /\ p + a = Len(h[i])
      BY <1>1, <1>2
    <3> HIDE DEF a, b
    <3>2. pp + b = p + a
      BY <3>1
    <3> QED BY <3>1, <3>2 DEF b
  <2>2. ASSUME NEW j \in 1..Len(rest2) PROVE h[Len(of)][pp + j] = rest2[j]
    <3> DEFINE k == j + 1
    <3>1. k \in 1..Len(rest) /\ j \in 1..Len(rest) - 1 /\ pp + j = p + k
      BY <1>2
    <3> HIDE DEF k
    <3>2. h[Len(of)][p + k] = rest[k]
      BY <1>1, <3>1
    <3> QED BY <1>2, <3>1, <3>2 DEF k
  <2> QED BY <2>1, <2>2
<1> HIDE DEF pp
(* What goes on with a decoder d.                                          *)
<1>6. ASSUME NEW d, unvis(t.decoder, x, f) = <<d, "NOCHAR">>,
             \/ rest2 # <<>> /\ Reads(d, rest2, of[i], f)
             \/ Shortened(d, rest2) /\ of[i] = 0 /\ ~IsOctal(nexts[i])
      PROVE  ~g.again /\ On(g, pp, of, f, nexts, h, dlen)
  <2>0. unvis(t.decoder, x, f) = <<d, "NOCHAR">>
    BY <1>6
  <2>1. g = [decoder |-> d, text |-> t.text, failed |-> FALSE, again |-> FALSE]
    BY <2>0, NothingStored DEF g
  <2>2. g.decoder = d /\ g.text = t.text /\ ~g.failed /\ ~g.again
    BY <2>1
  <2>3. MidByte(g, pp, m, rest2, of, f, nexts, h)
    BY <1>1, <1>2, <1>5, <1>6, <2>2, Zenon DEF MidByte, i
  <2> QED BY <1>4, <2>2, <2>3, Zenon DEF On
<1>7. CASE Reads(t.decoder, rest, of[i], f)
  <2>1. CASE rest2 = <<>> /\ unvis(t.decoder, x, f) = Valid(of[i])
    <3>1. unvis(t.decoder, x, f) = <<Decoder("GROUND", of[i]), "VALID">>
      BY <2>1 DEF Valid
    <3>2. StoredOrOff(g, of, m, dlen, "VALID")
      BY <1>0, <1>1, <3>1, ByteStored DEF g, i
    <3>3. CASE Off(g, of, dlen) /\ ~g.again
      BY <3>3 DEF g, pp
    <3>4. CASE ~(Off(g, of, dlen) /\ ~g.again)
      <4>1. ~g.failed /\ m < dlen /\ g.decoder = Decoder("GROUND", of[i]) /\ g.text = SubSeq(of, 1, i) /\ ~g.again
        BY <3>2, <3>4 DEF StoredOrOff, i
      <4>2. g.decoder.st = "GROUND" /\ i \in 0..Len(of)
        BY <1>1, <4>1 DEF Decoder
      <4>3. Len(g.text) = i
        <5>1. Len(SubSeq(of, 1, i)) = IF i < 0 THEN 0 ELSE i
          BY <1>0, <4>2, Beginning
        <5> QED BY <1>1, <4>1, <5>1
      <4>4. pp = Len(h[i])
        <5>1. Len(rest2) = 0
          BY <2>1, EmptySeq
        <5> QED BY <1>5, <5>1 DEF pp
      <4>5. AtEnd(g, pp, of, h) \/ \E n, s : MidByte(g, pp, n, s, of, f, nexts, h)
        BY <4>1, <4>2, <4>4, StartsByte
      <4>6. Len(g.text) <= dlen
        BY <1>1, <4>1, <4>3 DEF i
      <4> QED BY <4>1, <4>5, <4>6 DEF On, g, pp
    <3> QED BY <3>3, <3>4
  <2>2. CASE rest2 # <<>> /\ \E d : unvis(t.decoder, x, f) = <<d, "NOCHAR">> /\ Reads(d, rest2, of[i], f)
    <3>1. PICK d : unvis(t.decoder, x, f) = <<d, "NOCHAR">> /\ Reads(d, rest2, of[i], f)
      BY <2>2
    <3> QED BY <1>6, <2>2, <3>1 DEF g, pp
  <2>3. \/ rest2 = <<>> /\ unvis(t.decoder, x, f) = Valid(of[i])
        \/ rest2 # <<>> /\ \E d : unvis(t.decoder, x, f) = <<d, "NOCHAR">> /\ Reads(d, rest2, of[i], f)
    BY <1>1, <1>3, <1>7, ReadsStep DEF rest2
  <2> QED BY <2>1, <2>2, <2>3
<1>8. CASE Shortened(t.decoder, rest) /\ of[i] = 0 /\ ~IsOctal(nexts[i])
  <2>1. PICK d : unvis(t.decoder, x, f) = <<d, "NOCHAR">> /\ Shortened(d, rest2)
    BY <1>0, <1>3, <1>8, ShortenedStep DEF rest2
  <2> QED BY <1>6, <1>8, <2>1 DEF g, pp
<1>9. Reads(t.decoder, rest, of[i], f) \/ (Shortened(t.decoder, rest) /\ of[i] = 0 /\ ~IsOctal(nexts[i]))
  BY DEF MidByte, i
<1> QED BY <1>7, <1>8, <1>9

(* \0 was not followed by an octal digit: the byte is given once more.     *)
LEMMA ByteGivenBack ==
  ASSUME NEW of, NEW f, NEW parts, NEW nexts, NEW h, Spelt(of, f, parts, nexts, h), NEW dlen \in Nat,
         NEW t, NEW p \in Nat, NEW m, MidByte(t, p, m, <<>>, of, f, nexts, h),
         m <= dlen, p < Len(h[Len(of)]), NEW x, x = h[Len(of)][p + 1]
  PROVE  \/ Off(Given(t, x, dlen, f), of, dlen) /\ ~Given(t, x, dlen, f).again
         \/ /\ Given(t, x, dlen, f).again /\ ~Given(t, x, dlen, f).failed /\ m + 1 <= dlen
            /\ MidByte(Given(t, x, dlen, f), p, m + 1, parts[m + 2], of, f, nexts, h) /\ parts[m + 2] # <<>>
<1> DEFINE g == Given(t, x, dlen, f)
           i == m + 1
           k == m + 2
<1>0. of \in Seq(Octets) /\ Len(of) \in Nat /\ Lying(h, parts, Len(of))
  BY DEF Spelt
<1>1. m \in Nat /\ m < Len(of) /\ t.text = SubSeq(of, 1, m) /\ i \in 1..Len(of) /\ p + Len(<<>>) = Len(h[i])
      /\ Shortened(t.decoder, <<>>) /\ of[i] = 0 /\ ~IsOctal(nexts[i])
  BY <1>0 DEF MidByte
<1>2. p = Len(h[i])
  BY <1>1, EmptySeq
<1>3. i # Len(of)
  BY <1>2
<1>4. k \in 1..Len(of) /\ k - 1 = i /\ i \in 1..Len(of) - 1 /\ i + 1 = k /\ i \in 0..Len(of)
  BY <1>0, <1>1, <1>3
<1> HIDE DEF g, i, k
<1>5. ~IsOctal(of[k])
  BY <1>1, <1>4 DEF Spelt
<1>6. parts[k] \in Seq(Octets) /\ parts[k] # <<>> /\ ~IsOctal(parts[k][1])
  BY <1>4, <1>5 DEF Spelt, Written
<1>7. x = parts[k][1]
  <2>1. 1 \in 1..Len(parts[k])
    <3>1. Len(parts[k]) \in Nat /\ Len(parts[k]) # 0
      BY <1>6, LenProperties, EmptySeq
    <3> QED BY <3>1
  <2>2. h[Len(of)][Len(h[k - 1]) + 1] = parts[k][1]
    BY <1>0, <1>4, <2>1 DEF Lying
  <2> QED BY <1>2, <1>4, <2>2
<1>8. t.decoder = Decoder("OCTAL2", 0)
  <2>1. Len(<<>>) = 0 /\ Len(<<ch.zero>>) = 1 /\ Len(<<ch.bslash, ch.zero>>) = 2
    OBVIOUS
  <2> QED BY <1>1, <2>1 DEF Shortened
<1>9. unvis(t.decoder, x, f) = <<Decoder("GROUND", of[i]), "VALIDPUSH">>
  <2>1. unvis(Decoder("OCTAL2", 0), x, f) = Push(0)
    BY <1>6, <1>7 DEF unvis, Decoder
  <2> QED BY <1>1, <1>8, <2>1 DEF Push
<1>10. StoredOrOff(g, of, m, dlen, "VALIDPUSH")
  BY <1>0, <1>1, <1>9, ByteStored DEF g, i
<1>11. CASE Off(g, of, dlen) /\ ~g.again
  BY <1>11 DEF g
<1>12. CASE ~(Off(g, of, dlen) /\ ~g.again)
  <2>1. ~g.failed /\ m < dlen /\ g.decoder = Decoder("GROUND", of[i]) /\ g.text = SubSeq(of, 1, i) /\ g.again
    BY <1>10, <1>12 DEF StoredOrOff, i
  <2>2. g.decoder.st = "GROUND"
    BY <2>1 DEF Decoder
  <2>3. \/ AtEnd(g, Len(h[i]), of, h)
        \/ i < Len(of) /\ MidByte(g, Len(h[i]), i, parts[i + 1], of, f, nexts, h) /\ parts[i + 1] # <<>>
    BY <1>4, <2>1, <2>2, StartsByte
  <2>4. ~AtEnd(g, Len(h[i]), of, h)
    BY <1>0, <1>2 DEF AtEnd
  <2>5. MidByte(g, p, i, parts[k], of, f, nexts, h)
    BY <1>2, <1>4, <2>3, <2>4
  <2>6. i <= dlen
    BY <1>1, <2>1 DEF i
  <2> QED BY <1>6, <2>1, <2>5, <2>6 DEF g, i, k
<1> QED BY <1>11, <1>12

LEMMA ByteFed ==
  ASSUME NEW of, NEW f, NEW parts, NEW nexts, NEW h, Spelt(of, f, parts, nexts, h), NEW dlen \in Nat,
         NEW t, NEW p \in Nat, On(t, p, of, f, nexts, h, dlen), p < Len(h[Len(of)]), NEW x, x = h[Len(of)][p + 1]
  PROVE  On(Fed(t, x, dlen, f), p + 1, of, f, nexts, h, dlen) \/ Off(Fed(t, x, dlen, f), of, dlen)
<1> DEFINE once == Given(t, x, dlen, f)
           twice == Given(once, x, dlen, f)
<1>0. of \in Seq(Octets) /\ Len(of) \in Nat
  BY DEF Spelt
<1>1. ~t.failed /\ ~AtEnd(t, p, of, h) /\ Len(t.text) <= dlen
  <2>1. ~AtEnd(t, p, of, h)
    BY DEF AtEnd
  <2> QED BY <2>1 DEF On
<1>2. PICK m, rest : MidByte(t, p, m, rest, of, f, nexts, h)
  BY <1>1, Zenon DEF On
<1>3. m \in Nat /\ m <= dlen
  <2>1. m \in Nat /\ m < Len(of) /\ t.text = SubSeq(of, 1, m)
    BY <1>2, Zenon DEF MidByte
  <2>2. Len(t.text) = m
    BY <1>0, <2>1, OneLonger
  <2> QED BY <1>1, <2>1, <2>2
<1>4. Fed(t, x, dlen, f) = IF once.again THEN twice ELSE once
  BY <1>1, Zenon DEF Fed, Again
<1> HIDE DEF twice
<1>5. CASE rest # <<>>
  <2>1. ~once.again /\ (Off(once, of, dlen) \/ On(once, p + 1, of, f, nexts, h, dlen))
    BY <1>2, <1>3, <1>5, ByteGiven
  <2> HIDE DEF once
  <2> QED BY <1>4, <2>1
<1>6. CASE rest = <<>>
  <2>0. MidByte(t, p, m, <<>>, of, f, nexts, h)
    BY <1>2, <1>6
  <2>1. \/ Off(once, of, dlen) /\ ~once.again
        \/ /\ once.again /\ ~once.failed /\ m + 1 <= dlen
           /\ MidByte(once, p, m + 1, parts[m + 2], of, f, nexts, h) /\ parts[m + 2] # <<>>
    BY <1>3, <2>0, ByteGivenBack
  <2> HIDE DEF once
  <2>2. CASE Off(once, of, dlen) /\ ~once.again
    BY <1>4, <2>2
  <2>3. CASE /\ once.again /\ m + 1 <= dlen
             /\ MidByte(once, p, m + 1, parts[m + 2], of, f, nexts, h) /\ parts[m + 2] # <<>>
    <3> DEFINE i == m + 1
               part == parts[m + 2]
    <3> HIDE DEF i, part
    <3>1. i <= dlen /\ MidByte(once, p, i, part, of, f, nexts, h) /\ part # <<>>
      BY <2>3 DEF i, part
    <3>2. Off(twice, of, dlen) \/ On(twice, p + 1, of, f, nexts, h, dlen)
      BY <3>1, ByteGiven DEF twice
    <3> QED BY <1>4, <2>3, <3>2
  <2> QED BY <2>1, <2>2, <2>3
<1> QED BY <1>5, <1>6

LEMMA AllFed ==
  ASSUME NEW of, NEW f, NEW parts, NEW nexts, NEW h, Spelt(of, f, parts, nexts, h), NEW dlen \in Nat,
         NEW src, Len(src) \in Nat, Len(src) <= Len(h[Len(of)]), \A i \in 1..Len(src) : src[i] = h[Len(of)][i],
         NEW fed, FedBy(fed, src, dlen, f)
  PROVE  On(fed[Len(src)], Len(src), of, f, nexts, h, dlen) \/ Off(fed[Len(src)], of, dlen)
<1> DEFINE q == Len(src)
           Good(k) == On(fed[k], k, of, f, nexts, h, dlen) \/ Off(fed[k], of, dlen)
           P == {k \in Nat : k <= q => Good(k)}
<1>0. of \in Seq(Octets) /\ Len(of) \in Nat /\ Lying(h, parts, Len(of))
  BY DEF Spelt
<1>1. 0 \in P
  <2>1. fed[0] = Unfed
    BY DEF FedBy
  <2>2. Unfed.decoder.st = "GROUND" /\ Unfed.text = <<>> /\ ~Unfed.failed
    BY DEF Unfed, Ground, Decoder
  <2>3. SubSeq(of, 1, 0) = <<>>
    <3>1. SubSeq(of, 1, 0) \in Seq(Octets) /\ Len(SubSeq(of, 1, 0)) = 0
      BY <1>0, Beginning
    <3> QED BY <3>1, EmptySeq
  <2>4. Len(h[0]) = 0 /\ 0 \in 0..Len(of)
    BY <1>0 DEF Lying
  <2>5. AtEnd(Unfed, Len(h[0]), of, h) \/ \E m, rest : MidByte(Unfed, Len(h[0]), m, rest, of, f, nexts, h)
    BY <2>2, <2>3, <2>4, StartsByte
  <2>6. Len(Unfed.text) <= dlen
    BY <2>2, EmptySeq
  <2>7. On(Unfed, 0, of, f, nexts, h, dlen)
    BY <2>2, <2>4, <2>5, <2>6, Zenon DEF On
  <2> QED BY <2>1, <2>7
<1>2. ASSUME NEW k \in Nat, k \in P PROVE k + 1 \in P
  <2> SUFFICES ASSUME k + 1 <= q PROVE Good(k + 1)
    OBVIOUS
  <2> DEFINE i == k + 1
  <2>1. i \in 1..q /\ i - 1 = k /\ k < Len(h[Len(of)]) /\ Good(k)
    <3>1. Len(h[Len(of)]) \in Nat
      BY <1>0 DEF Lying
    <3> QED BY <1>2, <3>1
  <2> DEFINE x == h[Len(of)][k + 1]
  <2>2. fed[i] = Fed(fed[k], x, dlen, f)
    <3> HIDE DEF i
    <3>1. fed[i] = Fed(fed[i - 1], src[i], dlen, f)
      BY <2>1 DEF FedBy
    <3>2. src[i] = x
      BY <2>1 DEF i
    <3> QED BY <2>1, <3>1, <3>2
  <2>3. CASE On(fed[k], k, of, f, nexts, h, dlen)
    <3>1. On(Fed(fed[k], x, dlen, f), k + 1, of, f, nexts, h, dlen) \/ Off(Fed(fed[k], x, dlen, f), of, dlen)
      BY <2>1, <2>3, ByteFed
    <3> QED BY <2>2, <3>1
  <2>4. CASE Off(fed[k], of, dlen)
    <3>1. Fed(fed[k], x, dlen, f) = fed[k]
      BY <2>4, Zenon DEF Off, Fed
    <3> QED BY <2>2, <2>4, <3>1
  <2> QED BY <2>1, <2>3, <2>4
<1> HIDE DEF P, Good
<1>3. \A k \in Nat : k \in P
  BY <1>1, <1>2, InductionOnSet, Zenon
<1> QED BY <1>3 DEF P, Good

(* What unvis returns for the whole encoding, or for the beginning of it.  *)
Front1(s, of) == s = <<>> \/ IsPrefix(Front(s), of)
Returns(r, whole, of, dlen) ==
  /\ Len(r.text) + (IF r.ret >= 0 THEN 1 ELSE 0) <= dlen
  /\ r.ret >= 0 => Front1(r.text, of) /\ (whole => r.text = of)
  /\ r.ret = -1 /\ whole => dlen <= Len(of)

LEMMA FrontOf ==
  ASSUME NEW of \in Seq(Octets), NEW m \in Nat, m <= Len(of)
  PROVE  /\ Front1(SubSeq(of, 1, m), of)
         /\ m < Len(of) => \A c : Front1(Append(SubSeq(of, 1, m), c), of)
<1>1. Len(of) \in Nat
  BY LenProperties
<1>2. ASSUME NEW k \in Nat, k < Len(of) PROVE IsPrefix(SubSeq(of, 1, k), of)
  <2> DEFINE u == SubSeq(of, 1, k)
  <2>1. u \in Seq(Octets) /\ Len(u) = k
    BY <1>2, OneLonger
  <2>2. \A i \in 1..Len(u) : u[i] = of[i]
    <3>1. k \in Int /\ k <= Len(of)
      BY <1>1, <1>2
    <3> QED BY <3>1, Beginning, Zenon
  <2> HIDE DEF u
  <2>3. Len(u) <= Len(of)
    BY <1>1, <1>2, <2>1
  <2>4. IsPrefix(u, of)
    BY <2>1, <2>2, <2>3, PrefixIs
  <2> QED BY <2>4 DEF u
<1>3. ASSUME NEW k \in Nat, k < Len(of), NEW c PROVE Front1(Append(SubSeq(of, 1, k), c), of)
  <2> DEFINE S == Octets \cup {c}
             u == SubSeq(of, 1, k)
  <2>1. u \in Seq(Octets) /\ IsPrefix(u, of)
    BY <1>2, <1>3, OneLonger
  <2> HIDE DEF u
  <2>2. u \in Seq(S) /\ c \in S
    BY <2>1
  <2> HIDE DEF S
  <2>3. Front(Append(u, c)) = u
    BY <2>2, LastOf
  <2> QED BY <2>1, <2>3 DEF Front1, u
<1>4. Front1(SubSeq(of, 1, m), of)
  <2>1. CASE m = 0
    <3>1. SubSeq(of, 1, 0) \in Seq(Octets) /\ Len(SubSeq(of, 1, 0)) = 0
      BY <1>1, Beginning
    <3>2. SubSeq(of, 1, m) = <<>>
      BY <2>1, <3>1, EmptySeq
    <3> QED BY <3>2 DEF Front1
  <2>2. CASE m # 0
    <3> DEFINE k == m - 1
    <3>1. k \in Nat /\ k < Len(of) /\ k + 1 = m
      BY <1>1, <2>2
    <3> HIDE DEF k
    <3>2. SubSeq(of, 1, k + 1) = Append(SubSeq(of, 1, k), of[k + 1])
      BY <3>1, OneLonger
    <3>3. Front1(Append(SubSeq(of, 1, k), of[k + 1]), of)
      BY <1>3, <3>1
    <3> QED BY <3>1, <3>2, <3>3
  <2> QED BY <2>1, <2>2
<1> QED BY <1>3, <1>4

(* The end: of the whole encoding nothing is missing but a \0 that waits.  *)
LEMMA LastWaits ==
  ASSUME NEW of, NEW f, NEW parts, NEW nexts, NEW h, Spelt(of, f, parts, nexts, h),
         NEW t, NEW m, NEW rest, MidByte(t, Len(h[Len(of)]), m, rest, of, f, nexts, h)
  PROVE  m + 1 = Len(of) /\ t.decoder = Decoder("OCTAL2", 0) /\ of[m + 1] = 0
<1> DEFINE p == Len(h[Len(of)])
           i == m + 1
           k == m + 2
<1>0. of \in Seq(Octets) /\ Len(of) \in Nat /\ Lying(h, parts, Len(of))
  BY DEF Spelt
<1>1. m \in Nat /\ m < Len(of) /\ rest \in Seq(Octets) /\ i \in 1..Len(of) /\ p + Len(rest) = Len(h[i])
      /\ \/ rest # <<>>
         \/ Shortened(t.decoder, rest) /\ of[i] = 0
  BY <1>0 DEF MidByte
<1>2. Len(rest) \in Nat
  BY <1>1, LenProperties
<1>3. p \in Nat /\ Len(h[i]) \in Nat /\ Len(h[i]) <= p
  BY <1>0, <1>1 DEF Lying
<1>4. Len(rest) = 0 /\ Len(h[i]) = p
  BY <1>1, <1>2, <1>3
<1>5. rest = <<>>
  BY <1>1, <1>4, EmptySeq
<1>6. t.decoder = Decoder("OCTAL2", 0)
  <2>1. Len(<<>>) = 0 /\ Len(<<ch.zero>>) = 1 /\ Len(<<ch.bslash, ch.zero>>) = 2
    OBVIOUS
  <2> QED BY <1>1, <1>5, <2>1 DEF Shortened
<1>7. i = Len(of)
  <2> SUFFICES ASSUME i # Len(of) PROVE FALSE
    OBVIOUS
  <2>1. k \in 1..Len(of) /\ k - 1 = i /\ k \in 0..Len(of)
    BY <1>0, <1>1
  <2> HIDE DEF p, k, i
  <2>2. parts[k] \in Seq(Octets) /\ parts[k] # <<>>
    BY <2>1 DEF Spelt, Written
  <2>3. Len(parts[k]) \in Nat /\ Len(parts[k]) # 0
    BY <2>2, LenProperties, EmptySeq
  <2>4. Len(h[k]) = Len(h[k - 1]) + Len(parts[k])
    BY <1>0, <2>1 DEF Lying
  <2>5. Len(h[k]) <= p
    <3>1. \A j \in 0..Len(of) : Len(h[j]) <= Len(h[Len(of)])
      BY <1>0, Zenon DEF Lying
    <3>2. Len(h[k]) <= Len(h[Len(of)])
      BY <2>1, <3>1, Zenon
    <3> QED BY <3>2 DEF p
  <2>6. Len(h[k - 1]) = p
    BY <1>4, <2>1, Zenon
  <2> QED BY <1>3, <2>3, <2>4, <2>5, <2>6
<1> QED BY <1>1, <1>5, <1>6, <1>7

LEMMA FinishedRight ==
  ASSUME NEW of, NEW f, NEW parts, NEW nexts, NEW h, Spelt(of, f, parts, nexts, h), NEW dlen \in Nat,
         NEW t, NEW p \in Nat, On(t, p, of, f, nexts, h, dlen) \/ Off(t, of, dlen)
  PROVE  Returns(Finished(t, dlen), p = Len(h[Len(of)]), of, dlen)
<1> DEFINE whole == p = Len(h[Len(of)])
           end == unvisEnd(t.decoder)
           cp == end[1].cp
           r == Finished(t, dlen)
<1>0. of \in Seq(Octets) /\ Len(of) \in Nat
  BY DEF Spelt
<1>1. CASE Off(t, of, dlen)
  <2>1. t.failed /\ dlen < Len(of) /\ t.text = SubSeq(of, 1, dlen)
    BY <1>1 DEF Off
  <2>2. Len(t.text) = dlen
    BY <1>0, <2>1, OneLonger
  <2>3. r = [ret |-> -1, text |-> t.text]
    BY <2>1, Zenon DEF Finished
  <2>4. r.ret = -1 /\ r.text = t.text
    BY <2>3
  <2> HIDE DEF r, whole
  <2> QED BY <1>0, <2>1, <2>2, <2>4 DEF Returns, r, whole
<1>2. CASE ~Off(t, of, dlen)
  <2>1. ~t.failed /\ Len(t.text) <= dlen /\ (AtEnd(t, p, of, h) \/ \E m, rest : MidByte(t, p, m, rest, of, f, nexts, h))
    BY <1>2 DEF On
(* What is returned for s, that has n bytes.                               *)
  <2>2. ASSUME NEW s, NEW n \in Nat, Len(s) = n, n <= dlen, Front1(s, of), whole => s = of,
               r = [ret |-> IF CheckLast(s, dlen) THEN Len(s) ELSE -1, text |-> s]
        PROVE  Returns(r, whole, of, dlen)
    <3>1. r.text = s /\ r.ret = IF n < dlen THEN n ELSE -1
      BY <2>2 DEF CheckLast
    <3> HIDE DEF r, whole
    <3>2. CASE n < dlen
      BY <2>2, <3>1, <3>2 DEF Returns
    <3>3. CASE ~(n < dlen)
      BY <2>2, <3>1, <3>3 DEF Returns
    <3> QED BY <3>2, <3>3
  <2>3. CASE end[2] # "VALID"
    <3>1. r = [ret |-> IF CheckLast(t.text, dlen) THEN Len(t.text) ELSE -1, text |-> t.text]
      BY <2>1, <2>3, Zenon DEF Finished
    <3>2. CASE AtEnd(t, p, of, h)
      <4>1. t.text = of
        BY <3>2 DEF AtEnd
      <4>2. Front1(of, of)
        <5>1. SubSeq(of, 1, Len(of)) = of
          BY <1>0, SubSeqFull
        <5>2. Len(of) <= Len(of)
          BY <1>0
        <5> QED BY <1>0, <5>1, <5>2, FrontOf
      <4> QED BY <1>0, <2>1, <2>2, <3>1, <4>1, <4>2
    <3>3. ASSUME NEW m, NEW rest, MidByte(t, p, m, rest, of, f, nexts, h) PROVE Returns(r, whole, of, dlen)
      <4>1. m \in Nat /\ m < Len(of) /\ t.text = SubSeq(of, 1, m)
        BY <3>3, Zenon DEF MidByte
      <4>2. Len(t.text) = m /\ Front1(t.text, of)
        BY <1>0, <4>1, OneLonger, FrontOf
      <4>3. ~whole
        <5> SUFFICES ASSUME whole PROVE FALSE
          OBVIOUS
        <5>1. t.decoder = Decoder("OCTAL2", 0)
          BY <3>3, LastWaits
        <5> QED BY <2>3, <5>1 DEF unvisEnd, Decoder
      <4> HIDE DEF r, whole
      <4> QED BY <2>1, <2>2, <3>1, <4>1, <4>2, <4>3 DEF r, whole
    <3> QED BY <2>1, <3>2, <3>3
  <2>4. CASE end[2] = "VALID"
    <3>1. ~AtEnd(t, p, of, h)
      <4> SUFFICES ASSUME AtEnd(t, p, of, h) PROVE FALSE
        OBVIOUS
      <4>1. t.decoder.st = "GROUND"
        BY DEF AtEnd
      <4> QED BY <2>4, <4>1 DEF unvisEnd
    <3>2. PICK m, rest : MidByte(t, p, m, rest, of, f, nexts, h)
      BY <2>1, <3>1
    <3>3. m \in Nat /\ m < Len(of) /\ t.text = SubSeq(of, 1, m)
      BY <3>2, Zenon DEF MidByte
    <3>4. Len(t.text) = m
      BY <1>0, <3>3, OneLonger
    <3>5. CASE m >= dlen
      <4>1. r = [ret |-> -1, text |-> t.text]
        BY <2>4, <3>4, <3>5, Zenon DEF Finished
      <4>2. r.ret = -1 /\ r.text = t.text
        BY <4>1
      <4> HIDE DEF r, whole
      <4> QED BY <1>0, <2>1, <3>3, <3>4, <3>5, <4>2 DEF Returns, r, whole
    <3>6. CASE ~(m >= dlen)
      <4> DEFINE s == Append(t.text, cp)
      <4>1. r = [ret |-> IF CheckLast(s, dlen) THEN Len(s) ELSE -1, text |-> s]
        BY <2>1, <2>4, <3>4, <3>6, Zenon DEF Finished
      <4>2. Front1(s, of)
        BY <1>0, <3>3, FrontOf
      <4>3. Len(s) = m + 1
        <5> DEFINE S == Octets \cup {cp}
        <5>1. t.text \in Seq(Octets)
          BY <1>0, <3>3, OneLonger
        <5>2. t.text \in Seq(S) /\ cp \in S
          BY <5>1
        <5> HIDE DEF S
        <5>3. Len(Append(t.text, cp)) = Len(t.text) + 1
          BY <5>2, AppendProperties
        <5> QED BY <3>4, <5>3
      <4>4. whole => s = of
        <5> SUFFICES ASSUME whole PROVE s = of
          OBVIOUS
        <5>1. m + 1 = Len(of) /\ t.decoder = Decoder("OCTAL2", 0) /\ of[m + 1] = 0
          BY <3>2, LastWaits
        <5>2. cp = 0
          BY <5>1 DEF unvisEnd, Decoder
        <5>3. SubSeq(of, 1, m + 1) = Append(SubSeq(of, 1, m), of[m + 1])
          BY <1>0, <3>3, OneLonger
        <5>4. SubSeq(of, 1, Len(of)) = of
          BY <1>0, SubSeqFull
        <5> QED BY <3>3, <5>1, <5>2, <5>3, <5>4
      <4> HIDE DEF r, whole, s
      <4>5. m + 1 \in Nat /\ m + 1 <= dlen
        BY <3>3, <3>6
      <4> QED BY <2>2, <4>1, <4>2, <4>3, <4>4, <4>5 DEF r, whole
    <3> QED BY <3>5, <3>6
  <2> QED BY <2>3, <2>4
<1> QED BY <1>1, <1>2

-----------------------------------------------------------------------------
Encodes(of, f, all) == \E parts, nexts, h : Spelt(of, f, parts, nexts, h) /\ all = h[Len(of)]

LEMMA EncodedIs ==
  ASSUME NEW mem \in Seq(Octets), NEW n \in Nat, n + 1 <= Len(mem), NEW f, NEW e, Fit(f, ExtraList(f, e)),
         NEW of \in Seq(Octets), Len(of) = n, \A i \in 1..n : of[i] = mem[i] /\ ("http1866" \in f => mem[i] # ch.amp)
  PROVE  Encodes(of, f, Encoded(mem, n, f, e))
<1> DEFINE nexts == [i \in 1..n |-> IF i < n \/ n = 1 THEN mem[i + 1] ELSE ch.nul]
           parts == [i \in 1..n |-> Encode(mem[i], f, nexts[i], e)]
<1>1. Len(mem) \in Nat
  BY LenProperties
<1>2. ASSUME NEW i \in 1..n
      PROVE  /\ nexts[i] = IF i < n \/ n = 1 THEN mem[i + 1] ELSE ch.nul
             /\ mem[i] \in Octets /\ nexts[i] \in Octets
  <2>1. i \in 1..Len(mem) /\ i + 1 \in 1..Len(mem)
    BY <1>1
  <2>2. mem[i] \in Octets /\ mem[i + 1] \in Octets
    BY <2>1, ElementOfSeq
  <2>3. ch.nul \in Octets
    BY DEF ch, Octets
  <2> QED BY <2>2, <2>3
<1> HIDE DEF nexts
<1>3. ASSUME NEW i \in 1..n PROVE parts[i] = Encode(mem[i], f, nexts[i], e) /\ Written(parts[i], of[i], f, nexts[i])
  <2>1. Written(Encode(mem[i], f, nexts[i], e), mem[i], f, nexts[i])
    BY <1>2, EncodeFits
  <2> QED BY <2>1
<1>4. Encoded(mem, n, f, e) = FlattenSeq(parts)
  BY Zenon DEF Encoded, parts, nexts
<1>5. parts \in [1..n -> Seq(Octets)]
  <2>1. \A i \in 1..n : parts[i] \in Seq(Octets)
    BY <1>3 DEF Written
  <2>2. parts = [i \in 1..n |-> parts[i]]
    OBVIOUS
  <2> HIDE DEF parts
  <2> QED BY <2>1, <2>2
<1> HIDE DEF parts
<1>6. PICK h \in [0..n -> Seq(Octets)] : Joined(h, parts, n) /\ FlattenSeq(parts) = h[n]
  BY <1>5, Flattened
<1>7. Lying(h, parts, n)
  BY <1>5, <1>6, JoinedAt
<1>8. \A i \in 1..n - 1 : ~IsOctal(nexts[i]) => ~IsOctal(of[i + 1])
  <2> SUFFICES ASSUME NEW i \in 1..n - 1 PROVE nexts[i] = of[i + 1]
    OBVIOUS
  <2>1. i \in 1..n /\ i + 1 \in 1..n /\ i < n
    OBVIOUS
  <2> QED BY <1>2, <2>1
<1>9. "noescape" \notin f
  BY DEF Fit
<1>10. Spelt(of, f, parts, nexts, h)
  BY <1>3, <1>5, <1>6, <1>7, <1>8, <1>9 DEF Spelt
<1>11. Encoded(mem, n, f, e) = h[Len(of)]
  BY <1>4, <1>6
<1> QED BY <1>10, <1>11, Zenon DEF Encodes

LEMMA DecodedIs ==
  ASSUME NEW of, NEW f, NEW all, Encodes(of, f, all), NEW q \in 0..Len(all), NEW dlen \in Nat
  PROVE  Returns(strnunvisx(SubSeq(all, 1, q), dlen, f), q = Len(all), of, dlen)
<1>1. PICK parts, nexts, h : Spelt(of, f, parts, nexts, h) /\ all = h[Len(of)]
  BY DEF Encodes
<1>2. Len(of) \in Nat /\ h \in [0..Len(of) -> Seq(Octets)]
  BY <1>1, Zenon DEF Spelt
<1>3. all \in Seq(Octets) /\ Len(all) \in Nat
  <2>1. Len(of) \in 0..Len(of)
    BY <1>2
  <2>2. all \in Seq(Octets)
    BY <1>1, <1>2, <2>1
  <2> QED BY <2>2, LenProperties
<1> DEFINE src == SubSeq(all, 1, q)
<1>4. q \in Nat /\ q \in Int /\ q <= Len(all) /\ ~(q < 0)
  BY <1>3
<1>5. Len(src) = q /\ \A i \in 1..Len(src) : src[i] = all[i]
  BY <1>3, <1>4, Beginning
<1> HIDE DEF src
<1>6. PICK fed : FedBy(fed, src, dlen, f) /\ strnunvisx(src, dlen, f) = Finished(fed[Len(src)], dlen)
  BY <1>4, <1>5, FedIs
<1> DEFINE t == fed[Len(src)]
<1> HIDE DEF t
<1>7. Len(src) \in Nat /\ Len(src) <= Len(h[Len(of)]) /\ \A i \in 1..Len(src) : src[i] = h[Len(of)][i]
  BY <1>1, <1>4, <1>5
<1>8. On(t, Len(src), of, f, nexts, h, dlen) \/ Off(t, of, dlen)
  BY <1>1, <1>6, <1>7, AllFed DEF t
<1>9. Returns(Finished(t, dlen), q = Len(h[Len(of)]), of, dlen)
  BY <1>1, <1>4, <1>5, <1>8, FinishedRight
<1> QED BY <1>1, <1>6, <1>9 DEF t, src

(* What vis returns holds an encoding, or the beginning of one.            *)
OutRight(of, f, out, limit) ==
  /\ out.reach <= limit + 1
  /\ \E all : /\ Encodes(of, f, all) /\ Len(all) \in Nat
              /\ \E q \in 0..Len(all) : /\ out.text = SubSeq(all, 1, q)
                                        /\ out.ret < limit /\ out.ret > 0 => q = Len(all)

LEMMA OutputRight ==
  ASSUME NEW of, NEW f, NEW all, Encodes(of, f, all), Len(all) \in Nat, NEW limit \in Nat
  PROVE  OutRight(of, f, Output(all, limit), limit)
<1> DEFINE q == IF Len(all) < limit THEN Len(all) ELSE limit
           out == Output(all, limit)
<1>1. out = [ret |-> q, text |-> SubSeq(all, 1, q), reach |-> q + 1]
  BY Zenon DEF Output
<1>2. q \in 0..Len(all) /\ q <= limit /\ (q < limit => q = Len(all))
  OBVIOUS
<1> HIDE DEF q, out
<1>3. out.ret = q /\ out.text = SubSeq(all, 1, q) /\ out.reach = q + 1
  BY <1>1
<1>4. out.reach <= limit + 1
  BY <1>2, <1>3
<1>5. out.ret < limit /\ out.ret > 0 => q = Len(all)
  BY <1>2, <1>3
<1> QED BY <1>2, <1>3, <1>4, <1>5, Zenon DEF OutRight, out

LEMMA EmptyRight ==
  ASSUME NEW of, NEW f, NEW all, Encodes(of, f, all), Len(all) \in Nat, all \in Seq(Octets), NEW limit \in Nat,
         NEW out, out.text = <<>>, ~(out.ret > 0), out.reach <= limit + 1
  PROVE  OutRight(of, f, out, limit)
<1>1. SubSeq(all, 1, 0) = <<>>
  <2>1. SubSeq(all, 1, 0) \in Seq(Octets) /\ Len(SubSeq(all, 1, 0)) = 0
    BY Beginning
  <2> QED BY <2>1, EmptySeq
<1>2. 0 \in 0..Len(all)
  OBVIOUS
<1> QED BY <1>1, <1>2, Zenon DEF OutRight

LEMMA VisxRight ==
  ASSUME NEW mem \in Seq(Octets), NEW n \in Nat, n + 1 <= Len(mem), NEW f, NEW e, Fit(f, ExtraList(f, e)),
         NEW of \in Seq(Octets), Len(of) = n, \A i \in 1..n : of[i] = mem[i] /\ ("http1866" \in f => mem[i] # ch.amp),
         NEW mblength, n = IF mblength = 0 THEN Len(Uncut(mem)) ELSE mblength,
         NEW limit \in Nat, NEW fails
  PROVE  OutRight(of, f, istrsenvisx(mem, mblength, f, e, limit, fails), limit)
<1> DEFINE all == Encoded(mem, n, f, e)
           out == istrsenvisx(mem, mblength, f, e, limit, fails)
<1>1. Encodes(of, f, all)
  BY EncodedIs
<1> HIDE DEF all
<1>2. all \in Seq(Octets) /\ Len(all) \in Nat
  <2>1. PICK parts, nexts, h : Spelt(of, f, parts, nexts, h) /\ all = h[Len(of)]
    BY <1>1 DEF Encodes
  <2>2. h \in [0..n -> Seq(Octets)] /\ all = h[n] /\ n \in 0..n
    BY <2>1 DEF Spelt
  <2>3. all \in Seq(Octets)
    BY <2>2
  <2> QED BY <2>3, LenProperties
<1>3. CASE fails = "calloc"
  <2>1. out = [ret |-> -1, text |-> <<>>, reach |-> 0]
    BY <1>3, Zenon DEF istrsenvisx
  <2> HIDE DEF out
  <2>2. out.text = <<>> /\ ~(out.ret > 0) /\ out.reach <= limit + 1
    BY <2>1
  <2>3. OutRight(of, f, out, limit)
    BY <1>1, <1>2, <2>2, EmptyRight
  <2> QED BY <2>3 DEF out
<1>4. CASE fails = "extra"
  <2>1. out = [ret |-> IF limit = 0 THEN -1 ELSE 0, text |-> <<>>, reach |-> IF limit = 0 THEN 0 ELSE 1]
    <3>1. "extra" # "calloc"
      OBVIOUS
    <3> QED BY <1>4, <3>1 DEF istrsenvisx
  <2> HIDE DEF out
  <2>2. out.text = <<>> /\ ~(out.ret > 0) /\ out.reach <= limit + 1
    BY <2>1
  <2>3. OutRight(of, f, out, limit)
    BY <1>1, <1>2, <2>2, EmptyRight
  <2> QED BY <2>3 DEF out
<1>5. CASE fails # "calloc" /\ fails # "extra"
  <2>1. out = Output(all, limit)
    BY <1>5 DEF istrsenvisx, all
  <2>2. OutRight(of, f, Output(all, limit), limit)
    BY <1>1, <1>2, OutputRight
  <2> QED BY <2>1, <2>2
<1> QED BY <1>3, <1>4, <1>5

FlagsTyped == source \in UNION {[1..n -> VisBytes] : n \in 1..MaxString} /\ asFlags \in VisFlags
VisInv ==
  /\ FlagsTyped
  /\ encoded = NotYet => decoded = Nothing
  /\ encoded # NotYet => OutRight(encoded.of, asFlags, encoded.out, visLimit)
  /\ VisRight

LEMMA MemFacts ==
  ASSUME FlagsTyped
  PROVE  /\ Mem \in Seq(Octets) /\ source \in Seq(Octets)
         /\ Len(source) \in Nat /\ Len(source) >= 1 /\ Len(Mem) = Len(source) + 1
         /\ \A i \in 1..Len(source) : Mem[i] = source[i]
         /\ \A i \in 1..Len(Mem) : "http1866" \in asFlags => Mem[i] # ch.amp
         /\ Mem[Len(Mem)] = ch.nul
<1>1. PICK n \in 1..MaxString : source \in [1..n -> VisBytes]
  BY DEF FlagsTyped
<1>2. VisBytes \subseteq Octets /\ ("http1866" \in asFlags => ch.amp \notin VisBytes) /\ MaxString \in Nat
  BY VisAssumption DEF FlagsTyped, Octets
<1>3. source \in Seq(VisBytes) /\ Len(source) = n /\ n \in Nat /\ n >= 1
  BY <1>1, <1>2
<1>4. source \in Seq(Octets)
  BY <1>2, <1>3, SeqMonotonic
<1>5. ch.nul \in Octets /\ ch.nul # ch.amp
  BY DEF ch, Octets
<1> DEFINE mem == Append(source, ch.nul)
<1>6. /\ mem \in Seq(Octets) /\ Len(mem) = Len(source) + 1
      /\ (\A i \in 1..Len(source) : mem[i] = source[i]) /\ mem[Len(source) + 1] = ch.nul
  BY <1>4, <1>5, AppendProperties
<1> HIDE DEF mem
<1>7. ASSUME "http1866" \in asFlags, NEW i \in 1..Len(mem) PROVE mem[i] # ch.amp
  <2>1. CASE i = Len(source) + 1
    BY <1>5, <1>6, <2>1
  <2>2. CASE i # Len(source) + 1
    <3>1. i \in 1..Len(source)
      BY <1>3, <1>6, <2>2
    <3>2. source[i] \in VisBytes
      BY <1>3, <3>1, ElementOfSeq
    <3> QED BY <1>2, <1>6, <1>7, <3>1, <3>2
  <2> QED BY <2>1, <2>2
<1>8. Mem = mem
  BY DEF Mem, mem
<1> QED BY <1>3, <1>4, <1>6, <1>7, <1>8

LEMMA UncutIs ==
  ASSUME NEW mem \in Seq(Octets), Len(mem) \in Nat, Len(mem) >= 1, mem[Len(mem)] = ch.nul
  PROVE  /\ Uncut(mem) \in Seq(Octets) /\ Len(Uncut(mem)) \in Nat /\ Len(Uncut(mem)) + 1 <= Len(mem)
         /\ \A i \in 1..Len(Uncut(mem)) : Uncut(mem)[i] = mem[i]
<1> DEFINE T == {i \in DOMAIN mem : mem[i] = ch.nul}
<1>1. T \subseteq Nat /\ T # {} /\ T \subseteq 1..Len(mem)
  OBVIOUS
<1>2. PICK k \in T : \A i \in T : k <= i
  BY <1>1, LeastNatural
<1>3. Min(T) = k
  BY <1>1, <1>2, LeastIs
<1> DEFINE n == k - 1
<1>4. n \in Nat /\ n \in Int /\ n + 1 <= Len(mem) /\ n <= Len(mem) /\ ~(n < 0)
  BY <1>1, <1>2
<1>5. Uncut(mem) = SubSeq(mem, 1, n)
  BY <1>3, Zenon DEF Uncut
<1> HIDE DEF n
<1>6. SubSeq(mem, 1, n) \in Seq(Octets) /\ Len(SubSeq(mem, 1, n)) = n
      /\ \A i \in 1..Len(SubSeq(mem, 1, n)) : SubSeq(mem, 1, n)[i] = mem[i]
  BY <1>4, Beginning
<1> QED BY <1>4, <1>5, <1>6

LEMMA FlagsFit ==
  ASSUME FlagsTyped
  PROVE  Fit(asFlags, ExtraList(asFlags, {})) /\ (WithExtra => Fit(asFlags, ExtraList(asFlags, VisExtra)))
<1>1. asFlags \cap {"noslash", "noescape"} = {} /\ ("cstyle" \in asFlags => "glob" \notin asFlags)
  BY VisAssumption DEF FlagsTyped
<1>2. "noslash" \notin asFlags
  BY <1>1
<1>3. ~IsGraph(ch.nul) /\ ~IsGraph(ch.sp) /\ ~IsGraph(9) /\ ~IsGraph(ch.nl)
  BY DEF IsGraph, ch
<1>4. \A X : ch.bslash \in ExtraList(asFlags, X)
  BY <1>2 DEF ExtraList
<1>5. ASSUME "cstyle" \in asFlags, NEW c \in ExtraList(asFlags, {}), IsGraph(c)
      PROVE  c = ch.bslash
  BY <1>1, <1>2, <1>3, <1>5 DEF ExtraList
<1> QED BY <1>1, <1>4, <1>5 DEF Fit, WithExtra

LEMMA EncodedStep ==
  ASSUME VisInv, NEW of, NEW out, NEW limit \in Nat, EncodedAs(of, out, limit), OutRight(of, asFlags, out, limit)
  PROVE  VisInv'
<1>1. /\ encoded = NotYet /\ encoded' = [of |-> of, out |-> out] /\ visLimit' = limit
      /\ UNCHANGED <<source, asFlags, decoded, unvisLimit>>
  BY DEF EncodedAs
<1>2. FlagsTyped'
  BY <1>1 DEF VisInv, FlagsTyped
<1>3. decoded = Nothing /\ decoded' = Nothing
  BY <1>1 DEF VisInv
<1>4. encoded'.of = of /\ encoded'.out = out
  BY <1>1
<1>5. OutRight(encoded'.of, asFlags', encoded'.out, visLimit')
  BY <1>1, <1>4
<1>6. encoded'.out.reach <= visLimit' + 1
  BY <1>5 DEF OutRight
<1>7. decoded'.reach <= unvisLimit'
  BY <1>1, <1>3 DEF VisInv, VisRight
<1>8. decoded'.ret = -2
  BY <1>3 DEF Nothing
<1>9. VisRight'
  BY <1>6, <1>7, <1>8 DEF VisRight
<1> QED BY <1>2, <1>3, <1>5, <1>9 DEF VisInv

LEMMA EncodeAsked ==
  ASSUME VisInv, NEW limit \in Nat, NEW fails
  PROVE  /\ EncodeString(limit, fails) => VisInv'
         /\ EncodeOne(limit, fails) => VisInv'
         /\ \A len \in DOMAIN source : EncodeBlock(len, limit, fails) => VisInv'
<1>1. FlagsTyped
  BY DEF VisInv
<1> DEFINE n == Len(source)
           Good(e) == Fit(asFlags, ExtraList(asFlags, e))
           one == <<Mem[1]>>
           two == <<Mem[1], Mem[2]>>
<1>2. /\ Mem \in Seq(Octets) /\ source \in Seq(Octets) /\ n \in Nat /\ n >= 1 /\ Len(Mem) = n + 1
      /\ \A i \in 1..n : Mem[i] = source[i]
      /\ \A i \in 1..Len(Mem) : "http1866" \in asFlags => Mem[i] # ch.amp
      /\ Mem[Len(Mem)] = ch.nul
  BY <1>1, MemFacts
<1>3. Good({}) /\ (WithExtra => Good(VisExtra))
  BY <1>1, FlagsFit
<1> HIDE DEF Good
<1>4. ASSUME NEW e, Good(e)
      PROVE  OutRight(Uncut(Mem), asFlags, istrsenvisx(Mem, 0, asFlags, e, limit, fails), limit)
  <2> DEFINE of == Uncut(Mem)
             m == Len(of)
  <2>1. of \in Seq(Octets) /\ m \in Nat /\ m + 1 <= Len(Mem) /\ \A i \in 1..m : of[i] = Mem[i]
    BY <1>2, UncutIs
  <2>2. \A i \in 1..m : of[i] = Mem[i] /\ ("http1866" \in asFlags => Mem[i] # ch.amp)
    BY <1>2, <2>1
  <2>3. m = IF 0 = 0 THEN Len(Uncut(Mem)) ELSE 0
    OBVIOUS
  <2> HIDE DEF of, m
  <2>4. Len(of) = m
    BY DEF m
  <2>5. OutRight(of, asFlags, istrsenvisx(Mem, 0, asFlags, e, limit, fails), limit)
    BY <1>2, <1>4, <2>1, <2>2, <2>3, <2>4, VisxRight DEF Good
  <2> QED BY <2>5 DEF of
<1>5. ASSUME NEW e, Good(e), NEW len \in DOMAIN source
      PROVE  OutRight(SubSeq(source, 1, len), asFlags, istrsenvisx(Mem, len, asFlags, e, limit, fails), limit)
  <2> DEFINE of == SubSeq(source, 1, len)
  <2>0. len \in 1..n
    BY <1>2
  <2>1. len \in Nat /\ len \in Int /\ len <= n /\ ~(len < 0) /\ len # 0 /\ len + 1 <= Len(Mem)
    BY <1>2, <2>0
  <2>2. of \in Seq(Octets) /\ Len(of) = len /\ \A i \in 1..Len(of) : of[i] = source[i]
    BY <1>2, <2>1, Beginning
  <2> HIDE DEF of
  <2>3. \A i \in 1..len : of[i] = Mem[i] /\ ("http1866" \in asFlags => Mem[i] # ch.amp)
    <3> SUFFICES ASSUME NEW i \in 1..len PROVE of[i] = Mem[i] /\ ("http1866" \in asFlags => Mem[i] # ch.amp)
      OBVIOUS
    <3>1. i \in 1..Len(of) /\ i \in 1..n /\ i \in 1..Len(Mem)
      BY <1>2, <2>1, <2>2
    <3>2. of[i] = source[i] /\ Mem[i] = source[i]
      BY <1>2, <2>2, <3>1
    <3>3. "http1866" \in asFlags => Mem[i] # ch.amp
      BY <1>2, <3>1
    <3> QED BY <3>2, <3>3
  <2>4. len = IF len = 0 THEN Len(Uncut(Mem)) ELSE len
    BY <2>1
  <2>5. OutRight(of, asFlags, istrsenvisx(Mem, len, asFlags, e, limit, fails), limit)
    BY <1>2, <1>5, <2>1, <2>2, <2>3, <2>4, VisxRight DEF Good
  <2> QED BY <2>5 DEF of
<1>6. ASSUME NEW e, Good(e)
      PROVE  OutRight(one, asFlags, istrsenvisx(two, 1, asFlags, e, limit, fails), limit)
  <2>1. Mem[1] \in Octets /\ Mem[2] \in Octets /\ ("http1866" \in asFlags => Mem[1] # ch.amp)
    <3>1. 1 \in 1..Len(Mem) /\ 2 \in 1..Len(Mem)
      BY <1>2
    <3> QED BY <1>2, <3>1, ElementOfSeq
  <2>2. /\ one \in Seq(Octets) /\ two \in Seq(Octets) /\ Len(one) = 1 /\ 1 + 1 <= Len(two) /\ 1 \in Nat
        /\ one[1] = Mem[1] /\ two[1] = Mem[1]
    BY <2>1
  <2> HIDE DEF one, two
  <2>3. \A i \in 1..1 : one[i] = two[i] /\ ("http1866" \in asFlags => two[i] # ch.amp)
    BY <2>1, <2>2
  <2>4. 1 = IF 1 = 0 THEN Len(Uncut(two)) ELSE 1
    OBVIOUS
  <2> QED BY <1>6, <2>2, <2>3, <2>4, VisxRight DEF Good
<1>7. EncodeString(limit, fails) => VisInv'
  BY <1>3, <1>4, EncodedStep DEF EncodeString, strvis, strsvis
<1>8. EncodeOne(limit, fails) => VisInv'
  BY <1>3, <1>6, EncodedStep DEF EncodeOne, vis, svis
<1>9. ASSUME NEW len \in DOMAIN source, EncodeBlock(len, limit, fails) PROVE VisInv'
  BY <1>3, <1>5, <1>9, EncodedStep DEF EncodeBlock, strvisx, strsvisx
<1> QED BY <1>7, <1>8, <1>9

LEMMA DecodeAsked ==
  ASSUME VisInv, NEW limit \in Nat, DecodeString(limit)
  PROVE  VisInv'
<1> DEFINE src == encoded.out.text
           r == strnunvisx(src, limit, asFlags)
           whole == encoded.out.ret < visLimit /\ encoded.out.ret > 0
<1>1. /\ encoded.out.ret >= 0 /\ decoded = Nothing /\ unvisLimit' = limit
      /\ source' = source /\ asFlags' = asFlags /\ visLimit' = visLimit /\ encoded' = encoded
  BY DEF DecodeString
<1>2. decoded' = [ret |-> r.ret, text |-> r.text, reach |-> Len(r.text) + (IF r.ret >= 0 THEN 1 ELSE 0)]
  BY Zenon DEF DecodeString, strunvis, strunvisx, strnunvis
<1>3. encoded # NotYet
  <2>1. NotYet.out.ret = -2
    BY DEF NotYet, Nothing
  <2> QED BY <1>1, <2>1
<1>4. OutRight(encoded.of, asFlags, encoded.out, visLimit)
  BY <1>3 DEF VisInv
<1>5. PICK all, q : /\ Encodes(encoded.of, asFlags, all) /\ Len(all) \in Nat /\ q \in 0..Len(all)
                    /\ src = SubSeq(all, 1, q) /\ (whole => q = Len(all))
  BY <1>4, Zenon DEF OutRight
<1>6. Returns(r, q = Len(all), encoded.of, limit)
  BY <1>5, DecodedIs
<1> HIDE DEF r, src
<1>7. decoded'.ret = r.ret /\ decoded'.text = r.text /\ decoded'.reach = Len(r.text) + (IF r.ret >= 0 THEN 1 ELSE 0)
  BY <1>2
<1>8. encoded'.out.reach <= visLimit' + 1
  BY <1>1, <1>4 DEF OutRight
<1>9. decoded'.reach <= unvisLimit'
  BY <1>1, <1>6, <1>7 DEF Returns
<1> HIDE DEF whole
<1>10. /\ r.ret >= 0 => IF whole THEN r.text = encoded.of ELSE r.text = <<>> \/ IsPrefix(Front(r.text), encoded.of)
       /\ r.ret = -1 /\ whole => limit <= Len(encoded.of)
  BY <1>5, <1>6 DEF Returns, Front1
<1>11. VisRight'
  BY <1>1, <1>7, <1>8, <1>9, <1>10 DEF VisRight, whole
<1>12. FlagsTyped'
  BY <1>1 DEF VisInv, FlagsTyped
<1> QED BY <1>1, <1>3, <1>4, <1>11, <1>12 DEF VisInv

(***************************************************************************)
(* For any bytes, flags that can be read again, and sizes of both buffers: *)
(* an encoding shorter than its limit is whole, and unvis gives back the   *)
(* string if there is room for it; of one that was cut comes back the      *)
(* beginning, or that with one byte more; and neither writes where it must *)
(* not, whichever allocations fail.                                        *)
(***************************************************************************)
THEOREM VisStringsCorrect == VisSpec => []VisRight
<1>1. VisInit => VisInv
  <2> SUFFICES ASSUME VisInit PROVE VisInv
    OBVIOUS
  <2>1. FlagsTyped /\ encoded = NotYet /\ decoded = Nothing /\ visLimit = 0 /\ unvisLimit = 0
    BY DEF VisInit, FlagsTyped
  <2>2. encoded.out.reach = 0 /\ decoded.reach = 0 /\ decoded.ret = -2
    BY <2>1 DEF NotYet, Nothing
  <2>3. VisRight
    BY <2>1, <2>2 DEF VisRight
  <2> QED BY <2>1, <2>3 DEF VisInv
<1>2. VisInv /\ [VisNext]_visVars => VisInv'
  <2> SUFFICES ASSUME VisInv, [VisNext]_visVars PROVE VisInv'
    OBVIOUS
  <2>1. \A limit \in Limits \cup {Unlimited} : limit \in Nat
    BY VisAssumption DEF Unlimited
  <2>2. CASE VisNext
    BY <2>1, <2>2, EncodeAsked, DecodeAsked DEF VisNext
  <2>3. CASE UNCHANGED visVars
    BY <2>3 DEF visVars, VisInv, FlagsTyped, VisRight
  <2> QED BY <2>2, <2>3
<1>3. VisInv => VisRight
  BY DEF VisInv
<1> QED BY <1>1, <1>2, <1>3, PTL DEF VisSpec

-----------------------------------------------------------------------------
(* Lines of fparseln: an escape character that is not escaped escapes the  *)
(* character behind it.                                                    *)
Before(s, i, e) == {k \in 1..(i - 1) : \A j \in k..(i - 1) : s[j] = e}

LEMMA EscapedFirst == \A s, e : ~isescaped(s, 1, e)
<1> SUFFICES ASSUME NEW s, NEW e PROVE ~isescaped(s, 1, e)
  OBVIOUS
<1>1. Before(s, 1, e) = {}
  BY DEF Before
<1>2. Cardinality(Before(s, 1, e)) = 0
  BY <1>1, FS_EmptySet
<1> QED BY <1>2 DEF isescaped, Before

LEMMA EscapedNext ==
  ASSUME NEW s, NEW e, NEW i \in Nat, i >= 1
  PROVE  isescaped(s, i + 1, e) <=> e # NUL /\ s[i] = e /\ ~isescaped(s, i, e)
<1> DEFINE now == Before(s, i, e)
           then == Before(s, i + 1, e)
<1>1. now \subseteq 1..(i - 1) /\ IsFiniteSet(now)
  <2>1. now \subseteq 1..(i - 1)
    BY DEF Before
  <2>2. IsFiniteSet(1..(i - 1))
    BY FS_Interval
  <2> QED BY <2>1, <2>2, FS_Subset
<1>2. Cardinality(now) \in Nat
  BY <1>1, FS_CardinalityType
<1>3. (i + 1) - 1 = i
  OBVIOUS
<1>4. CASE s[i] = e
  <2>1. then = now \cup {i}
    <3>1. ASSUME NEW k \in then PROVE k \in now \cup {i}
      <4>1. k \in 1..i /\ \A j \in k..i : s[j] = e
        BY <1>3 DEF Before
      <4>2. \A j \in k..(i - 1) : s[j] = e
        BY <4>1
      <4> QED BY <4>1, <4>2 DEF Before
    <3>2. ASSUME NEW k \in now PROVE k \in then
      <4>1. k \in 1..(i - 1) /\ \A j \in k..(i - 1) : s[j] = e
        BY DEF Before
      <4>2. \A j \in k..i : s[j] = e
        BY <1>4, <4>1
      <4> QED BY <1>3, <4>1, <4>2 DEF Before
    <3>3. i \in then
      <4>1. \A j \in i..i : s[j] = e
        BY <1>4
      <4> QED BY <1>3, <4>1 DEF Before
    <3> QED BY <3>1, <3>2, <3>3
  <2>2. i \notin now
    BY <1>1
  <2> HIDE DEF now, then
  <2>3. Cardinality(then) = Cardinality(now) + 1
    BY <1>1, <2>1, <2>2, FS_AddElement
  <2>4. Cardinality(then) % 2 = 1 <=> ~(Cardinality(now) % 2 = 1)
    BY <1>2, <2>3
  <2> QED BY <1>4, <2>4 DEF isescaped, now, then, Before
<1>5. CASE s[i] # e
  <2>1. then = {}
    <3> SUFFICES ASSUME NEW k \in then PROVE FALSE
      OBVIOUS
    <3>1. k \in 1..i /\ \A j \in k..i : s[j] = e
      BY <1>3 DEF Before
    <3> QED BY <1>5, <3>1
  <2> HIDE DEF then
  <2>2. Cardinality(then) = 0
    BY <2>1, FS_EmptySet
  <2> QED BY <1>5, <2>2 DEF isescaped, then, Before
<1> QED BY <1>4, <1>5

LEMMA EscapedSame ==
  ASSUME NEW s, NEW t, NEW e, NEW i \in Nat, \A j \in 1..(i - 1) : s[j] = t[j]
  PROVE  isescaped(s, i, e) <=> isescaped(t, i, e)
<1>1. Before(s, i, e) = Before(t, i, e)
  <2>1. ASSUME NEW k \in 1..(i - 1)
        PROVE  (\A j \in k..(i - 1) : s[j] = e) <=> (\A j \in k..(i - 1) : t[j] = e)
    <3>1. \A j \in k..(i - 1) : s[j] = t[j]
      OBVIOUS
    <3> QED BY <3>1
  <2> QED BY <2>1, Zenon DEF Before
<1> QED BY <1>1, Zenon DEF isescaped, Before

(* What a line consists of, and what the writer puts into one.             *)
LineChars(p) == Ordinary \cup {nl, p.esc, p.con, p.com}
LineTexts(p) == (Ordinary \cup {p.esc, p.con, p.com}) \ {NUL}

LEMMA CharsFit ==
  ASSUME NEW p \in Params
  PROVE  /\ LineTexts(p) \subseteq LineChars(p) /\ nl \notin LineTexts(p) /\ NUL \notin LineTexts(p)
         /\ p.con # nl /\ p.com # nl /\ p.esc # nl
         /\ p.com # NUL => p.con # p.com /\ p.esc # p.com
         /\ \A c \in Ordinary : c \notin {nl, NUL, p.esc, p.con, p.com}
<1>1. /\ nl \notin {p.esc, p.con, p.com}
      /\ p.com = NUL \/ p.com \notin {p.esc, p.con}
      /\ nl # NUL
      /\ Ordinary \cap {nl, NUL, p.esc, p.con, p.com} = {}
  BY LineAssumption DEF nl, NUL
<1> QED BY <1>1 DEF LineTexts, LineChars

(* A beginning of a line in which all that has a meaning is escaped.       *)
Clean(s, p) ==
  /\ s \in Seq(LineTexts(p))
  /\ \A i \in 1..Len(s) : s[i] = p.com => isescaped(s, i, p.esc)
  /\ ~isescaped(s, Len(s) + 1, p.esc)
  /\ s # <<>> /\ s[Len(s)] = p.con => isescaped(s, Len(s), p.esc)

LEMMA CleanEmpty == ASSUME NEW p \in Params PROVE Clean(<<>>, p)
<1>1. <<>> \in Seq(LineTexts(p)) /\ Len(<<>>) = 0
  BY EmptySeq
<1>2. ~isescaped(<<>>, 1, p.esc)
  BY EscapedFirst
<1> QED BY <1>1, <1>2 DEF Clean

LEMMA CleanChar ==
  ASSUME NEW p \in Params, NEW s, Clean(s, p), NEW c \in Ordinary
  PROVE  Clean(s \o <<c>>, p)
<1> DEFINE t == s \o <<c>>
           n == Len(s)
<1>1. c \in LineTexts(p) /\ c \notin {nl, p.esc, p.con, p.com}
  BY CharsFit DEF LineTexts
<1>2. s \in Seq(LineTexts(p)) /\ n \in Nat
  BY LenProperties DEF Clean
<1>3. t \in Seq(LineTexts(p)) /\ Len(t) = n + 1 /\ t[n + 1] = c /\ \A i \in 1..n : t[i] = s[i]
  BY <1>1, <1>2
<1> HIDE DEF t
<1>4. ASSUME NEW i \in 1..n + 1, t[i] = p.com PROVE isescaped(t, i, p.esc)
  <2>1. i \in 1..n
    BY <1>1, <1>2, <1>3, <1>4
  <2>2. s[i] = p.com
    BY <1>3, <1>4, <2>1
  <2>3. isescaped(s, i, p.esc)
    BY <2>1, <2>2 DEF Clean
  <2>4. \A j \in 1..(i - 1) : s[j] = t[j]
    BY <1>3, <2>1
  <2> QED BY <2>1, <2>3, <2>4, EscapedSame
<1>5. ~isescaped(t, n + 1 + 1, p.esc)
  <2>1. n + 1 \in Nat /\ n + 1 >= 1 /\ t[n + 1] # p.esc
    BY <1>1, <1>2, <1>3
  <2> QED BY <2>1, EscapedNext
<1>6. t[n + 1] # p.con
  BY <1>1, <1>3
<1> HIDE DEF n
<1>7. Clean(t, p)
  BY <1>2, <1>3, <1>4, <1>5, <1>6 DEF Clean
<1> QED BY <1>7 DEF t

LEMMA CleanEscaped ==
  ASSUME NEW p \in Params, NEW s, Clean(s, p), p.esc # NUL, NEW c \in LineTexts(p)
  PROVE  Clean(s \o <<p.esc, c>>, p)
<1> DEFINE t == s \o <<p.esc, c>>
           n == Len(s)
<1>1. c \in LineTexts(p) /\ p.esc \in LineTexts(p) /\ p.esc # p.com
  BY CharsFit DEF LineTexts
<1>2. s \in Seq(LineTexts(p)) /\ n \in Nat
  BY LenProperties DEF Clean
<1>3. /\ t \in Seq(LineTexts(p)) /\ Len(t) = n + 2 /\ t[n + 1] = p.esc /\ t[n + 2] = c
      /\ \A i \in 1..n : t[i] = s[i]
  BY <1>1, <1>2
<1> HIDE DEF t
<1>4. ~isescaped(t, n + 1, p.esc)
  <2>1. \A j \in 1..((n + 1) - 1) : s[j] = t[j]
    BY <1>2, <1>3
  <2>2. ~isescaped(s, n + 1, p.esc)
    BY DEF Clean
  <2>3. n + 1 \in Nat
    BY <1>2
  <2> QED BY <2>1, <2>2, <2>3, EscapedSame
<1>5. isescaped(t, n + 2, p.esc)
  <2>1. n + 1 \in Nat /\ n + 1 >= 1 /\ (n + 1) + 1 = n + 2
    BY <1>2
  <2>2. isescaped(t, (n + 1) + 1, p.esc)
    BY <1>3, <1>4, <2>1, EscapedNext
  <2> QED BY <2>1, <2>2
<1>6. ~isescaped(t, (n + 2) + 1, p.esc)
  <2>1. n + 2 \in Nat /\ n + 2 >= 1
    BY <1>2
  <2> QED BY <1>5, <2>1, EscapedNext
<1>7. ASSUME NEW i \in 1..n + 2, t[i] = p.com PROVE isescaped(t, i, p.esc)
  <2>1. CASE i = n + 2
    BY <1>5, <2>1
  <2>2. CASE i # n + 2
    <3>1. i \in 1..n
      BY <1>1, <1>2, <1>3, <1>7, <2>2
    <3>2. s[i] = p.com
      BY <1>3, <1>7, <3>1
    <3>3. isescaped(s, i, p.esc)
      BY <3>1, <3>2 DEF Clean
    <3>4. \A j \in 1..(i - 1) : s[j] = t[j]
      BY <1>3, <3>1
    <3> QED BY <3>1, <3>3, <3>4, EscapedSame
  <2> QED BY <2>1, <2>2
<1> HIDE DEF n
<1>8. Clean(t, p)
  BY <1>2, <1>3, <1>5, <1>6, <1>7 DEF Clean
<1> QED BY <1>8 DEF t

(* A line that begins with s and goes on with w.                           *)
LEMMA LineJoined ==
  ASSUME NEW p \in Params, NEW s, Clean(s, p), NEW w \in Seq(LineChars(p))
  PROVE  /\ s \in Seq(LineChars(p)) /\ s \o w \in Seq(LineChars(p))
         /\ Len(s) \in Nat /\ Len(w) \in Nat /\ Len(s \o w) = Len(s) + Len(w)
         /\ DOMAIN (s \o w) = 1..Len(s) + Len(w)
         /\ \A i \in 1..Len(s) : (s \o w)[i] = s[i]
         /\ \A i \in 1..Len(w) : (s \o w)[Len(s) + i] = w[i]
         /\ \A i \in 1..Len(s) : (s \o w)[i] = p.com => isescaped(s \o w, i, p.esc)
         /\ ~isescaped(s \o w, Len(s) + 1, p.esc)
<1> DEFINE t == s \o w
           n == Len(s)
           m == Len(w)
           C == LineChars(p)
<1>1. s \in Seq(C)
  <2>1. s \in Seq(LineTexts(p)) /\ LineTexts(p) \subseteq C
    BY CharsFit DEF Clean
  <2> QED BY <2>1, SeqMonotonic
<1>2. n \in Nat /\ m \in Nat
  BY <1>1, LenProperties
<1>3. /\ t \in Seq(C) /\ Len(t) = n + m
      /\ \A i \in 1..n + m : t[i] = IF i <= n THEN s[i] ELSE w[i - n]
  BY <1>1, ConcatProperties
<1> HIDE DEF C, t
<1>4. DOMAIN t = 1..n + m
  BY <1>3, LenProperties
<1>5. \A i \in 1..n : t[i] = s[i]
  BY <1>2, <1>3
<1>6. ASSUME NEW i \in 1..m PROVE t[n + i] = w[i]
  <2>1. n + i \in 1..n + m /\ ~(n + i <= n) /\ (n + i) - n = i
    BY <1>2
  <2> QED BY <1>3, <2>1
<1>7. ASSUME NEW i \in 1..n, t[i] = p.com PROVE isescaped(t, i, p.esc)
  <2>1. s[i] = p.com
    BY <1>5, <1>7
  <2>2. isescaped(s, i, p.esc)
    BY <2>1 DEF Clean
  <2>3. \A j \in 1..(i - 1) : s[j] = t[j]
    BY <1>2, <1>5
  <2> QED BY <1>2, <2>2, <2>3, EscapedSame
<1>8. ~isescaped(t, n + 1, p.esc)
  <2>1. \A j \in 1..((n + 1) - 1) : s[j] = t[j]
    BY <1>2, <1>5
  <2>2. ~isescaped(s, n + 1, p.esc) /\ n + 1 \in Nat
    BY <1>2 DEF Clean
  <2> QED BY <2>1, <2>2, EscapedSame
<1> QED BY <1>1, <1>2, <1>3, <1>4, <1>5, <1>6, <1>7, <1>8 DEF t, C

LEMMA NoComment ==
  ASSUME NEW p, NEW s, \A i \in DOMAIN s : s[i] = p.com => isescaped(s, i, p.esc)
  PROVE  Uncommented(s, p) = s
<1>1. {i \in DOMAIN s : p.com # NUL /\ s[i] = p.com /\ ~isescaped(s, i, p.esc)} = {}
  OBVIOUS
<1> QED BY <1>1, Zenon DEF Uncommented

LEMMA CommentCut ==
  ASSUME NEW p \in Params, NEW s, Clean(s, p), NEW w \in Seq(LineChars(p)), w # <<>>, w[1] = p.com, p.com # NUL
  PROVE  Uncommented(s \o w, p) = s
<1> DEFINE t == s \o w
           n == Len(s)
           starts == {i \in DOMAIN t : p.com # NUL /\ t[i] = p.com /\ ~isescaped(t, i, p.esc)}
<1>1. Len(w) \in Nat /\ Len(w) >= 1
  BY EmptySeq
<1>2. /\ n \in Nat /\ DOMAIN t = 1..n + Len(w) /\ t \in Seq(LineChars(p)) /\ s \in Seq(LineChars(p))
      /\ \A i \in 1..n : t[i] = s[i]
      /\ \A i \in 1..n : t[i] = p.com => isescaped(t, i, p.esc)
      /\ t[n + 1] = w[1] /\ Len(t) = n + Len(w)
      /\ ~isescaped(t, n + 1, p.esc)
  <2>1. 1 \in 1..Len(w)
    BY <1>1
  <2> QED BY <2>1, LineJoined
<1> HIDE DEF t
<1>3. n + 1 \in starts
  <2>1. n + 1 \in DOMAIN t
    BY <1>1, <1>2
  <2> QED BY <1>2, <2>1, CharsFit
<1>4. \A i \in starts : i \in Nat /\ n + 1 <= i
  BY <1>1, <1>2
<1> HIDE DEF starts
<1>5. Min(starts) = n + 1
  <2>1. starts \in SUBSET Nat
    BY <1>4
  <2> QED BY <1>3, <1>4, <2>1, LeastIs
<1>6. Uncommented(t, p) = SubSeq(t, 1, n)
  <2>1. Uncommented(t, p) = SubSeq(t, 1, Min(starts) - 1)
    BY <1>3, Zenon DEF Uncommented, starts
  <2>2. (n + 1) - 1 = n
    BY <1>2
  <2> QED BY <1>5, <2>1, <2>2
<1>7. SubSeq(t, 1, n) = s
  <2>1. n \in Int /\ n <= Len(t)
    BY <1>1, <1>2
  <2>2. /\ SubSeq(t, 1, n) \in Seq(LineChars(p))
        /\ Len(SubSeq(t, 1, n)) = n
        /\ \A i \in 1..Len(SubSeq(t, 1, n)) : SubSeq(t, 1, n)[i] = t[i]
    BY <1>2, <2>1, Beginning
  <2>3. \A i \in 1..Len(SubSeq(t, 1, n)) : SubSeq(t, 1, n)[i] = s[i]
    BY <1>2, <2>2
  <2> QED BY <1>2, <2>2, <2>3, SeqEqual
<1> QED BY <1>6, <1>7 DEF t

LEMMA LastIs ==
  ASSUME NEW S, NEW s \in Seq(S), s # <<>>
  PROVE  Last(s) = s[Len(s)]
BY DEF Last

LEMMA ChompedIs ==
  ASSUME NEW p \in Params, NEW s
  PROVE  /\ s \in Seq(LineChars(p)) => Chomped(Append(s, nl)) = s
         /\ s \in Seq(LineTexts(p)) => Chomped(s) = s
<1>1. ASSUME s \in Seq(LineChars(p)) PROVE Chomped(Append(s, nl)) = s
  <2> DEFINE t == Append(s, nl)
  <2>1. nl \in LineChars(p)
    BY DEF LineChars
  <2>2. Front(t) = s /\ Last(t) = nl
    BY <1>1, <2>1, LastOf
  <2>3. t # <<>>
    <3>1. Len(t) = Len(s) + 1 /\ Len(s) \in Nat
      BY <1>1, <2>1, AppendProperties, LenProperties
    <3> HIDE DEF t
    <3>2. Len(t) # 0
      BY <3>1
    <3> QED BY <3>2, EmptySeq
  <2> HIDE DEF t
  <2>4. Chomped(t) = s
    BY <2>2, <2>3 DEF Chomped
  <2> QED BY <2>4 DEF t
<1>2. ASSUME s \in Seq(LineTexts(p)) PROVE Chomped(s) = s
  <2>1. CASE s = <<>>
    BY <2>1 DEF Chomped
  <2>2. CASE s # <<>>
    <3>1. Len(s) \in 1..Len(s)
      BY <1>2, <2>2, EmptySeq
    <3>2. Last(s) = s[Len(s)] /\ s[Len(s)] \in LineTexts(p)
      BY <1>2, <2>2, <3>1, LastIs, ElementOfSeq
    <3>3. Last(s) # nl
      BY <3>2, CharsFit
    <3> QED BY <3>3, Zenon DEF Chomped
  <2> QED BY <2>1, <2>2
<1> QED BY <1>1, <1>2

LEMMA GoesOnIs ==
  ASSUME NEW p \in Params, NEW s, Clean(s, p)
  PROVE  /\ ~GoesOn(s, p)
         /\ p.con # NUL => GoesOn(Append(s, p.con), p) /\ Front(Append(s, p.con)) = s
<1> DEFINE t == Append(s, p.con)
           n == Len(s)
<1>1. s \in Seq(LineTexts(p)) /\ n \in Nat
  BY LenProperties DEF Clean
<1>2. ~GoesOn(s, p)
  <2> SUFFICES ASSUME s # <<>>, Last(s) = p.con, ~isescaped(s, n, p.esc) PROVE FALSE
    BY Zenon DEF GoesOn
  <2>1. s[n] = p.con
    BY <1>1, LastIs
  <2> QED BY <2>1 DEF Clean
<1> SUFFICES ASSUME p.con # NUL PROVE GoesOn(t, p) /\ Front(t) = s
  BY <1>2
<1>3. p.con \in LineTexts(p) /\ p.con # NUL
  BY DEF LineTexts
<1>4. Front(t) = s /\ Last(t) = p.con
  BY <1>1, <1>3, LastOf
<1>5. t # <<>> /\ Len(t) = n + 1 /\ \A i \in 1..n : t[i] = s[i]
  <2>1. Len(t) = n + 1 /\ \A i \in 1..n : t[i] = s[i]
    BY <1>1, <1>3, AppendProperties
  <2> HIDE DEF t, n
  <2>2. Len(t) # 0
    BY <1>1, <2>1
  <2> QED BY <2>1, <2>2, EmptySeq
<1> HIDE DEF t
<1>6. ~isescaped(t, n + 1, p.esc)
  <2>1. \A j \in 1..((n + 1) - 1) : s[j] = t[j]
    BY <1>1, <1>5
  <2>2. ~isescaped(s, n + 1, p.esc) /\ n + 1 \in Nat
    BY <1>1 DEF Clean
  <2> QED BY <2>1, <2>2, EscapedSame
<1>7. GoesOn(t, p)
  BY <1>3, <1>4, <1>5, <1>6 DEF GoesOn
<1> QED BY <1>4, <1>7 DEF t

(* What a line adds to what was there.                                     *)
Adds(b, s) == IF s = <<>> THEN b ELSE IF b = NoBuf THEN s ELSE b \o s

LEMMA AddLineIs ==
  ASSUME NEW p \in Params, NEW s, Clean(s, p), NEW b
  PROVE  /\ p.con # NUL => AddLine(b, s \o <<p.con, nl>>, p) = [cnt |-> TRUE, buf |-> Adds(b, s)]
         /\ p.com # NUL =>
              \A w \in Seq(LineChars(p)) : w # <<>> /\ w[1] = p.com =>
                AddLine(b, s \o w, p) = [cnt |-> s = <<>> /\ b = NoBuf, buf |-> Adds(b, s)]
         /\ AddLine(b, s \o <<nl>>, p) =
              [cnt |-> FALSE, buf |-> IF s = <<>> /\ b = NoBuf THEN <<>> ELSE Adds(b, s)]
         /\ s # <<>> => AddLine(b, s, p) = [cnt |-> FALSE, buf |-> Adds(b, s)]
<1> DEFINE C == LineChars(p)
<1>0. /\ nl \in C /\ p.con \in C /\ p.com \in C /\ nl # p.com /\ (p.con # NUL => p.con # p.com)
      /\ s \in Seq(LineTexts(p)) /\ s \in Seq(C) /\ Len(s) \in Nat
  <2>1. nl \in C /\ p.con \in C /\ p.com \in C
    BY DEF LineChars
  <2>2. s \in Seq(LineTexts(p)) /\ LineTexts(p) \subseteq C /\ nl # p.com /\ (p.con # NUL => p.con # p.com)
    BY CharsFit DEF Clean
  <2>3. s \in Seq(C)
    BY <2>2, SeqMonotonic
  <2> QED BY <2>1, <2>2, <2>3, LenProperties
<1>1. ASSUME NEW w \in Seq(C), \A i \in 1..Len(w) : w[i] # p.com
      PROVE  Uncommented(s \o w, p) = s \o w
  <2> DEFINE t == s \o w
  <2>1. /\ Len(s) \in Nat /\ Len(w) \in Nat /\ DOMAIN t = 1..Len(s) + Len(w)
        /\ \A i \in 1..Len(w) : t[Len(s) + i] = w[i]
        /\ \A i \in 1..Len(s) : t[i] = p.com => isescaped(t, i, p.esc)
    BY LineJoined
  <2> HIDE DEF t
  <2>2. ASSUME NEW i \in DOMAIN t, t[i] = p.com PROVE isescaped(t, i, p.esc)
    <3>1. CASE i <= Len(s)
      BY <2>1, <2>2, <3>1
    <3>2. CASE ~(i <= Len(s))
      <4> DEFINE j == i - Len(s)
      <4>1. j \in 1..Len(w) /\ Len(s) + j = i
        BY <2>1, <3>2
      <4> QED BY <1>1, <2>1, <2>2, <4>1
    <3> QED BY <3>1, <3>2
  <2>3. Uncommented(t, p) = t
    BY <2>2, NoComment
  <2> QED BY <2>3 DEF t
<1>2. ~GoesOn(s, p) /\ (p.con # NUL => GoesOn(Append(s, p.con), p) /\ Front(Append(s, p.con)) = s)
  BY GoesOnIs
<1>3. Chomped(Append(s, nl)) = s /\ Chomped(s) = s
  BY <1>0, ChompedIs
<1>4. Chomped(Append(Append(s, p.con), nl)) = Append(s, p.con)
  <2>1. Append(s, p.con) \in Seq(C)
    BY <1>0, AppendProperties
  <2> QED BY <2>1, ChompedIs
<1>5. /\ s \o <<p.con, nl>> = Append(Append(s, p.con), nl)
      /\ s \o <<nl>> = Append(s, nl)
  BY <1>0
<1>6. <<p.con, nl>> \in Seq(C) /\ <<nl>> \in Seq(C) /\ <<>> \in Seq(C)
  BY <1>0
<1>7. s \o <<>> = s
  BY <1>0
<1>8. ASSUME p.con # NUL PROVE AddLine(b, s \o <<p.con, nl>>, p) = [cnt |-> TRUE, buf |-> Adds(b, s)]
  <2> DEFINE t == s \o <<p.con, nl>>
  <2>1. \A i \in 1..Len(<<p.con, nl>>) : <<p.con, nl>>[i] # p.com
    BY <1>0, <1>8
  <2>2. Uncommented(t, p) = t
    BY <1>1, <1>6, <2>1
  <2>3. Chomped(t) = Append(s, p.con)
    BY <1>4, <1>5
  <2> HIDE DEF t
  <2>4. AddLine(b, t, p).cnt = TRUE
    BY <1>2, <1>8, <2>2, <2>3, Zenon DEF AddLine
  <2>5. AddLine(b, t, p).buf = Adds(b, s)
    BY <1>2, <1>8, <2>2, <2>3, Zenon DEF AddLine, Adds
  <2>6. AddLine(b, t, p) = [cnt |-> TRUE, buf |-> Adds(b, s)]
    BY <1>2, <1>8, <2>2, <2>3, Zenon DEF AddLine, Adds
  <2> QED BY <2>6 DEF t
<1>9. ASSUME p.com # NUL, NEW w \in Seq(C), w # <<>>, w[1] = p.com
      PROVE  AddLine(b, s \o w, p) = [cnt |-> s = <<>> /\ b = NoBuf, buf |-> Adds(b, s)]
  <2> DEFINE t == s \o w
  <2>1. w \in Seq(C) /\ w # <<>> /\ w[1] = p.com
    BY <1>9
  <2>2. Uncommented(t, p) = s
    BY <1>9, <2>1, CommentCut
  <2>3. t # s
    <3>1. Len(t) = Len(s) + Len(w) /\ Len(w) \in Nat /\ Len(w) # 0
      BY <1>0, <2>1, EmptySeq, ConcatProperties, LenProperties
    <3> QED BY <1>0, <3>1
  <2> HIDE DEF t
  <2> DEFINE r == AddLine(b, t, p)
  <2>4. r = [cnt |-> r.cnt, buf |-> r.buf]
    BY DEF AddLine
  <2>5. r.cnt = (s = <<>> /\ b = NoBuf)
    BY <1>2, <1>3, <2>2, <2>3, Zenon DEF AddLine
  <2>6. r.buf = Adds(b, s)
    BY <1>2, <1>3, <2>2, <2>3, Zenon DEF AddLine, Adds
  <2> HIDE DEF r
  <2> QED BY <2>4, <2>5, <2>6 DEF r, t
<1>10. AddLine(b, s \o <<nl>>, p) = [cnt |-> FALSE, buf |-> IF s = <<>> /\ b = NoBuf THEN <<>> ELSE Adds(b, s)]
  <2> DEFINE t == s \o <<nl>>
  <2>1. \A i \in 1..Len(<<nl>>) : <<nl>>[i] # p.com
    BY <1>0
  <2>2. Uncommented(t, p) = t
    BY <1>1, <1>6, <2>1
  <2>3. Chomped(t) = s
    BY <1>3, <1>5
  <2>4. t # <<>>
    <3>1. Len(t) = Len(s) + 1
      BY <1>0, <1>6
    <3> QED BY <1>0, <3>1
  <2> HIDE DEF t
  <2> DEFINE r == AddLine(b, t, p)
  <2>5. r = [cnt |-> r.cnt, buf |-> r.buf]
    BY DEF AddLine
  <2>6. r.cnt = FALSE
    BY <1>2, <2>2, <2>3, <2>4, Zenon DEF AddLine
  <2>7. r.buf = IF s = <<>> /\ b = NoBuf THEN <<>> ELSE Adds(b, s)
    BY <1>2, <2>2, <2>3, <2>4, Zenon DEF AddLine, Adds
  <2> HIDE DEF r
  <2> QED BY <2>5, <2>6, <2>7 DEF r, t
<1>11. ASSUME s # <<>> PROVE AddLine(b, s, p) = [cnt |-> FALSE, buf |-> Adds(b, s)]
  <2>1. Len(<<>>) = 0
    BY EmptySeq
  <2>2. Uncommented(s, p) = s
    <3> DEFINE w == <<>>
    <3>1. w \in Seq(C) /\ \A i \in 1..Len(w) : w[i] # p.com
      BY <1>6, <2>1
    <3> HIDE DEF w
    <3>2. Uncommented(s \o w, p) = s \o w
      BY <1>1, <3>1
    <3> QED BY <1>7, <3>2 DEF w
  <2> DEFINE r == AddLine(b, s, p)
  <2>3. r = [cnt |-> r.cnt, buf |-> r.buf]
    BY DEF AddLine
  <2>4. r.cnt = FALSE
    BY <1>2, <1>3, <1>11, <2>2, Zenon DEF AddLine
  <2>5. r.buf = Adds(b, s)
    BY <1>2, <1>3, <1>11, <2>2, Zenon DEF AddLine, Adds
  <2> HIDE DEF r
  <2> QED BY <2>3, <2>4, <2>5 DEF r
<1> QED BY <1>8, <1>9, <1>10, <1>11

(* What getline takes from a file, and what it leaves.                     *)
LEMMA LineRead ==
  ASSUME NEW S, NEW t \in Seq(S), t # <<>>, NEW b \in Seq(S),
         \/ t[Len(t)] = nl /\ (\A i \in 1..Len(t) - 1 : t[i] # nl)
         \/ b = <<>> /\ (\A i \in 1..Len(t) : t[i] # nl)
  PROVE  LineOf(t \o b) = t /\ AfterLine(t \o b) = b
<1> DEFINE f == t \o b
           n == Len(t)
           ends == {i \in DOMAIN f : f[i] = nl} \cup {Len(f)}
<1>1. n \in Nat /\ n >= 1 /\ Len(b) \in Nat
  BY EmptySeq, LenProperties
<1>2. /\ f \in Seq(S) /\ Len(f) = n + Len(b) /\ DOMAIN f = 1..n + Len(b)
      /\ \A i \in 1..n : f[i] = t[i]
      /\ \A i \in 1..Len(b) : f[n + i] = b[i]
  <2>1. /\ f \in Seq(S) /\ Len(f) = n + Len(b)
        /\ \A i \in 1..n + Len(b) : f[i] = IF i <= n THEN t[i] ELSE b[i - n]
    BY ConcatProperties
  <2> HIDE DEF f
  <2>2. DOMAIN f = 1..n + Len(b)
    BY <2>1, LenProperties
  <2>3. \A i \in 1..n : f[i] = t[i]
    BY <1>1, <2>1
  <2>4. ASSUME NEW i \in 1..Len(b) PROVE f[n + i] = b[i]
    <3>1. n + i \in 1..n + Len(b) /\ ~(n + i <= n) /\ (n + i) - n = i
      BY <1>1
    <3> QED BY <2>1, <3>1
  <2> QED BY <2>1, <2>2, <2>3, <2>4
<1> HIDE DEF f
<1>3. Min(ends) = n
  <2>1. n \in ends /\ \A i \in ends : n <= i
    <3>1. CASE t[n] = nl /\ (\A i \in 1..n - 1 : t[i] # nl)
      <4>1. n \in DOMAIN f /\ f[n] = nl
        <5>1. n \in 1..n /\ n \in 1..n + Len(b)
          BY <1>1
        <5>2. f[n] = t[n]
          BY <1>2, <5>1
        <5> QED BY <1>2, <3>1, <5>1, <5>2
      <4>2. \A i \in DOMAIN f : f[i] = nl => n <= i
        BY <1>1, <1>2, <3>1
      <4> QED BY <1>1, <1>2, <4>1, <4>2
    <3>2. CASE b = <<>> /\ (\A i \in 1..n : t[i] # nl)
      <4>1. Len(b) = 0
        BY <3>2, EmptySeq
      <4>2. \A i \in DOMAIN f : f[i] # nl
        BY <1>1, <1>2, <3>2, <4>1
      <4>3. ends = {n}
        BY <1>1, <1>2, <4>1, <4>2
      <4> QED BY <1>1, <4>3
    <3> QED BY <3>1, <3>2
  <2>2. ends \in SUBSET Nat
    BY <1>1, <1>2
  <2> HIDE DEF ends
  <2> QED BY <2>1, <2>2, LeastIs
<1>4. LineLen(f) = n
  BY <1>3, Zenon DEF LineLen, ends
<1>5. SubSeq(f, 1, n) = t
  <2>1. n \in Int /\ n <= Len(f)
    BY <1>1, <1>2
  <2>2. /\ SubSeq(f, 1, n) \in Seq(S) /\ Len(SubSeq(f, 1, n)) = n
        /\ \A i \in 1..Len(SubSeq(f, 1, n)) : SubSeq(f, 1, n)[i] = f[i]
    BY <1>1, <1>2, <2>1, Beginning
  <2>3. \A i \in 1..Len(SubSeq(f, 1, n)) : SubSeq(f, 1, n)[i] = t[i]
    BY <1>2, <2>2
  <2> QED BY <2>2, <2>3, SeqEqual
<1>6. SubSeq(f, n + 1, Len(f)) = b
  <2> DEFINE u == SubSeq(f, n + 1, Len(f))
             m == Len(b)
  <2>1. n + 1 \in Int /\ Len(f) \in Int /\ Len(f) = n + m /\ m \in Nat
    BY <1>1, <1>2
  <2>2. \A i \in n + 1..Len(f) : f[i] \in S
    <3> SUFFICES ASSUME NEW i \in n + 1..Len(f) PROVE f[i] \in S
      OBVIOUS
    <3>1. i \in 1..Len(f)
      BY <1>1
    <3> QED BY <1>2, <3>1, ElementOfSeq
  <2>3. /\ u \in Seq(S)
        /\ Len(u) = (IF n + 1 <= Len(f) THEN Len(f) - (n + 1) + 1 ELSE 0)
        /\ \A i \in 1..Len(f) - (n + 1) + 1 : u[i] = f[(n + 1) + i - 1]
    BY <2>1, <2>2, SubSeqProperties
  <2> HIDE DEF u, m
  <2>4. Len(u) = m /\ \A i \in 1..m : u[i] = f[n + i]
    <3>1. Len(f) - (n + 1) + 1 = m
      BY <1>1, <2>1
    <3>2. \A i \in 1..m : (n + 1) + i - 1 = n + i
      BY <1>1
    <3>3. Len(u) = m
      BY <1>1, <2>1, <2>3
    <3>4. ASSUME NEW i \in 1..m PROVE u[i] = f[n + i]
      <4>1. u[i] = f[(n + 1) + i - 1]
        BY <2>3, <3>1, <3>4
      <4> QED BY <3>2, <4>1
    <3> QED BY <3>3, <3>4
  <2>5. \A i \in 1..m : u[i] = b[i]
    BY <1>2, <2>4 DEF m
  <2> QED BY <2>3, <2>4, <2>5, SeqEqual DEF u, m
<1> QED BY <1>4, <1>5, <1>6, Zenon DEF LineOf, AfterLine, f, n

(* What fparseln makes of a line in the end, character by character.       *)
Unheld == [text |-> <<>>, held |-> FALSE]
UStep(u, c, p) ==
  IF u.held
  THEN [text |-> (IF skipesc(c, p) THEN u.text ELSE Append(u.text, p.esc)) \o <<c>>, held |-> FALSE]
  ELSE IF c = p.esc THEN [text |-> u.text, held |-> TRUE]
  ELSE [text |-> Append(u.text, c), held |-> FALSE]
UnescOf(f, s, p) ==
  f[0] = Unheld /\ \A k \in 1..Len(s) : f[k] = UStep(f[k - 1], s[k], p)

LEMMA UnescIs ==
  ASSUME NEW p, NEW s, Len(s) \in Nat
  PROVE  \E f : UnescOf(f, s, p) /\ Unescaped(s, p) = f[Len(s)].text
<1> DEFINE n == Len(s)
           Body(g) == [i \in 0..n |-> IF i = 0 THEN Unheld ELSE (LET u == g[i - 1] IN
      IF u.held
      THEN [text |-> (IF skipesc(s[i], p) THEN u.text ELSE Append(u.text, p.esc)) \o <<s[i]>>, held |-> FALSE]
      ELSE IF s[i] = p.esc THEN [text |-> u.text, held |-> TRUE]
      ELSE [text |-> Append(u.text, s[i]), held |-> FALSE])]
           f == CHOOSE g : g = Body(g)
           P == {m \in Nat : \E g : g[0] = Unheld /\ \A k \in 1..m : g[k] = UStep(g[k - 1], s[k], p)}
<1>1. 0 \in P
  <2> DEFINE g == [k \in 0..0 |-> Unheld]
  <2>1. g[0] = Unheld /\ \A k \in 1..0 : g[k] = UStep(g[k - 1], s[k], p)
    OBVIOUS
  <2> QED BY <2>1
<1>2. ASSUME NEW m \in Nat, m \in P PROVE m + 1 \in P
  <2>1. PICK g : g[0] = Unheld /\ \A k \in 1..m : g[k] = UStep(g[k - 1], s[k], p)
    BY <1>2
  <2> DEFINE x == UStep(g[m], s[m + 1], p)
  <2> HIDE DEF x
  <2> DEFINE h == [k \in 0..m + 1 |-> IF k = m + 1 THEN x ELSE g[k]]
  <2>2. h[0] = Unheld /\ h[m + 1] = x /\ m + 1 - 1 = m /\ h[m] = g[m]
    BY <2>1
  <2>3. \A k \in 1..m : h[k] = g[k] /\ h[k - 1] = g[k - 1]
    OBVIOUS
  <2> HIDE DEF h
  <2>4. ASSUME NEW k \in 1..m + 1 PROVE h[k] = UStep(h[k - 1], s[k], p)
    <3>1. CASE k = m + 1
      <4>1. k - 1 = m
        BY <3>1
      <4> QED BY <2>2, <3>1, <4>1, Zenon DEF x
    <3>2. CASE k # m + 1
      <4>1. k \in 1..m
        BY <3>2
      <4>2. h[k] = g[k] /\ h[k - 1] = g[k - 1] /\ g[k] = UStep(g[k - 1], s[k], p)
        BY <2>1, <2>3, <4>1, Zenon
      <4> QED BY <4>2, Zenon
    <3> QED BY <3>1, <3>2
  <2> QED BY <2>2, <2>4
<1> HIDE DEF P
<1>3. n \in Nat
  OBVIOUS
<1>4. n \in P
  BY <1>1, <1>2, <1>3, InductionOnSet, Zenon
<1>5. PICK h : h[0] = Unheld /\ \A k \in 1..n : h[k] = UStep(h[k - 1], s[k], p)
  BY <1>4 DEF P
<1> DEFINE g == [i \in 0..n |-> h[i]]
<1> HIDE DEF n
<1>6. \A i \in 0..n : g[i] = h[i]
  OBVIOUS
<1>7. g = Body(g)
  <2>1. ASSUME NEW i \in 0..n PROVE h[i] = IF i = 0 THEN Unheld ELSE (LET u == g[i - 1] IN
      IF u.held
      THEN [text |-> (IF skipesc(s[i], p) THEN u.text ELSE Append(u.text, p.esc)) \o <<s[i]>>, held |-> FALSE]
      ELSE IF s[i] = p.esc THEN [text |-> u.text, held |-> TRUE]
      ELSE [text |-> Append(u.text, s[i]), held |-> FALSE])
    <3>1. CASE i = 0
      BY <1>5, <3>1, Zenon
    <3>2. CASE i # 0
      <4>1. i \in 1..n /\ i - 1 \in 0..n
        BY <1>3, <3>2
      <4>2. g[i - 1] = h[i - 1] /\ h[i] = UStep(h[i - 1], s[i], p)
        BY <1>5, <1>6, <4>1, Zenon
      <4> QED BY <3>2, <4>2, Zenon DEF UStep
    <3> QED BY <3>1, <3>2
  <2> QED BY <2>1, Zenon
<1> HIDE DEF g
<1>8. f = Body(f)
  BY <1>7, Zenon
<1>9. Unescaped(s, p) = f[n].text
  BY Zenon DEF Unescaped, Unheld, n, f
<1> HIDE DEF f
<1>10. f[0] = Unheld
  <2>1. 0 \in 0..n
    BY <1>3
  <2> QED BY <1>8, <2>1, Zenon
<1>11. ASSUME NEW k \in 1..n PROVE f[k] = UStep(f[k - 1], s[k], p)
  <2>1. k \in 0..n /\ k # 0
    BY <1>3
  <2> QED BY <1>8, <2>1, Zenon DEF UStep
<1> QED BY <1>9, <1>10, <1>11, Zenon DEF UnescOf, n

(* The rounds of its loop.                                                 *)
GatherStart(file) == [buf |-> NoBuf, rest |-> file, read |-> 0, cnt |-> TRUE]
NextRound(g, p, fault) == IF g.cnt THEN Round(g, p, fault) ELSE g
GatherBy(f, file, p, fault) ==
  f[0] = GatherStart(file) /\ \A k \in 1..Len(file) + 1 : f[k] = NextRound(f[k - 1], p, fault)

LEMMA GatherIs ==
  ASSUME NEW file, Len(file) \in Nat, NEW p, NEW fault
  PROVE  \E f : GatherBy(f, file, p, fault) /\ Gather(file, p, fault) = f[Len(file) + 1]
<1> DEFINE n == Len(file) + 1
           Body(g) == [i \in 0..n |-> IF i = 0 THEN GatherStart(file) ELSE (LET g1 == g[i - 1] IN IF g1.cnt THEN Round(g1, p, fault) ELSE g1)]
           f == CHOOSE g : g = Body(g)
           P == {m \in Nat : \E g : g[0] = GatherStart(file) /\ \A k \in 1..m : g[k] = NextRound(g[k - 1], p, fault)}
<1>1. 0 \in P
  <2> DEFINE g == [k \in 0..0 |-> GatherStart(file)]
  <2>1. g[0] = GatherStart(file) /\ \A k \in 1..0 : g[k] = NextRound(g[k - 1], p, fault)
    OBVIOUS
  <2> QED BY <2>1
<1>2. ASSUME NEW m \in Nat, m \in P PROVE m + 1 \in P
  <2>1. PICK g : g[0] = GatherStart(file) /\ \A k \in 1..m : g[k] = NextRound(g[k - 1], p, fault)
    BY <1>2
  <2> DEFINE x == NextRound(g[m], p, fault)
  <2> HIDE DEF x
  <2> DEFINE h == [k \in 0..m + 1 |-> IF k = m + 1 THEN x ELSE g[k]]
  <2>2. h[0] = GatherStart(file) /\ h[m + 1] = x /\ m + 1 - 1 = m /\ h[m] = g[m]
    BY <2>1
  <2>3. \A k \in 1..m : h[k] = g[k] /\ h[k - 1] = g[k - 1]
    OBVIOUS
  <2> HIDE DEF h
  <2>4. ASSUME NEW k \in 1..m + 1 PROVE h[k] = NextRound(h[k - 1], p, fault)
    <3>1. CASE k = m + 1
      <4>1. k - 1 = m
        BY <3>1
      <4> QED BY <2>2, <3>1, <4>1, Zenon DEF x
    <3>2. CASE k # m + 1
      <4>1. k \in 1..m
        BY <3>2
      <4>2. h[k] = g[k] /\ h[k - 1] = g[k - 1] /\ g[k] = NextRound(g[k - 1], p, fault)
        BY <2>1, <2>3, <4>1, Zenon
      <4> QED BY <4>2, Zenon
    <3> QED BY <3>1, <3>2
  <2> QED BY <2>2, <2>4
<1> HIDE DEF P
<1>3. n \in Nat
  OBVIOUS
<1>4. n \in P
  BY <1>1, <1>2, <1>3, InductionOnSet, Zenon
<1>5. PICK h : h[0] = GatherStart(file) /\ \A k \in 1..n : h[k] = NextRound(h[k - 1], p, fault)
  BY <1>4 DEF P
<1> DEFINE g == [i \in 0..n |-> h[i]]
<1> HIDE DEF n
<1>6. \A i \in 0..n : g[i] = h[i]
  OBVIOUS
<1>7. g = Body(g)
  <2>1. ASSUME NEW i \in 0..n PROVE h[i] = IF i = 0 THEN GatherStart(file) ELSE (LET g1 == g[i - 1] IN IF g1.cnt THEN Round(g1, p, fault) ELSE g1)
    <3>1. CASE i = 0
      BY <1>5, <3>1, Zenon
    <3>2. CASE i # 0
      <4>1. i \in 1..n /\ i - 1 \in 0..n
        BY <1>3, <3>2
      <4>2. g[i - 1] = h[i - 1] /\ h[i] = NextRound(h[i - 1], p, fault)
        BY <1>5, <1>6, <4>1, Zenon
      <4> QED BY <3>2, <4>2, Zenon DEF NextRound
    <3> QED BY <3>1, <3>2
  <2> QED BY <2>1, Zenon
<1> HIDE DEF g
<1>8. f = Body(f)
  BY <1>7, Zenon
<1>9. Gather(file, p, fault) = f[n]
  BY Zenon DEF Gather, GatherStart, n, f
<1> HIDE DEF f
<1>10. f[0] = GatherStart(file)
  <2>1. 0 \in 0..n
    BY <1>3
  <2> QED BY <1>8, <2>1, Zenon
<1>11. ASSUME NEW k \in 1..n PROVE f[k] = NextRound(f[k - 1], p, fault)
  <2>1. k \in 0..n /\ k # 0
    BY <1>3
  <2> QED BY <1>8, <2>1, Zenon DEF NextRound
<1> QED BY <1>9, <1>10, <1>11, Zenon DEF GatherBy, n

(* What the writer means, part by part.                                    *)
NothingMeant == [done |-> <<>>, text |-> <<>>, lines |-> 0]
MeanFor(f, parts, p) == f[0] = NothingMeant /\ \A k \in 1..Len(parts) : f[k] = Mean(f[k - 1], parts[k], p)
MeanOf(f) == MeanFor(f, written, params)
Closing(m) ==
  IF m.text = <<>> THEN m.done ELSE Append(m.done, [text |-> m.text, lineno |-> m.lines + 1])

LEMMA MeantIs ==
  ASSUME Len(written) \in Nat
  PROVE  \E f : MeanOf(f) /\ Meant = Closing(f[Len(written)])
<1> DEFINE n == Len(written)
           Body(g) == [i \in 0..n |-> IF i = 0 THEN NothingMeant ELSE Mean(g[i - 1], written[i], params)]
           f == CHOOSE g : g = Body(g)
           P == {m \in Nat : \E g : g[0] = NothingMeant /\ \A k \in 1..m : g[k] = Mean(g[k - 1], written[k], params)}
<1>1. 0 \in P
  <2> DEFINE g == [k \in 0..0 |-> NothingMeant]
  <2>1. g[0] = NothingMeant /\ \A k \in 1..0 : g[k] = Mean(g[k - 1], written[k], params)
    OBVIOUS
  <2> QED BY <2>1
<1>2. ASSUME NEW m \in Nat, m \in P PROVE m + 1 \in P
  <2>1. PICK g : g[0] = NothingMeant /\ \A k \in 1..m : g[k] = Mean(g[k - 1], written[k], params)
    BY <1>2
  <2> DEFINE x == Mean(g[m], written[m + 1], params)
  <2> HIDE DEF x
  <2> DEFINE h == [k \in 0..m + 1 |-> IF k = m + 1 THEN x ELSE g[k]]
  <2>2. h[0] = NothingMeant /\ h[m + 1] = x /\ m + 1 - 1 = m /\ h[m] = g[m]
    BY <2>1
  <2>3. \A k \in 1..m : h[k] = g[k] /\ h[k - 1] = g[k - 1]
    OBVIOUS
  <2> HIDE DEF h
  <2>4. ASSUME NEW k \in 1..m + 1 PROVE h[k] = Mean(h[k - 1], written[k], params)
    <3>1. CASE k = m + 1
      <4>1. k - 1 = m
        BY <3>1
      <4> QED BY <2>2, <3>1, <4>1, Zenon DEF x
    <3>2. CASE k # m + 1
      <4>1. k \in 1..m
        BY <3>2
      <4>2. h[k] = g[k] /\ h[k - 1] = g[k - 1] /\ g[k] = Mean(g[k - 1], written[k], params)
        BY <2>1, <2>3, <4>1, Zenon
      <4> QED BY <4>2, Zenon
    <3> QED BY <3>1, <3>2
  <2> QED BY <2>2, <2>4
<1> HIDE DEF P
<1>3. n \in Nat
  OBVIOUS
<1>4. n \in P
  BY <1>1, <1>2, <1>3, InductionOnSet, Zenon
<1>5. PICK h : h[0] = NothingMeant /\ \A k \in 1..n : h[k] = Mean(h[k - 1], written[k], params)
  BY <1>4 DEF P
<1> DEFINE g == [i \in 0..n |-> h[i]]
<1> HIDE DEF n
<1>6. \A i \in 0..n : g[i] = h[i]
  OBVIOUS
<1>7. g = Body(g)
  <2>1. ASSUME NEW i \in 0..n PROVE h[i] = IF i = 0 THEN NothingMeant ELSE Mean(g[i - 1], written[i], params)
    <3>1. CASE i = 0
      BY <1>5, <3>1, Zenon
    <3>2. CASE i # 0
      <4>1. i \in 1..n /\ i - 1 \in 0..n
        BY <1>3, <3>2
      <4>2. g[i - 1] = h[i - 1] /\ h[i] = Mean(h[i - 1], written[i], params)
        BY <1>5, <1>6, <4>1, Zenon
      <4> QED BY <3>2, <4>2, Zenon
    <3> QED BY <3>1, <3>2
  <2> QED BY <2>1, Zenon
<1> HIDE DEF g
<1>8. f = Body(f)
  BY <1>7, Zenon
<1>9. Meant = Closing(f[n])
  BY Zenon DEF Meant, Closing, NothingMeant, n, f
<1> HIDE DEF f
<1>10. f[0] = NothingMeant
  <2>1. 0 \in 0..n
    BY <1>3
  <2> QED BY <1>8, <2>1, Zenon
<1>11. ASSUME NEW k \in 1..n PROVE f[k] = Mean(f[k - 1], written[k], params)
  <2>1. k \in 0..n /\ k # 0
    BY <1>3
  <2> QED BY <1>8, <2>1, Zenon
<1> QED BY <1>9, <1>10, <1>11, Zenon DEF MeanOf, MeanFor, n

(* x is what has been made of s.                                           *)
Unesc(s, x, p) == \E f : UnescOf(f, s, p) /\ f[Len(s)] = x

LEMMA UnescEmpty == \A p : Unesc(<<>>, Unheld, p)
<1> SUFFICES ASSUME NEW p PROVE Unesc(<<>>, Unheld, p)
  OBVIOUS
<1> DEFINE f == [k \in 0..0 |-> Unheld]
<1>1. f[0] = Unheld /\ Len(<<>>) = 0
  BY EmptySeq
<1> HIDE DEF f
<1>2. UnescOf(f, <<>>, p)
  BY <1>1 DEF UnescOf
<1> QED BY <1>1, <1>2 DEF Unesc

LEMMA UnescMore ==
  ASSUME NEW S, NEW s \in Seq(S), NEW c \in S, NEW x, NEW p, Unesc(s, x, p)
  PROVE  Unesc(Append(s, c), UStep(x, c, p), p)
<1> DEFINE n == Len(s)
           t == Append(s, c)
           y == UStep(x, c, p)
<1>1. n \in Nat /\ Len(t) = n + 1 /\ t[n + 1] = c /\ \A i \in 1..n : t[i] = s[i]
  BY LenProperties, AppendProperties
<1>2. PICK f : f[0] = Unheld /\ (\A k \in 1..n : f[k] = UStep(f[k - 1], s[k], p)) /\ f[n] = x
  BY Zenon DEF Unesc, UnescOf
<1> HIDE DEF y, t, n
<1> DEFINE g == [k \in 0..n + 1 |-> IF k = n + 1 THEN y ELSE f[k]]
<1>3. g[0] = Unheld /\ g[n + 1] = y /\ g[n] = x
  BY <1>1, <1>2
<1>4. \A k \in 1..n : g[k] = f[k] /\ g[k - 1] = f[k - 1]
  BY <1>1
<1> HIDE DEF g
<1>5. ASSUME NEW k \in 1..n + 1 PROVE g[k] = UStep(g[k - 1], t[k], p)
  <2>1. CASE k = n + 1
    <3>1. k - 1 = n
      BY <1>1, <2>1
    <3> QED BY <1>1, <1>3, <2>1, <3>1, Zenon DEF y
  <2>2. CASE k # n + 1
    <3>1. k \in 1..n
      BY <1>1, <2>2
    <3>2. g[k] = f[k] /\ g[k - 1] = f[k - 1] /\ f[k] = UStep(f[k - 1], s[k], p) /\ t[k] = s[k]
      BY <1>1, <1>2, <1>4, <3>1, Zenon
    <3> QED BY <3>2, Zenon
  <2> QED BY <2>1, <2>2
<1>6. UnescOf(g, t, p)
  BY <1>1, <1>3, <1>5, Zenon DEF UnescOf
<1> QED BY <1>1, <1>3, <1>6, Zenon DEF Unesc, y, t

LEMMA UnescGives ==
  ASSUME NEW S, NEW s \in Seq(S), NEW x, NEW p, Unesc(s, x, p)
  PROVE  Unescaped(s, p) = x.text
<1> DEFINE n == Len(s)
<1>1. n \in Nat
  BY LenProperties
<1>2. PICK f : f[0] = Unheld /\ (\A k \in 1..n : f[k] = UStep(f[k - 1], s[k], p)) /\ f[n] = x
  BY Zenon DEF Unesc, UnescOf
<1>3. PICK g : g[0] = Unheld /\ (\A k \in 1..n : g[k] = UStep(g[k - 1], s[k], p)) /\ Unescaped(s, p) = g[n].text
  BY <1>1, UnescIs, Zenon DEF UnescOf
<1> HIDE DEF n
<1> DEFINE P == {k \in Nat : k <= n => f[k] = g[k]}
<1>4. 0 \in P
  BY <1>2, <1>3
<1>5. ASSUME NEW k \in Nat, k \in P PROVE k + 1 \in P
  <2> SUFFICES ASSUME k + 1 <= n PROVE f[k + 1] = g[k + 1]
    OBVIOUS
  <2> DEFINE j == k + 1
  <2>1. j \in 1..n /\ j - 1 = k /\ f[k] = g[k]
    BY <1>1, <1>5
  <2> HIDE DEF j
  <2>2. f[j] = UStep(f[j - 1], s[j], p) /\ g[j] = UStep(g[j - 1], s[j], p)
    BY <1>2, <1>3, <2>1, Zenon
  <2>3. f[j] = g[j]
    BY <2>1, <2>2, Zenon
  <2> QED BY <2>3 DEF j
<1> HIDE DEF P
<1>6. n \in P
  BY <1>1, <1>4, <1>5, InductionOnSet, Zenon
<1>7. f[n] = g[n]
  BY <1>1, <1>6 DEF P
<1> QED BY <1>2, <1>3, <1>7

(* b is what of a line has been gathered, t what it means.                 *)
Lined(b, t, p) ==
  /\ b \in Seq(LineTexts(p)) /\ t \in Seq(LineTexts(p))
  /\ p.flags = {} \/ p.esc = NUL => b = t
  /\ p.esc # NUL => Unesc(b, [text |-> t, held |-> FALSE], p)
  /\ b = <<>> <=> t = <<>>

LEMMA NotNoBuf ==
  ASSUME NEW p \in Params, NEW s \in Seq(LineTexts(p))
  PROVE  s # NoBuf
<1> SUFFICES ASSUME s = NoBuf PROVE FALSE
  OBVIOUS
<1>1. NoBuf[1] = NUL /\ Len(NoBuf) = 1
  BY DEF NoBuf
<1>2. s[1] \in LineTexts(p)
  BY <1>1, ElementOfSeq
<1> QED BY <1>1, <1>2, CharsFit

LineReturned(b, p) == IF p.flags # {} /\ p.esc # NUL /\ b # NoBuf THEN Unescaped(b, p) ELSE b

LEMMA LinedReturned ==
  ASSUME NEW p \in Params, NEW b, NEW t, Lined(b, t, p)
  PROVE  LineReturned(b, p) = t /\ b # NoBuf /\ t # NoBuf
<1>1. b # NoBuf /\ t # NoBuf
  BY NotNoBuf DEF Lined
<1>2. CASE p.flags = {} \/ p.esc = NUL
  <2>1. b = t
    BY <1>2 DEF Lined
  <2> QED BY <1>1, <1>2, <2>1 DEF LineReturned
<1>3. CASE ~(p.flags = {} \/ p.esc = NUL)
  <2>1. b \in Seq(LineTexts(p)) /\ Unesc(b, [text |-> t, held |-> FALSE], p)
    BY <1>3 DEF Lined
  <2>2. Unescaped(b, p) = [text |-> t, held |-> FALSE].text
    BY <2>1, UnescGives
  <2> QED BY <1>1, <1>3, <2>2 DEF LineReturned
<1> QED BY <1>2, <1>3

LEMMA LinedEmpty == ASSUME NEW p PROVE Lined(<<>>, <<>>, p)
<1>1. <<>> \in Seq(LineTexts(p))
  BY EmptySeq
<1>2. Unesc(<<>>, [text |-> <<>>, held |-> FALSE], p)
  BY UnescEmpty DEF Unheld
<1> QED BY <1>1, <1>2 DEF Lined

LEMMA LinedChar ==
  ASSUME NEW p \in Params, NEW b, NEW t, Lined(b, t, p), NEW c \in Ordinary
  PROVE  Lined(b \o <<c>>, t \o <<c>>, p)
<1> DEFINE b1 == Append(b, c)
           t1 == Append(t, c)
           T == LineTexts(p)
<1>1. c \in T /\ c # p.esc
  BY CharsFit DEF LineTexts
<1>2. b \in Seq(T) /\ t \in Seq(T)
  BY DEF Lined
<1> HIDE DEF T
<1>3. b \o <<c>> = b1 /\ t \o <<c>> = t1
  BY <1>1, <1>2
<1>4. b1 \in Seq(T) /\ t1 \in Seq(T) /\ b1 # <<>> /\ t1 # <<>>
  <2>1. /\ b1 \in Seq(T) /\ t1 \in Seq(T) /\ Len(b1) = Len(b) + 1 /\ Len(t1) = Len(t) + 1
        /\ Len(b) \in Nat /\ Len(t) \in Nat
    BY <1>1, <1>2, AppendProperties, LenProperties
  <2> HIDE DEF b1, t1
  <2>2. Len(b1) # 0 /\ Len(t1) # 0
    BY <2>1
  <2> QED BY <2>1, <2>2, EmptySeq
<1>5. p.flags = {} \/ p.esc = NUL => b1 = t1
  BY DEF Lined
<1>6. ASSUME p.esc # NUL PROVE Unesc(b1, [text |-> t1, held |-> FALSE], p)
  <2> DEFINE x == [text |-> t, held |-> FALSE]
  <2>1. Unesc(b, x, p)
    BY <1>6 DEF Lined
  <2>2. UStep(x, c, p) = [text |-> t1, held |-> FALSE]
    BY <1>1 DEF UStep
  <2> HIDE DEF x
  <2>3. Unesc(b1, UStep(x, c, p), p)
    BY <1>1, <1>2, <2>1, UnescMore
  <2> QED BY <2>2, <2>3
<1> HIDE DEF b1, t1
<1>7. Lined(b1, t1, p)
  BY <1>4, <1>5, <1>6 DEF Lined, T
<1> QED BY <1>3, <1>7

LEMMA LinedEscaped ==
  ASSUME NEW p \in Params, NEW b, NEW t, Lined(b, t, p), p.esc # NUL, NEW c \in LineTexts(p)
  PROVE  Lined(b \o <<p.esc, c>>, t \o (IF skipesc(c, p) THEN <<c>> ELSE <<p.esc, c>>), p)
<1> DEFINE b1 == Append(Append(b, p.esc), c)
           u == IF skipesc(c, p) THEN <<c>> ELSE <<p.esc, c>>
           t1 == t \o u
           T == LineTexts(p)
<1>1. p.esc \in T
  BY DEF LineTexts
<1>2. b \in Seq(T) /\ t \in Seq(T)
  BY DEF Lined
<1> HIDE DEF T
<1>3. b \o <<p.esc, c>> = b1
  BY <1>1, <1>2 DEF T
<1>4. b1 \in Seq(T) /\ t1 \in Seq(T) /\ b1 # <<>> /\ t1 # <<>>
  <2>1. Append(b, p.esc) \in Seq(T)
    BY <1>1, <1>2, AppendProperties
  <2>2. /\ b1 \in Seq(T) /\ Len(b1) = Len(Append(b, p.esc)) + 1 /\ Len(Append(b, p.esc)) \in Nat
    BY <2>1, AppendProperties, LenProperties DEF T
  <2>3. u \in Seq(T) /\ Len(u) \in Nat \ {0}
    <3>1. <<c>> \in Seq(T) /\ <<p.esc, c>> \in Seq(T) /\ Len(<<c>>) = 1 /\ Len(<<p.esc, c>>) = 2
      BY <1>1 DEF T
    <3> QED BY <3>1
  <2> HIDE DEF u
  <2>4. t1 \in Seq(T) /\ Len(t1) = Len(t) + Len(u) /\ Len(t) \in Nat
    BY <1>2, <2>3, ConcatProperties, LenProperties
  <2> HIDE DEF b1, t1
  <2>5. Len(b1) # 0 /\ Len(t1) # 0
    BY <2>2, <2>3, <2>4
  <2> QED BY <2>2, <2>4, <2>5, EmptySeq
<1>5. ASSUME p.flags = {} \/ p.esc = NUL PROVE b1 = t1
  <2>1. b = t /\ ~skipesc(c, p)
    BY <1>5 DEF Lined, skipesc
  <2> QED BY <1>3, <2>1
<1>6. Unesc(b1, [text |-> t1, held |-> FALSE], p)
  <2> DEFINE x == [text |-> t, held |-> FALSE]
             y == [text |-> t, held |-> TRUE]
             z == [text |-> t1, held |-> FALSE]
  <2>1. Unesc(b, x, p)
    BY DEF Lined
  <2>2. UStep(x, p.esc, p) = y
    BY DEF UStep
  <2>3. UStep(y, c, p) = z
    <3>1. CASE skipesc(c, p)
      <4>1. t1 = t \o <<c>>
        BY <3>1
      <4> QED BY <3>1, <4>1 DEF UStep
    <3>2. CASE ~skipesc(c, p)
      <4>1. t1 = Append(t, p.esc) \o <<c>>
        <5>1. t1 = t \o <<p.esc, c>>
          BY <3>2
        <5> QED BY <1>1, <1>2, <5>1 DEF T
      <4> QED BY <3>2, <4>1 DEF UStep
    <3> QED BY <3>1, <3>2
  <2> HIDE DEF x, y, z
  <2>4. Unesc(Append(b, p.esc), y, p)
    <3>1. Unesc(Append(b, p.esc), UStep(x, p.esc, p), p)
      BY <1>1, <1>2, <2>1, UnescMore
    <3> QED BY <2>2, <3>1
  <2>5. Append(b, p.esc) \in Seq(T) /\ c \in T
    BY <1>1, <1>2, AppendProperties DEF T
  <2>6. Unesc(b1, UStep(y, c, p), p)
    BY <2>4, <2>5, UnescMore
  <2> QED BY <2>3, <2>6 DEF z
<1> HIDE DEF b1, t1
<1>7. Lined(b1, t1, p)
  BY <1>4, <1>5, <1>6 DEF Lined, T
<1> QED BY <1>3, <1>7 DEF t1, u

(* What the writer puts into a file.                                       *)
Escapable(p) == IF p.esc = NUL THEN {} ELSE LineTexts(p)
Breaks == {"goeson", "comment", "end"}
BreaksFor(p) ==
  {is \in Breaks : (is = "goeson" => p.con # NUL) /\ (is = "comment" => p.com # NUL)}
PartsFor(p) ==
  {Part("char", c) : c \in Ordinary} \cup {Part("escaped", c) : c \in Escapable(p)}
  \cup {Part(is, nl) : is \in BreaksFor(p)}

LEMMA InFileIs ==
  ASSUME NEW p \in Params, NEW part \in PartsFor(p)
  PROVE  /\ InFile(part, p) \in Seq(LineChars(p)) /\ InFile(part, p) # <<>>
         /\ \/ part.is = "char" /\ part.c \in Ordinary /\ InFile(part, p) = <<part.c>>
            \/ /\ part.is = "escaped" /\ p.esc # NUL /\ part.c \in LineTexts(p)
               /\ InFile(part, p) = <<p.esc, part.c>>
            \/ part.is \in Breaks
         /\ part.is = "goeson" => p.con # NUL /\ InFile(part, p) = <<p.con, nl>>
         /\ part.is = "comment" => p.com # NUL /\ InFile(part, p) \in {<<p.com, nl>>, <<p.com, p.con, nl>>}
         /\ part.is = "end" => InFile(part, p) = <<nl>>
<1> DEFINE C == LineChars(p)
           w == InFile(part, p)
<1>0. /\ nl \in C /\ p.esc \in C /\ p.con \in C /\ p.com \in C /\ Ordinary \subseteq C /\ LineTexts(p) \subseteq C
  BY CharsFit DEF LineChars
<1>1. CASE \E c \in Ordinary : part = Part("char", c)
  <2>1. PICK c \in Ordinary : part = Part("char", c)
    BY <1>1
  <2>2. part.is = "char" /\ part.c = c
    BY <2>1 DEF Part
  <2>3. w = <<c>>
    BY <2>2 DEF InFile
  <2> HIDE DEF w, C
  <2>4. w \in Seq(C) /\ w # <<>>
    BY <1>0, <2>3
  <2> QED BY <2>2, <2>3, <2>4 DEF w, C
<1>2. CASE \E c \in Escapable(p) : part = Part("escaped", c)
  <2>1. PICK c \in Escapable(p) : part = Part("escaped", c)
    BY <1>2
  <2>2. part.is = "escaped" /\ part.c = c /\ p.esc # NUL /\ c \in LineTexts(p)
    BY <2>1 DEF Part, Escapable
  <2>3. w = <<p.esc, c>>
    BY <2>2 DEF InFile
  <2> HIDE DEF w, C
  <2>4. w \in Seq(C) /\ w # <<>>
    BY <1>0, <2>2, <2>3
  <2> QED BY <2>2, <2>3, <2>4 DEF w, C
<1>3. CASE \E is \in BreaksFor(p) : part = Part(is, nl)
  <2>1. part.is \in Breaks /\ (part.is = "goeson" => p.con # NUL) /\ (part.is = "comment" => p.com # NUL)
    BY <1>3 DEF Part, BreaksFor
  <2>2. /\ part.is = "goeson" => w = <<p.con, nl>>
        /\ part.is = "comment" => w \in {<<p.com, nl>>, <<p.com, p.con, nl>>}
        /\ part.is = "end" => w = <<nl>>
    BY DEF InFile
  <2> HIDE DEF w, C
  <2>3. /\ <<p.con, nl>> \in Seq(C) /\ <<p.con, nl>> # <<>>
        /\ <<p.com, p.con, nl>> \in Seq(C) /\ <<p.com, p.con, nl>> # <<>>
        /\ <<p.com, nl>> \in Seq(C) /\ <<p.com, nl>> # <<>>
        /\ <<nl>> \in Seq(C) /\ <<nl>> # <<>>
    BY <1>0
  <2>4. w \in Seq(C) /\ w # <<>>
    BY <2>1, <2>2, <2>3, Zenon DEF Breaks
  <2> QED BY <2>1, <2>2, <2>4 DEF w, C
<1> QED BY <1>1, <1>2, <1>3 DEF PartsFor

(* What the reader finds behind each part.                                 *)
FileFor(B, parts, p) ==
  /\ B \in [0..Len(parts) -> Seq(LineChars(p))]
  /\ B[Len(parts)] = <<>>
  /\ \A k \in 0..Len(parts) - 1 : B[k] = InFile(parts[k + 1], p) \o B[k + 1]
FileOf(B) == FileFor(B, written, params)

(* What the writer means.                                                  *)
LineRecs == [text : Seq(LineTexts(params)), lineno : Nat]
Meanings == [done : Seq(LineRecs), text : Seq(LineTexts(params)), lines : Nat]

Over(m) == [done |-> Append(m.done, [text |-> m.text, lineno |-> m.lines + 1]), text |-> <<>>, lines |-> m.lines + 1]

LEMMA MeanIs ==
  ASSUME params \in Params, NEW part \in PartsFor(params), NEW m \in Meanings
  PROVE  /\ part.is = "char" => Mean(m, part, params) = [done |-> m.done, text |-> m.text \o <<part.c>>, lines |-> m.lines]
         /\ part.is = "escaped" =>
              Mean(m, part, params) = [done |-> m.done, lines |-> m.lines,
                text |-> m.text \o (IF skipesc(part.c, params) THEN <<part.c>> ELSE <<params.esc, part.c>>)]
         /\ part.is = "goeson" \/ (part.is = "comment" /\ m.text = <<>>) =>
              Mean(m, part, params) = [done |-> m.done, text |-> m.text, lines |-> m.lines + 1]
         /\ part.is = "end" \/ (part.is = "comment" /\ m.text # <<>>) => Mean(m, part, params) = Over(m)
<1>0. m.lines \in Nat /\ m.lines + 1 # m.lines
  BY DEF Meanings
<1>1. ASSUME part.is = "char"
      PROVE  Mean(m, part, params) = [done |-> m.done, text |-> m.text \o <<part.c>>, lines |-> m.lines]
  BY <1>1, Zenon DEF Mean
<1>2. ASSUME part.is = "escaped"
      PROVE  Mean(m, part, params) = [done |-> m.done, lines |-> m.lines,
                text |-> m.text \o (IF skipesc(part.c, params) THEN <<part.c>> ELSE <<params.esc, part.c>>)]
  <2>1. CASE skipesc(part.c, params)
    BY <1>2, <2>1 DEF Mean
  <2>2. CASE ~skipesc(part.c, params)
    BY <1>2, <2>2 DEF Mean
  <2> QED BY <2>1, <2>2
<1>3. ASSUME part.is = "goeson" \/ (part.is = "comment" /\ m.text = <<>>)
      PROVE  Mean(m, part, params) = [done |-> m.done, text |-> m.text, lines |-> m.lines + 1]
  BY <1>0, <1>3 DEF Mean
<1>4. ASSUME part.is = "end" \/ (part.is = "comment" /\ m.text # <<>>)
      PROVE  Mean(m, part, params) = Over(m)
  BY <1>0, <1>4 DEF Mean, Over
<1> QED BY <1>1, <1>2, <1>3, <1>4

LEMMA MeanTyped ==
  ASSUME params \in Params, NEW part \in PartsFor(params), NEW m \in Meanings
  PROVE  Mean(m, part, params) \in Meanings
<1> DEFINE T == LineTexts(params)
<1>0. m.done \in Seq(LineRecs) /\ m.text \in Seq(T) /\ m.lines \in Nat /\ m.lines + 1 \in Nat /\ <<>> \in Seq(T)
  BY EmptySeq DEF Meanings
<1>1. \/ part.is = "char" /\ part.c \in Ordinary
      \/ part.is = "escaped" /\ params.esc # NUL /\ part.c \in LineTexts(params)
      \/ part.is \in Breaks
  BY InFileIs
<1>2. CASE part.is = "char" /\ part.c \in Ordinary
  <2>1. part.c \in T
    BY <1>2, CharsFit DEF LineTexts
  <2> HIDE DEF T
  <2>2. m.text \o <<part.c>> \in Seq(T)
    BY <1>0, <2>1
  <2>3. Mean(m, part, params) = [done |-> m.done, text |-> m.text \o <<part.c>>, lines |-> m.lines]
    BY <1>2, MeanIs
  <2> QED BY <1>0, <2>2, <2>3 DEF Meanings, T
<1>3. CASE part.is = "escaped" /\ params.esc # NUL /\ part.c \in LineTexts(params)
  <2> DEFINE u == IF skipesc(part.c, params) THEN <<part.c>> ELSE <<params.esc, part.c>>
  <2>1. part.c \in T /\ params.esc \in T
    BY <1>3 DEF LineTexts
  <2> HIDE DEF T
  <2>2. u \in Seq(T)
    BY <2>1
  <2>3. Mean(m, part, params) = [done |-> m.done, lines |-> m.lines, text |-> m.text \o u]
    BY <1>3, MeanIs
  <2> HIDE DEF u
  <2>4. m.text \o u \in Seq(T)
    BY <1>0, <2>2, ConcatProperties
  <2> QED BY <1>0, <2>3, <2>4 DEF Meanings, T
<1>4. CASE part.is \in Breaks
  <2>1. [text |-> m.text, lineno |-> m.lines + 1] \in LineRecs
    BY <1>0 DEF LineRecs
  <2> HIDE DEF T
  <2>2. Append(m.done, [text |-> m.text, lineno |-> m.lines + 1]) \in Seq(LineRecs)
    BY <1>0, <2>1, AppendProperties
  <2>3. Over(m) \in Meanings
    BY <1>0, <2>2 DEF Over, Meanings, T
  <2>4. [done |-> m.done, text |-> m.text, lines |-> m.lines + 1] \in Meanings
    BY <1>0 DEF Meanings, T
  <2> QED BY <1>4, <2>3, <2>4, MeanIs DEF Breaks
<1> QED BY <1>1, <1>2, <1>3, <1>4

LEMMA MeaningsTyped ==
  ASSUME params \in Params, written \in Seq(PartsFor(params)), NEW M, MeanOf(M)
  PROVE  \A k \in 0..Len(written) : M[k] \in Meanings
<1> DEFINE n == Len(written)
           P == {k \in Nat : k <= n => M[k] \in Meanings}
<1>0. n \in Nat /\ M[0] = NothingMeant /\ \A k \in 1..n : M[k] = Mean(M[k - 1], written[k], params) /\ written[k] \in PartsFor(params)
  BY LenProperties, ElementOfSeq DEF MeanOf, MeanFor
<1> HIDE DEF n
<1>1. 0 \in P
  <2>1. <<>> \in Seq(LineRecs) /\ <<>> \in Seq(LineTexts(params))
    BY EmptySeq
  <2>2. NothingMeant \in Meanings
    BY <2>1 DEF NothingMeant, Meanings
  <2> QED BY <1>0, <2>2
<1>2. ASSUME NEW k \in Nat, k \in P PROVE k + 1 \in P
  <2> SUFFICES ASSUME k + 1 <= n PROVE M[k + 1] \in Meanings
    OBVIOUS
  <2> DEFINE j == k + 1
  <2>1. j \in 1..n /\ j - 1 = k /\ M[k] \in Meanings
    BY <1>0, <1>2
  <2> HIDE DEF j
  <2>2. M[j] = Mean(M[k], written[j], params) /\ written[j] \in PartsFor(params)
    BY <1>0, <2>1
  <2> QED BY <2>1, <2>2, MeanTyped DEF j
<1> HIDE DEF P
<1>3. \A k \in Nat : k \in P
  BY <1>1, <1>2, InductionOnSet, Zenon
<1> QED BY <1>0, <1>3 DEF P, n

(* What has been gathered when a line begins that may go on another.       *)
Pending(b, t, p) == (b = NoBuf /\ t = <<>>) \/ (b # NoBuf /\ b # <<>> /\ Lined(b, t, p))
Base(b) == IF b = NoBuf THEN <<>> ELSE b

LEMMA PendingBase ==
  ASSUME NEW p, NEW b, NEW t, Pending(b, t, p)
  PROVE  Lined(Base(b), t, p)
<1>1. CASE b = NoBuf /\ t = <<>>
  BY <1>1, LinedEmpty DEF Base
<1>2. CASE b # NoBuf /\ Lined(b, t, p)
  BY <1>2 DEF Base
<1> QED BY <1>1, <1>2 DEF Pending

LEMMA AddsIs ==
  ASSUME NEW p \in Params, NEW b, NEW t, Pending(b, t, p), NEW s \in Seq(LineTexts(p)), NEW u, Lined(Base(b) \o s, u, p)
  PROVE  /\ Pending(Adds(b, s), u, p)
         /\ s = <<>> /\ b = NoBuf <=> u = <<>>
         /\ (s = <<>> /\ b = NoBuf) \/ Adds(b, s) = Base(b) \o s
         /\ s = <<>> /\ b = NoBuf => Base(b) \o s = <<>>
<1> DEFINE c == Base(b)
<1>1. c \in Seq(LineTexts(p))
  BY PendingBase DEF Lined
<1>2. c = <<>> <=> b = NoBuf
  BY DEF Base, Pending, NoBuf
<1>3. c \o <<>> = c /\ <<>> \o s = s
  BY <1>1, ConcatEmptySeq
<1>4. c \o s = <<>> <=> c = <<>> /\ s = <<>>
  BY <1>1, ConcatEqualIffEmpty
<1>5. c \o s \in Seq(LineTexts(p)) /\ (c \o s = <<>> <=> u = <<>>)
  BY DEF Lined
<1>6. c \o s # NoBuf
  BY <1>5, NotNoBuf
<1>7. b # NoBuf => c = b
  BY DEF Base
<1>8. (s = <<>> /\ b = NoBuf) \/ Adds(b, s) = c \o s
  <2>1. CASE s = <<>>
    BY <1>3, <1>7, <2>1 DEF Adds
  <2>2. CASE s # <<>> /\ b = NoBuf
    BY <1>2, <1>3, <2>2 DEF Adds
  <2>3. CASE s # <<>> /\ b # NoBuf
    BY <1>7, <2>3 DEF Adds
  <2> QED BY <2>1, <2>2, <2>3
<1>9. Pending(Adds(b, s), u, p)
  <2>1. CASE s = <<>> /\ b = NoBuf
    <3>1. u = <<>>
      BY <1>2, <1>4, <1>5, <2>1
    <3> QED BY <2>1, <3>1 DEF Adds, Pending
  <2>2. CASE ~(s = <<>> /\ b = NoBuf)
    <3>1. Adds(b, s) = c \o s /\ c \o s # <<>>
      BY <1>2, <1>4, <1>8, <2>2
    <3> HIDE DEF c
    <3> QED BY <1>6, <3>1 DEF Pending, c
  <2> QED BY <2>1, <2>2
<1> QED BY <1>2, <1>4, <1>5, <1>8, <1>9

(* From the beginning of a line, behind part i, to part k of it.           *)
Scanned(b, i, k, s, B, M) ==
  /\ Clean(s, params)
  /\ B[i] = s \o B[k]
  /\ M[k].done = M[i].done /\ M[k].lines = M[i].lines
  /\ Lined(Base(b) \o s, M[k].text, params)

LEMMA ScannedMore ==
  ASSUME params \in Params, written \in Seq(PartsFor(params)), NEW B, FileOf(B), NEW M, MeanOf(M),
         NEW i \in 0..Len(written), NEW k \in 0..Len(written) - 1, NEW s, NEW b,
         Base(b) \in Seq(LineTexts(params)),
         Scanned(b, i, k, s, B, M), written[k + 1].is \notin Breaks
  PROVE  \E t : Scanned(b, i, k + 1, t, B, M)
<1> DEFINE n == Len(written)
           j == k + 1
           part == written[j]
           w == InFile(part, params)
           t == s \o w
           C == LineChars(params)
           T == LineTexts(params)
           c == Base(b)
<1>1. n \in Nat /\ j \in 1..n /\ k \in 0..n - 1 /\ j - 1 = k /\ k \in 0..n /\ j \in 0..n
  BY LenProperties
<1>2. part \in PartsFor(params)
  BY <1>1, ElementOfSeq
<1>3. M[j] = Mean(M[k], part, params) /\ M[k] \in Meanings
  <2>1. M[j] = Mean(M[j - 1], part, params)
    BY <1>1 DEF MeanOf, MeanFor
  <2> QED BY <1>1, <2>1, MeaningsTyped
<1>4. B[k] = w \o B[j] /\ B[j] \in Seq(C)
  BY <1>1 DEF FileOf, FileFor
<1>5. w \in Seq(C)
  BY <1>2, InFileIs
<1>6. Clean(s, params) /\ B[i] = s \o B[k] /\ s \in Seq(T) /\ s \in Seq(C)
  <2>1. Clean(s, params) /\ B[i] = s \o B[k]
    BY DEF Scanned
  <2>2. s \in Seq(T) /\ T \subseteq C
    BY <2>1, CharsFit DEF Clean
  <2> QED BY <2>1, <2>2, SeqMonotonic
<1>7. B[i] = t \o B[j]
  <2> DEFINE z == B[j]
  <2>0. w \in Seq(C) /\ z \in Seq(C) /\ s \in Seq(C)
    BY <1>4, <1>5, <1>6
  <2> HIDE DEF w, C, z
  <2>1. (s \o w) \o z = s \o (w \o z)
    BY <2>0, ConcatAssociative
  <2> QED BY <1>4, <1>6, <2>1 DEF z
<1>8. \/ part.is = "char" /\ part.c \in Ordinary /\ w = <<part.c>>
      \/ /\ part.is = "escaped" /\ params.esc # NUL /\ part.c \in LineTexts(params)
         /\ w = <<params.esc, part.c>>
  BY <1>2, InFileIs
<1>9. c \in Seq(T) /\ Lined(c \o s, M[k].text, params)
  BY DEF Scanned
<1>10. M[k].done = M[i].done /\ M[k].lines = M[i].lines
  BY DEF Scanned
<1>11. \A v \in Seq(T) : c \o (s \o v) = (c \o s) \o v
  <2> SUFFICES ASSUME NEW v \in Seq(T) PROVE c \o (s \o v) = (c \o s) \o v
    OBVIOUS
  <2> HIDE DEF c, T
  <2> QED BY <1>6, <1>9, ConcatAssociative
<1> HIDE DEF c, n, j, w
<1>12. CASE part.is = "char" /\ part.c \in Ordinary /\ w = <<part.c>>
  <2>1. Clean(t, params)
    BY <1>6, <1>12, CleanChar
  <2>2. M[j] = [done |-> M[k].done, text |-> M[k].text \o <<part.c>>, lines |-> M[k].lines]
    BY <1>2, <1>3, <1>12, MeanIs
  <2>3. Lined((c \o s) \o w, M[j].text, params)
    BY <1>9, <1>12, <2>2, LinedChar
  <2>4. w \in Seq(T)
    BY <1>12, CharsFit DEF LineTexts
  <2>5. Lined(c \o t, M[j].text, params)
    BY <1>11, <2>3, <2>4
  <2> HIDE DEF t, part
  <2>6. Scanned(b, i, j, t, B, M)
    BY <1>7, <1>10, <2>1, <2>2, <2>5 DEF Scanned, c
  <2> QED BY <2>6 DEF j
<1>13. CASE /\ part.is = "escaped" /\ params.esc # NUL /\ part.c \in LineTexts(params)
            /\ w = <<params.esc, part.c>>
  <2>1. Clean(t, params)
    BY <1>6, <1>13, CleanEscaped
  <2>2. M[j] = [done |-> M[k].done, lines |-> M[k].lines,
                text |-> M[k].text \o (IF skipesc(part.c, params) THEN <<part.c>> ELSE <<params.esc, part.c>>)]
    BY <1>2, <1>3, <1>13, MeanIs
  <2>3. part.c \in T /\ params.esc \in T
    BY <1>13 DEF LineTexts
  <2>4. Lined((c \o s) \o w, M[j].text, params)
    <3> DEFINE q == c \o s
               x == M[k].text
               v == IF skipesc(part.c, params) THEN <<part.c>> ELSE <<params.esc, part.c>>
    <3>0. M[j] = [done |-> M[k].done, lines |-> M[k].lines, text |-> x \o v]
      BY <2>2
    <3>1. M[j].text = x \o v
      <4> HIDE DEF x, v
      <4> QED BY <3>0
    <3>2. Lined(q, x, params)
      BY <1>9
    <3> HIDE DEF q, x
    <3>3. Lined(q \o <<params.esc, part.c>>, x \o v, params)
      BY <1>13, <2>3, <3>2, LinedEscaped
    <3> HIDE DEF v
    <3> QED BY <1>13, <3>1, <3>3 DEF q
  <2>5. w \in Seq(T)
    BY <1>13, <2>3
  <2>6. Lined(c \o t, M[j].text, params)
    BY <1>11, <2>4, <2>5
  <2> HIDE DEF t, part
  <2>7. Scanned(b, i, j, t, B, M)
    BY <1>7, <1>10, <2>1, <2>2, <2>6 DEF Scanned, c
  <2> QED BY <2>7 DEF j
<1> QED BY <1>8, <1>12, <1>13

LEMMA LineScanned ==
  ASSUME params \in Params, written \in Seq(PartsFor(params)), NEW B, FileOf(B), NEW M, MeanOf(M),
         NEW i \in 0..Len(written), NEW b, Pending(b, M[i].text, params)
  PROVE  \E k \in i..Len(written) :
           (\E s : Scanned(b, i, k, s, B, M)) /\ (k = Len(written) \/ written[k + 1].is \in Breaks)
<1> DEFINE n == Len(written)
           Ends(k) == k = n \/ written[k + 1].is \in Breaks
           P == {d \in Nat : \E k \in i..n : (\E s : Scanned(b, i, k, s, B, M)) /\ (Ends(k) \/ k = i + d)}
<1>0. n \in Nat /\ i \in 0..n
  BY LenProperties
<1>1. Lined(Base(b), M[i].text, params) /\ Base(b) \in Seq(LineTexts(params))
  BY PendingBase DEF Lined
<1>2. Scanned(b, i, i, <<>>, B, M)
  <2>1. B[i] \in Seq(LineChars(params))
    BY DEF FileOf, FileFor
  <2>2. <<>> \o B[i] = B[i] /\ Base(b) \o <<>> = Base(b)
    BY <1>1, <2>1, ConcatEmptySeq
  <2> QED BY <1>1, <2>2, CleanEmpty DEF Scanned
<1> HIDE DEF n, Ends
<1>3. 0 \in P
  <2>1. i \in i..n /\ i = i + 0
    BY <1>0
  <2> QED BY <1>2, <2>1
<1>4. ASSUME NEW d \in Nat, d \in P PROVE d + 1 \in P
  <2>1. PICK k \in i..n : (\E s : Scanned(b, i, k, s, B, M)) /\ (Ends(k) \/ k = i + d)
    BY <1>4
  <2>2. CASE Ends(k)
    BY <2>1, <2>2
  <2>3. CASE ~Ends(k)
    <3>1. k # n /\ written[k + 1].is \notin Breaks /\ k = i + d
      BY <2>1, <2>3 DEF Ends
    <3>2. k \in 0..n - 1 /\ k + 1 \in i..n /\ k + 1 = i + (d + 1)
      BY <1>0, <3>1
    <3>3. \E t : Scanned(b, i, k + 1, t, B, M)
      BY <1>1, <2>1, <3>1, <3>2, ScannedMore DEF n
    <3> QED BY <3>2, <3>3
  <2> QED BY <2>2, <2>3
<1> HIDE DEF P
<1>5. n \in P
  BY <1>0, <1>3, <1>4, InductionOnSet, Zenon
<1>6. PICK k \in i..n : (\E s : Scanned(b, i, k, s, B, M)) /\ (Ends(k) \/ k = i + n)
  BY <1>5 DEF P
<1>7. Ends(k)
  BY <1>0, <1>6 DEF Ends
<1> QED BY <1>6, <1>7 DEF Ends, n

(* What a line makes of what was gathered: it goes on, it ends, or it is   *)
(* the last one of the file, which need not end.                           *)
Continued(r, i, j, M) ==
  /\ r.cnt = TRUE /\ Pending(r.buf, M[j].text, params)
  /\ M[j].done = M[i].done /\ M[j].lines = M[i].lines + 1
EndedAs(x, m) == [done |-> Append(m.done, [text |-> x, lineno |-> m.lines + 1]), text |-> <<>>, lines |-> m.lines + 1]
EndsLine(r, i, j, M) ==
  r.cnt = FALSE /\ \E x : Lined(r.buf, x, params) /\ M[j] = EndedAs(x, M[i])
Unended(r, i, j, M) ==
  /\ r.cnt = FALSE /\ Lined(r.buf, M[j].text, params) /\ M[j].text # <<>>
  /\ M[j].done = M[i].done /\ M[j].lines = M[i].lines

LineEnds(p) == {<<p.con, nl>>, <<p.com, nl>>, <<p.com, p.con, nl>>, <<nl>>}

FirstLine(s, w, b) ==
  /\ LineOf((s \o w) \o b) = s \o w /\ AfterLine((s \o w) \o b) = b
  /\ Len(b) < Len((s \o w) \o b) /\ Len(b) \in Nat /\ Len((s \o w) \o b) \in Nat
  /\ s \o (w \o b) = (s \o w) \o b

LEMMA BreakLine ==
  ASSUME NEW p \in Params, NEW s, Clean(s, p), NEW w \in LineEnds(p), NEW b \in Seq(LineChars(p))
  PROVE  FirstLine(s, w, b)
<1> DEFINE C == LineChars(p)
           t == s \o w
           m == Len(w)
           n == Len(s)
<1>1. /\ w \in Seq(C) /\ m \in Nat /\ m >= 1 /\ w[m] = nl /\ \A i \in 1..m - 1 : w[i] # nl
  <2>1. nl \in C /\ p.con \in C /\ p.com \in C /\ p.con # nl /\ p.com # nl
    BY CharsFit DEF LineChars
  <2> HIDE DEF C
  <2>2. CASE w = <<p.con, nl>>
    BY <2>1, <2>2
  <2>3. CASE w = <<p.com, p.con, nl>>
    BY <2>1, <2>3
  <2>4. CASE w = <<nl>>
    BY <2>1, <2>4
  <2>5. CASE w = <<p.com, nl>>
    BY <2>1, <2>5
  <2> QED BY <2>2, <2>3, <2>4, <2>5 DEF LineEnds
<1>2. /\ s \in Seq(C) /\ t \in Seq(C) /\ n \in Nat /\ Len(t) = n + m
      /\ \A i \in 1..n : t[i] = s[i]
      /\ \A i \in 1..m : t[n + i] = w[i]
  BY <1>1, LineJoined
<1>3. \A i \in 1..n : s[i] # nl
  <2>1. s \in Seq(LineTexts(p))
    BY DEF Clean
  <2>2. \A i \in 1..n : s[i] \in LineTexts(p)
    BY <2>1, ElementOfSeq
  <2> QED BY <2>2, CharsFit
<1> HIDE DEF C, t, m, n
<1>4. t[Len(t)] = nl /\ \A i \in 1..Len(t) - 1 : t[i] # nl
  <2>1. m \in 1..m
    BY <1>1
  <2>2. t[n + m] = w[m]
    BY <1>2, <2>1
  <2>3. ASSUME NEW i \in 1..Len(t) - 1 PROVE t[i] # nl
    <3>1. CASE i <= n
      <4>1. i \in 1..n
        BY <1>2, <3>1
      <4> QED BY <1>2, <1>3, <4>1
    <3>2. CASE i > n
      <4> DEFINE k == i - n
      <4>1. k \in 1..m /\ k \in 1..m - 1 /\ n + k = i
        BY <1>1, <1>2, <3>2
      <4> HIDE DEF k
      <4>2. t[n + k] = w[k] /\ w[k] # nl
        BY <1>1, <1>2, <4>1
      <4> QED BY <4>1, <4>2
    <3> QED BY <1>2, <3>1, <3>2
  <2> QED BY <1>1, <1>2, <2>2, <2>3
<1>5. t # <<>>
  BY <1>1, <1>2, EmptySeq
<1>6. b \in Seq(C)
  BY DEF C
<1>7. LineOf(t \o b) = t /\ AfterLine(t \o b) = b
  BY <1>2, <1>4, <1>5, <1>6, LineRead
<1>8. Len(t \o b) = Len(t) + Len(b) /\ Len(b) \in Nat
  BY <1>2, <1>6, ConcatProperties, LenProperties
<1>9. Len(b) < Len(t \o b) /\ Len(t \o b) \in Nat
  BY <1>1, <1>2, <1>8
<1>10. s \o (w \o b) = t \o b
  <2>1. w \in Seq(C) /\ s \in Seq(C) /\ b \in Seq(C)
    BY <1>1, <1>2, <1>6
  <2>2. s \o (w \o b) = (s \o w) \o b
    BY <2>1, ConcatAssociative
  <2> QED BY <2>2 DEF t
<1> QED BY <1>7, <1>8, <1>9, <1>10 DEF t, FirstLine

LEMMA LastLine ==
  ASSUME NEW p \in Params, NEW s, Clean(s, p), s # <<>>
  PROVE  LineOf(s) = s /\ AfterLine(s) = <<>> /\ Len(<<>>) < Len(s) /\ Len(<<>>) = 0 /\ Len(s) \in Nat
<1> DEFINE T == LineTexts(p)
<1>1. s \in Seq(T)
  BY DEF Clean
<1>2. \A i \in 1..Len(s) : s[i] # nl
  <2>1. \A i \in 1..Len(s) : s[i] \in T
    BY <1>1, ElementOfSeq
  <2> QED BY <2>1, CharsFit
<1> HIDE DEF T
<1>3. <<>> \in Seq(T) /\ Len(<<>>) = 0 /\ s \o <<>> = s
  BY <1>1, EmptySeq, ConcatEmptySeq
<1>4. LineOf(s \o <<>>) = s /\ AfterLine(s \o <<>>) = <<>>
  BY <1>1, <1>2, <1>3, LineRead
<1>5. Len(s) \in Nat /\ Len(s) # 0
  BY <1>1, EmptySeq, LenProperties
<1> QED BY <1>3, <1>4, <1>5

(* One more line of a file that has more.                                  *)
LEMMA RoundLine ==
  ASSUME params \in Params, written \in Seq(PartsFor(params)), NEW B, FileOf(B), NEW M, MeanOf(M),
         NEW i \in 0..Len(written), NEW b, Pending(b, M[i].text, params), B[i] # <<>>
  PROVE  \E j \in i..Len(written) :
           /\ AfterLine(B[i]) = B[j] /\ Len(B[j]) \in Nat /\ Len(B[i]) \in Nat /\ Len(B[j]) < Len(B[i])
           /\ \/ Continued(AddLine(b, LineOf(B[i]), params), i, j, M)
              \/ EndsLine(AddLine(b, LineOf(B[i]), params), i, j, M)
              \/ j = Len(written) /\ Unended(AddLine(b, LineOf(B[i]), params), i, j, M)
<1> DEFINE n == Len(written)
           r == AddLine(b, LineOf(B[i]), params)
<1>0. n \in Nat
  BY LenProperties
<1>1. PICK k \in i..n : (\E s : Scanned(b, i, k, s, B, M)) /\ (k = n \/ written[k + 1].is \in Breaks)
  BY LineScanned
<1> PICK s : Scanned(b, i, k, s, B, M)
  BY <1>1
<1>2. /\ Clean(s, params) /\ s \in Seq(LineTexts(params)) /\ B[i] = s \o B[k]
      /\ M[k].done = M[i].done /\ M[k].lines = M[i].lines
      /\ Lined(Base(b) \o s, M[k].text, params)
  BY <1>1 DEF Scanned, Clean
<1>3. /\ Pending(Adds(b, s), M[k].text, params)
      /\ s = <<>> /\ b = NoBuf <=> M[k].text = <<>>
      /\ (s = <<>> /\ b = NoBuf) \/ Adds(b, s) = Base(b) \o s
  BY <1>2, AddsIs
<1>4. CASE k = n
  <2>1. B[k] = <<>>
    BY <1>4 DEF FileOf, FileFor
  <2>2. B[i] = s
    BY <1>2, <2>1, ConcatEmptySeq
  <2>3. LineOf(B[i]) = s /\ AfterLine(B[i]) = B[k] /\ Len(B[k]) \in Nat /\ Len(B[i]) \in Nat /\ Len(B[k]) < Len(B[i])
    BY <1>2, <2>1, <2>2, LastLine
  <2>4. r = [cnt |-> FALSE, buf |-> Adds(b, s)]
    <3>1. s # <<>>
      BY <2>2
    <3>2. AddLine(b, s, params) = [cnt |-> FALSE, buf |-> Adds(b, s)]
      BY <1>2, <3>1, AddLineIs
    <3> QED BY <2>3, <3>2, Zenon
  <2> HIDE DEF r
  <2>5. r.cnt = FALSE /\ r.buf = Base(b) \o s /\ M[k].text # <<>>
    BY <1>3, <2>2, <2>4
  <2>6. Unended(r, i, k, M)
    BY <1>2, <2>5 DEF Unended
  <2> QED BY <1>4, <2>3, <2>6 DEF r
<1>5. CASE k # n
  <2> DEFINE j == k + 1
             part == written[j]
             w == InFile(part, params)
  <2>1. k \in 0..n - 1 /\ j \in i..n /\ j \in 1..n /\ j - 1 = k /\ part.is \in Breaks
    BY <1>0, <1>1, <1>5
  <2>2. part \in PartsFor(params)
    BY <2>1, ElementOfSeq
  <2>3. M[j] = Mean(M[k], part, params) /\ M[k] \in Meanings
    <3>1. M[j] = Mean(M[j - 1], part, params)
      BY <2>1 DEF MeanOf, MeanFor
    <3>2. k \in 0..n
      BY <1>0, <2>1
    <3> QED BY <2>1, <3>1, <3>2, MeaningsTyped
  <2>4. B[k] = w \o B[j] /\ B[j] \in Seq(LineChars(params))
    <3>1. B[k] = InFile(written[k + 1], params) \o B[k + 1]
      BY <2>1 DEF FileOf, FileFor
    <3>2. j \in 0..n
      BY <1>0, <2>1
    <3>3. B[j] \in Seq(LineChars(params))
      BY <3>2 DEF FileOf, FileFor
    <3> QED BY <3>1, <3>3
  <2> DEFINE z == B[j]
             m == M[k]
  <2>5. /\ part.is = "goeson" => params.con # NUL /\ w = <<params.con, nl>>
        /\ part.is = "comment" => params.com # NUL /\ w \in {<<params.com, nl>>, <<params.com, params.con, nl>>}
        /\ part.is = "end" => w = <<nl>>
    BY <2>2, InFileIs
  <2>6. /\ part.is = "goeson" \/ (part.is = "comment" /\ m.text = <<>>) =>
             M[j] = [done |-> m.done, text |-> m.text, lines |-> m.lines + 1]
        /\ part.is = "end" \/ (part.is = "comment" /\ m.text # <<>>) => M[j] = Over(m)
    BY <2>2, <2>3, MeanIs
  <2> HIDE DEF w
  <2>7. w \in LineEnds(params)
    BY <2>1, <2>5 DEF Breaks, LineEnds
  <2>8. B[i] = (s \o w) \o z /\ LineOf(B[i]) = s \o w /\ AfterLine(B[i]) = z /\ Len(z) \in Nat /\ Len(B[i]) \in Nat /\ Len(z) < Len(B[i])
    <3>1. z \in Seq(LineChars(params)) /\ B[i] = s \o (w \o z)
      BY <1>2, <2>4
    <3> HIDE DEF z
    <3>2. FirstLine(s, w, z)
      <4>1. Clean(s, params) /\ z \in Seq(LineChars(params))
        BY <1>2, <3>1
      <4> QED BY <2>7, <4>1, BreakLine
    <3> QED BY <3>1, <3>2 DEF FirstLine
  <2>11. /\ params.con # NUL => AddLine(b, s \o <<params.con, nl>>, params) = [cnt |-> TRUE, buf |-> Adds(b, s)]
         /\ part.is = "comment" => AddLine(b, s \o w, params) = [cnt |-> s = <<>> /\ b = NoBuf, buf |-> Adds(b, s)]
         /\ AddLine(b, s \o <<nl>>, params) =
              [cnt |-> FALSE, buf |-> IF s = <<>> /\ b = NoBuf THEN <<>> ELSE Adds(b, s)]
    <3> DEFINE C == LineChars(params)
    <3>1. /\ params.con # NUL => AddLine(b, s \o <<params.con, nl>>, params) = [cnt |-> TRUE, buf |-> Adds(b, s)]
          /\ params.com # NUL =>
               \A v \in Seq(C) : v # <<>> /\ v[1] = params.com =>
                 AddLine(b, s \o v, params) = [cnt |-> s = <<>> /\ b = NoBuf, buf |-> Adds(b, s)]
          /\ AddLine(b, s \o <<nl>>, params) =
               [cnt |-> FALSE, buf |-> IF s = <<>> /\ b = NoBuf THEN <<>> ELSE Adds(b, s)]
      BY <1>2, AddLineIs
    <3>2. ASSUME part.is = "comment" PROVE params.com # NUL /\ w \in Seq(C) /\ w # <<>> /\ w[1] = params.com
      <4>1. params.com # NUL /\ w \in {<<params.com, nl>>, <<params.com, params.con, nl>>} /\ w \in Seq(C)
        BY <2>2, <2>5, <3>2, InFileIs DEF w
      <4> HIDE DEF C
      <4>2. <<params.com, nl>>[1] = params.com /\ <<params.com, params.con, nl>>[1] = params.com
            /\ <<params.com, nl>> # <<>> /\ <<params.com, params.con, nl>> # <<>>
        OBVIOUS
      <4> QED BY <4>1, <4>2
    <3> HIDE DEF C
    <3> QED BY <3>1, <3>2, Zenon
  <2>9. Over(m) = EndedAs(m.text, M[i])
    BY <1>2 DEF Over, EndedAs
  <2>10. Continued(r, i, j, M) \/ EndsLine(r, i, j, M)
    <3>1. CASE part.is = "goeson"
      <4>1. r = [cnt |-> TRUE, buf |-> Adds(b, s)]
        BY <2>5, <2>8, <2>11, <3>1, Zenon
      <4>2. M[j].text = m.text /\ M[j].done = m.done /\ M[j].lines = m.lines + 1
        BY <2>6, <3>1
      <4> HIDE DEF r, part, j
      <4> QED BY <1>2, <1>3, <4>1, <4>2 DEF Continued
    <3>2. CASE part.is = "comment" /\ m.text = <<>>
      <4>1. r = [cnt |-> s = <<>> /\ b = NoBuf, buf |-> Adds(b, s)]
        BY <2>5, <2>8, <2>11, <3>2, Zenon
      <4>2. M[j].text = m.text /\ M[j].done = m.done /\ M[j].lines = m.lines + 1
        BY <2>6, <3>2
      <4>3. (s = <<>> /\ b = NoBuf) = TRUE
        BY <1>3, <3>2
      <4> HIDE DEF r, part, j
      <4>4. r.cnt = TRUE /\ r.buf = Adds(b, s)
        BY <4>1, <4>3
      <4> QED BY <1>2, <1>3, <4>2, <4>4 DEF Continued
    <3>3. CASE part.is = "comment" /\ m.text # <<>>
      <4>1. r = [cnt |-> s = <<>> /\ b = NoBuf, buf |-> Adds(b, s)]
        BY <2>5, <2>8, <2>11, <3>3, Zenon
      <4>2. M[j] = EndedAs(m.text, M[i])
        BY <2>6, <2>9, <3>3
      <4>3. (s = <<>> /\ b = NoBuf) = FALSE /\ Adds(b, s) = Base(b) \o s
        BY <1>3, <3>3
      <4> HIDE DEF r, part, j
      <4>4. r.cnt = FALSE /\ r.buf = Base(b) \o s
        BY <4>1, <4>3
      <4> QED BY <1>2, <4>2, <4>4 DEF EndsLine
    <3>4. CASE part.is = "end"
      <4>1. r = [cnt |-> FALSE, buf |-> IF s = <<>> /\ b = NoBuf THEN <<>> ELSE Adds(b, s)]
        BY <2>5, <2>8, <2>11, <3>4, Zenon
      <4>2. M[j] = EndedAs(m.text, M[i])
        BY <2>6, <2>9, <3>4
      <4> HIDE DEF r, part, j
      <4>3. CASE s = <<>> /\ b = NoBuf
        <5>1. r.cnt = FALSE /\ r.buf = <<>> /\ m.text = <<>>
          BY <1>3, <4>1, <4>3
        <5>2. Lined(<<>>, <<>>, params)
          BY LinedEmpty
        <5> HIDE DEF m
        <5> QED BY <4>2, <5>1, <5>2 DEF EndsLine
      <4>4. CASE ~(s = <<>> /\ b = NoBuf)
        <5>1. r.cnt = FALSE /\ r.buf = Base(b) \o s
          BY <1>3, <4>1, <4>4
        <5> QED BY <1>2, <4>2, <5>1 DEF EndsLine
      <4> QED BY <4>3, <4>4
    <3> QED BY <2>1, <3>1, <3>2, <3>3, <3>4 DEF Breaks
  <2> HIDE DEF r, j, part
  <2> QED BY <2>1, <2>8, <2>10 DEF r
<1> QED BY <1>4, <1>5

LEMMA AfterNone == AfterLine(<<>>) = <<>>
<1>1. <<>> \in Seq({}) /\ Len(<<>>) = 0
  BY EmptySeq
<1>2. LineLen(<<>>) = 0
  <2> DEFINE ends == {i \in DOMAIN <<>> : <<>>[i] = nl} \cup {Len(<<>>)}
  <2>1. ends = {0}
    BY <1>1
  <2> HIDE DEF ends
  <2>2. Min(ends) = 0
    BY <2>1 DEF Min
  <2> QED BY <2>2 DEF LineLen, ends
<1> QED BY <1>1, <1>2 DEF AfterLine

LEMMA NoMore ==
  ASSUME params \in Params, written \in Seq(PartsFor(params)), NEW B, FileOf(B),
         NEW i \in 0..Len(written), B[i] = <<>>
  PROVE  i = Len(written)
<1> SUFFICES ASSUME i # Len(written) PROVE FALSE
  OBVIOUS
<1> DEFINE n == Len(written)
           w == InFile(written[i + 1], params)
           z == B[i + 1]
<1>1. n \in Nat /\ i + 1 \in 1..n /\ i + 1 \in 0..n /\ i \in 0..n - 1
  BY LenProperties
<1>2. written[i + 1] \in PartsFor(params)
  BY <1>1, ElementOfSeq
<1>3. w \in Seq(LineChars(params)) /\ w # <<>>
  BY <1>2, InFileIs
<1>4. z \in Seq(LineChars(params)) /\ w \o z = <<>>
  BY <1>1 DEF FileOf, FileFor
<1> HIDE DEF w, z
<1> QED BY <1>3, <1>4, ConcatEqualIffEmpty

(* While fparseln gathers: k lines have been taken since j.                *)
Gathering(g, j, k, B, M) ==
  \E i \in 0..Len(written) :
    /\ g.rest = B[i] /\ Pending(g.buf, M[i].text, params)
    /\ M[i].done = M[j].done /\ M[i].lines = M[j].lines + g.read /\ g.read \in Nat
    /\ Len(B[i]) \in Nat /\ Len(B[j]) \in Nat /\ Len(B[i]) + k <= Len(B[j])

(* When it has: a line, the last one, none, or a failure.                  *)
WholeLine(g, x, i, j, B, M) ==
  /\ g.rest = B[i] /\ Lined(g.buf, x, params)
  /\ M[i].done = Append(M[j].done, [text |-> x, lineno |-> M[j].lines + g.read])
  /\ M[i].text = <<>> /\ M[i].lines = M[j].lines + g.read
RestOfFile(g, m, j, M) ==
  /\ g.rest = <<>> /\ Lined(g.buf, m.text, params) /\ m.text # <<>>
  /\ m.done = M[j].done /\ m.lines + 1 = M[j].lines + g.read
NothingLeft(g, m, j, M) == g.buf = NoBuf /\ m.text = <<>> /\ m.done = M[j].done
Interrupted(g, i, j, M) == Lined(g.buf, M[i].text, params) /\ M[i].text # <<>> /\ M[i].done = M[j].done
Gathered(g, j, B, M, fault) ==
  \/ \E i \in 0..Len(written) : \E x : WholeLine(g, x, i, j, B, M)
  \/ RestOfFile(g, M[Len(written)], j, M)
  \/ NothingLeft(g, M[Len(written)], j, M)
  \/ fault # NoFault /\ g.buf = NoBuf
  \/ fault # NoFault /\ \E i \in 0..Len(written) : Interrupted(g, i, j, M)

LEMMA RoundIs ==
  ASSUME NEW g, NEW p, NEW fault, NEW read, read = g.read + 1
  PROVE  /\ g.rest = <<>> \/ fault = [of |-> "getline", line |-> read] =>
              Round(g, p, fault) = [buf |-> g.buf, rest |-> AfterLine(g.rest), read |-> read, cnt |-> FALSE]
         /\ g.rest # <<>> /\ fault # [of |-> "getline", line |-> read] =>
              \/ /\ fault = [of |-> "realloc", line |-> read]
                 /\ Round(g, p, fault) = [buf |-> NoBuf, rest |-> AfterLine(g.rest), read |-> read, cnt |-> FALSE]
              \/ Round(g, p, fault) = [buf |-> AddLine(g.buf, LineOf(g.rest), p).buf, rest |-> AfterLine(g.rest),
                                       read |-> read, cnt |-> TRUE /\ AddLine(g.buf, LineOf(g.rest), p).cnt]
<1> DEFINE r == AddLine(g.buf, LineOf(g.rest), p)
           gone == r.buf # g.buf /\ fault = [of |-> "realloc", line |-> read]
           no == g.rest = <<>> \/ fault = [of |-> "getline", line |-> read]
<1>1. Round(g, p, fault) =
        IF no
        THEN [buf |-> g.buf, rest |-> AfterLine(g.rest), read |-> read, cnt |-> FALSE]
        ELSE [buf |-> IF gone THEN NoBuf ELSE r.buf, rest |-> AfterLine(g.rest), read |-> read,
              cnt |-> ~gone /\ r.cnt]
  BY Zenon DEF Round
<1>2. ASSUME no
      PROVE  Round(g, p, fault) = [buf |-> g.buf, rest |-> AfterLine(g.rest), read |-> read, cnt |-> FALSE]
  BY <1>1, <1>2, Zenon
<1>3. ASSUME ~no, gone
      PROVE  Round(g, p, fault) = [buf |-> NoBuf, rest |-> AfterLine(g.rest), read |-> read, cnt |-> FALSE]
  <2> HIDE DEF no, r
  <2>1. (~gone /\ r.cnt) = FALSE
    BY <1>3
  <2> QED BY <1>1, <1>3, <2>1, Zenon
<1>4. ASSUME ~no, ~gone
      PROVE  Round(g, p, fault) = [buf |-> r.buf, rest |-> AfterLine(g.rest), read |-> read, cnt |-> TRUE /\ r.cnt]
  <2> HIDE DEF no, r
  <2>1. ~gone = TRUE
    BY <1>4
  <2> QED BY <1>1, <1>4, <2>1, Zenon
<1> HIDE DEF gone, r
<1> QED BY <1>2, <1>3, <1>4, Zenon DEF gone, r

LEMMA OneRound ==
  ASSUME params \in Params, written \in Seq(PartsFor(params)), NEW B, FileOf(B), NEW M, MeanOf(M),
         NEW fault \in Faults \cup {NoFault}, NEW j \in 0..Len(written), NEW k \in Nat, NEW g, Gathering(g, j, k, B, M)
  PROVE  \/ Round(g, params, fault).cnt = TRUE /\ Gathering(Round(g, params, fault), j, k + 1, B, M)
         \/ Round(g, params, fault).cnt = FALSE /\ Gathered(Round(g, params, fault), j, B, M, fault)
<1> DEFINE n == Len(written)
           h == Round(g, params, fault)
           read == g.read + 1
           r == AddLine(g.buf, LineOf(g.rest), params)
<1>0. n \in Nat
  BY LenProperties
<1>1. PICK i \in 0..n :
    /\ g.rest = B[i] /\ Pending(g.buf, M[i].text, params)
    /\ M[i].done = M[j].done /\ M[i].lines = M[j].lines + g.read /\ g.read \in Nat
    /\ Len(B[i]) \in Nat /\ Len(B[j]) \in Nat /\ Len(B[i]) + k <= Len(B[j])
  BY DEF Gathering
<1>2. M[i] \in Meanings /\ M[j] \in Meanings
  BY MeaningsTyped
<1>3. M[i].lines \in Nat /\ M[j].lines \in Nat
  BY <1>2 DEF Meanings
<1>4. fault = [of |-> "getline", line |-> read] \/ fault = [of |-> "realloc", line |-> read] => fault # NoFault
  BY DEF NoFault
<1>8. M[i].lines + 1 = M[j].lines + read
  <2> DEFINE a == M[i].lines
             c == M[j].lines
             d == g.read
  <2>1. a \in Nat /\ c \in Nat /\ d \in Nat /\ a = c + d
    BY <1>1, <1>3
  <2> HIDE DEF a, c, d
  <2>2. a + 1 = c + (d + 1)
    BY <2>1
  <2> QED BY <2>2 DEF a, c, d
<1>5. CASE g.rest = <<>>
  <2>1. h = [buf |-> g.buf, rest |-> AfterLine(g.rest), read |-> read, cnt |-> FALSE]
    BY <1>5, RoundIs, Zenon
  <2>2. i = n /\ AfterLine(g.rest) = <<>>
    BY <1>1, <1>5, AfterNone, NoMore
  <2> HIDE DEF h
  <2>3. h.buf = g.buf /\ h.rest = <<>> /\ h.read = read /\ h.cnt = FALSE
    BY <2>1, <2>2
  <2>4. CASE g.buf = NoBuf /\ M[i].text = <<>>
    <3>1. NothingLeft(h, M[n], j, M)
      BY <1>1, <2>2, <2>3, <2>4 DEF NothingLeft
    <3> QED BY <2>3, <3>1 DEF Gathered, h
  <2>5. CASE g.buf # <<>> /\ Lined(g.buf, M[i].text, params)
    <3>1. M[i].text # <<>>
      BY <2>5 DEF Lined
    <3>2. RestOfFile(h, M[n], j, M)
      <4>1. M[i].lines + 1 = M[j].lines + read
        BY <1>8
      <4>2. M[n].done = M[j].done /\ Lined(h.buf, M[n].text, params) /\ M[n].text # <<>>
        BY <1>1, <2>2, <2>3, <2>5, <3>1
      <4>3. M[n].lines + 1 = M[j].lines + h.read
        BY <2>2, <2>3, <4>1, Zenon
      <4> QED BY <2>3, <4>2, <4>3 DEF RestOfFile
    <3> QED BY <2>3, <3>2 DEF Gathered, h
  <2> QED BY <1>1, <2>4, <2>5 DEF Pending
<1>6. CASE fault = [of |-> "getline", line |-> read]
  <2>1. h = [buf |-> g.buf, rest |-> AfterLine(g.rest), read |-> read, cnt |-> FALSE]
    BY <1>6, RoundIs, Zenon
  <2> HIDE DEF h
  <2>2. h.buf = g.buf /\ h.cnt = FALSE /\ fault # NoFault
    BY <1>4, <1>6, <2>1
  <2>4. CASE g.buf = NoBuf
    BY <2>2, <2>4 DEF Gathered, h
  <2>5. CASE g.buf # <<>> /\ Lined(g.buf, M[i].text, params)
    <3>1. M[i].text # <<>>
      BY <2>5 DEF Lined
    <3>2. Interrupted(h, i, j, M)
      BY <1>1, <2>2, <2>5, <3>1 DEF Interrupted
    <3> QED BY <2>2, <3>2 DEF Gathered, h
  <2> QED BY <1>1, <2>4, <2>5 DEF Pending
<1>7. CASE g.rest # <<>> /\ fault # [of |-> "getline", line |-> read]
  <2>1. \/ /\ fault = [of |-> "realloc", line |-> read]
           /\ h = [buf |-> NoBuf, rest |-> AfterLine(g.rest), read |-> read, cnt |-> FALSE]
        \/ h = [buf |-> r.buf, rest |-> AfterLine(g.rest), read |-> read, cnt |-> TRUE /\ r.cnt]
    BY <1>7, RoundIs, Zenon
  <2>2. CASE /\ fault = [of |-> "realloc", line |-> read]
             /\ h = [buf |-> NoBuf, rest |-> AfterLine(g.rest), read |-> read, cnt |-> FALSE]
    <3> HIDE DEF h
    <3>1. h.buf = NoBuf /\ h.cnt = FALSE /\ fault # NoFault
      BY <1>4, <2>2
    <3> QED BY <3>1 DEF Gathered, h
  <2>3. CASE h = [buf |-> r.buf, rest |-> AfterLine(g.rest), read |-> read, cnt |-> TRUE /\ r.cnt]
    <3>1. PICK l \in i..n :
           /\ AfterLine(B[i]) = B[l] /\ Len(B[l]) \in Nat /\ Len(B[i]) \in Nat /\ Len(B[l]) < Len(B[i])
           /\ \/ Continued(r, i, l, M)
              \/ EndsLine(r, i, l, M)
              \/ l = n /\ Unended(r, i, l, M)
      BY <1>1, <1>7, RoundLine
    <3>2. l \in 0..n
      BY <1>0
    <3> HIDE DEF h, r, n
    <3>3. h.buf = r.buf /\ h.rest = B[l] /\ h.read = read
      BY <1>1, <2>3, <3>1
    <3>4. r.cnt = TRUE => h.cnt = TRUE
      BY <2>3
    <3>5. r.cnt = FALSE => h.cnt = FALSE
      BY <2>3
    <3>6. CASE Continued(r, i, l, M)
      <4>1. /\ r.cnt = TRUE /\ Pending(r.buf, M[l].text, params)
            /\ M[l].done = M[i].done /\ M[l].lines = M[i].lines + 1
        BY <3>6 DEF Continued
      <4>2. M[l].lines = M[j].lines + read /\ read \in Nat
        BY <1>1, <1>3, <4>1
      <4>3. Len(B[l]) + (k + 1) <= Len(B[j])
        <5> DEFINE a == Len(B[l])
                   c == Len(B[i])
                   d == Len(B[j])
        <5>1. a \in Nat /\ c \in Nat /\ d \in Nat /\ a < c /\ c + k <= d
          BY <1>1, <3>1
        <5> HIDE DEF a, c, d
        <5>2. a + (k + 1) <= d
          BY <5>1
        <5> QED BY <5>2 DEF a, d
      <4>4. Gathering(h, j, k + 1, B, M)
        BY <1>1, <3>1, <3>2, <3>3, <4>1, <4>2, <4>3 DEF Gathering, n
      <4> QED BY <3>4, <4>1, <4>4 DEF h
    <3>7. CASE EndsLine(r, i, l, M)
      <4>1. PICK x : Lined(r.buf, x, params) /\ M[l] = EndedAs(x, M[i]) /\ r.cnt = FALSE
        BY <3>7 DEF EndsLine
      <4>2. M[i].lines + 1 = M[j].lines + read
        BY <1>8
      <4>3. /\ M[l].done = Append(M[j].done, [text |-> x, lineno |-> M[j].lines + read])
            /\ M[l].text = <<>> /\ M[l].lines = M[j].lines + read
        BY <1>1, <4>1, <4>2 DEF EndedAs
      <4>4. WholeLine(h, x, l, j, B, M)
        BY <3>3, <4>1, <4>3 DEF WholeLine
      <4> QED BY <3>2, <3>5, <4>1, <4>4 DEF Gathered, h, n
    <3>8. CASE l = n /\ Unended(r, i, l, M)
      <4>1. /\ r.cnt = FALSE /\ Lined(r.buf, M[l].text, params) /\ M[l].text # <<>>
            /\ M[l].done = M[i].done /\ M[l].lines = M[i].lines
        BY <3>8 DEF Unended
      <4>2. B[l] = <<>>
        BY <3>8 DEF FileOf, FileFor, n
      <4>3. M[l].lines + 1 = M[j].lines + read
        BY <1>1, <1>3, <4>1
      <4>4. RestOfFile(h, M[l], j, M)
        BY <1>1, <3>3, <4>1, <4>2, <4>3 DEF RestOfFile
      <4> QED BY <3>5, <3>8, <4>1, <4>4 DEF Gathered, h, n
    <3> QED BY <3>1, <3>6, <3>7, <3>8
  <2> QED BY <2>1, <2>2, <2>3
<1> QED BY <1>5, <1>6, <1>7

LEMMA GatherEnds ==
  ASSUME params \in Params, written \in Seq(PartsFor(params)), NEW B, FileOf(B), NEW M, MeanOf(M),
         NEW fault \in Faults \cup {NoFault}, NEW j \in 0..Len(written), M[j].text = <<>>
  PROVE  Gathered(Gather(B[j], params, fault), j, B, M, fault)
<1> DEFINE n == Len(written)
           file == B[j]
           m == Len(file) + 1
           Runs(g, k) == \/ g.cnt = TRUE /\ Gathering(g, j, k, B, M)
                         \/ g.cnt = FALSE /\ Gathered(g, j, B, M, fault)
<1>1. file \in Seq(LineChars(params)) /\ Len(file) \in Nat /\ m \in Nat
  <2>1. file \in Seq(LineChars(params))
    BY DEF FileOf, FileFor
  <2> HIDE DEF file
  <2> QED BY <2>1, LenProperties
<1>2. PICK f : GatherBy(f, file, params, fault) /\ Gather(file, params, fault) = f[m]
  BY <1>1, GatherIs
<1>3. f[0] = GatherStart(file) /\ \A k \in 1..m : f[k] = NextRound(f[k - 1], params, fault)
  BY <1>2 DEF GatherBy
<1> DEFINE P == {k \in Nat : k <= m => Runs(f[k], k)}
<1> HIDE DEF Runs
<1>4. 0 \in P
  <2> DEFINE g == f[0]
  <2>1. g = [buf |-> NoBuf, rest |-> file, read |-> 0, cnt |-> TRUE]
    BY <1>3 DEF GatherStart
  <2>2. M[j].lines \in Nat
    BY MeaningsTyped DEF Meanings
  <2> HIDE DEF g
  <2>3. g.buf = NoBuf /\ g.rest = B[j] /\ g.read = 0 /\ g.cnt = TRUE
    BY <2>1
  <2>4. Pending(g.buf, M[j].text, params)
    BY <2>3 DEF Pending
  <2>5. M[j].lines = M[j].lines + g.read /\ g.read \in Nat
    BY <2>2, <2>3
  <2>6. Len(B[j]) \in Nat /\ Len(B[j]) + 0 <= Len(B[j])
    BY <1>1
  <2>7. Gathering(g, j, 0, B, M)
    BY <2>3, <2>4, <2>5, <2>6 DEF Gathering
  <2> QED BY <2>3, <2>7 DEF g, Runs
<1>5. ASSUME NEW k \in Nat, k \in P PROVE k + 1 \in P
  <2> SUFFICES ASSUME k + 1 <= m PROVE Runs(f[k + 1], k + 1)
    OBVIOUS
  <2> DEFINE l == k + 1
             g == f[k]
  <2>1. Runs(g, k)
    BY <1>1, <1>5
  <2>2. l \in 1..m /\ l - 1 = k
    BY <1>1
  <2> HIDE DEF l
  <2>3. f[l] = NextRound(g, params, fault)
    BY <1>3, <2>2
  <2> HIDE DEF g
  <2>4. CASE g.cnt = TRUE /\ Gathering(g, j, k, B, M)
    <3>1. f[l] = Round(g, params, fault)
      BY <2>3, <2>4 DEF NextRound
    <3>2. \/ Round(g, params, fault).cnt = TRUE /\ Gathering(Round(g, params, fault), j, k + 1, B, M)
          \/ Round(g, params, fault).cnt = FALSE /\ Gathered(Round(g, params, fault), j, B, M, fault)
      BY <2>4, OneRound
    <3>3. \/ f[l].cnt = TRUE /\ Gathering(f[l], j, k + 1, B, M)
          \/ f[l].cnt = FALSE /\ Gathered(f[l], j, B, M, fault)
      BY <3>1, <3>2, Zenon
    <3> QED BY <3>3 DEF l, Runs
  <2>5. CASE g.cnt = FALSE /\ Gathered(g, j, B, M, fault)
    <3>1. f[l] = g
      BY <2>3, <2>5 DEF NextRound
    <3>2. Runs(f[l], k + 1)
      BY <2>5, <3>1 DEF Runs
    <3> QED BY <3>2 DEF l
  <2> QED BY <2>1, <2>4, <2>5 DEF Runs
<1> HIDE DEF P
<1>6. m \in P
  BY <1>1, <1>4, <1>5, InductionOnSet, Zenon
<1>7. Runs(f[m], m)
  BY <1>1, <1>6 DEF P
<1>8. ~Gathering(f[m], j, m, B, M)
  <2> SUFFICES ASSUME Gathering(f[m], j, m, B, M) PROVE FALSE
    OBVIOUS
  <2>1. PICK i \in 0..n : Len(B[i]) \in Nat /\ Len(B[i]) + m <= Len(file)
    BY DEF Gathering
  <2> DEFINE a == Len(B[i])
             c == Len(file)
  <2>2. a \in Nat /\ c \in Nat /\ a + (c + 1) <= c
    BY <1>1, <2>1
  <2> HIDE DEF a, c
  <2> QED BY <2>2
<1>9. Gathered(f[m], j, B, M, fault)
  BY <1>7, <1>8 DEF Runs
<1> QED BY <1>2, <1>9, Zenon

LEMMA GatherNone ==
  ASSUME NEW p, NEW fault
  PROVE  Gather(<<>>, p, fault).buf = NoBuf /\ Gather(<<>>, p, fault).rest = <<>>
<1>1. Len(<<>>) = 0 /\ Len(<<>>) + 1 = 1
  BY EmptySeq
<1>2. PICK f : GatherBy(f, <<>>, p, fault) /\ Gather(<<>>, p, fault) = f[1]
  <2>1. Len(<<>>) \in Nat
    BY <1>1
  <2>2. \E f : GatherBy(f, <<>>, p, fault) /\ Gather(<<>>, p, fault) = f[Len(<<>>) + 1]
    BY <2>1, GatherIs
  <2> QED BY <1>1, <2>2, Zenon
<1>3. f[0] = GatherStart(<<>>) /\ f[1] = NextRound(f[0], p, fault)
  <2>1. 1 \in 1..Len(<<>>) + 1 /\ 1 - 1 = 0
    BY <1>1
  <2>2. f[1] = NextRound(f[1 - 1], p, fault)
    BY <1>2, <2>1, Zenon DEF GatherBy
  <2> QED BY <1>2, <2>1, <2>2 DEF GatherBy
<1> DEFINE g == f[0]
<1>4. g.buf = NoBuf /\ g.rest = <<>> /\ g.read = 0 /\ g.cnt = TRUE
  BY <1>3 DEF GatherStart
<1> HIDE DEF g
<1>5. f[1] = Round(g, p, fault)
  BY <1>3, <1>4 DEF NextRound, g
<1> DEFINE read == g.read + 1
<1> HIDE DEF read
<1>6. Round(g, p, fault) = [buf |-> g.buf, rest |-> AfterLine(g.rest), read |-> read, cnt |-> FALSE]
  BY <1>4, RoundIs, Zenon DEF read
<1> QED BY <1>2, <1>4, <1>5, <1>6, AfterNone

LEMMA FparselnIs ==
  ASSUME NEW file, NEW p, NEW fault
  PROVE  fparseln(file, p, fault) = [line |-> LineReturned(Gather(file, p, fault).buf, p),
                                     rest |-> Gather(file, p, fault).rest, read |-> Gather(file, p, fault).read]
BY Zenon DEF fparseln, LineReturned

(* What a call finds from the beginning of a line, j.                      *)
GivesLine(r, i, j, B, M) ==
  /\ r.line # NoBuf /\ r.rest = B[i]
  /\ M[i].done = Append(M[j].done, [text |-> r.line, lineno |-> M[j].lines + r.read])
  /\ M[i].text = <<>> /\ M[i].lines = M[j].lines + r.read
GivesRest(r, c, j, M) ==
  /\ r.line # NoBuf /\ r.rest = <<>>
  /\ c = Append(M[j].done, [text |-> r.line, lineno |-> M[j].lines + r.read])
GivesPart(r, i, j, M) ==
  r.line # NoBuf /\ r.line = M[i].text /\ M[i].text # <<>> /\ M[i].done = M[j].done
Gives(r, j, B, M, fault) ==
  \/ \E i \in 0..Len(written) : GivesLine(r, i, j, B, M)
  \/ GivesRest(r, Closing(M[Len(written)]), j, M)
  \/ r.line = NoBuf /\ Closing(M[Len(written)]) = M[j].done
  \/ r.line = NoBuf /\ fault # NoFault
  \/ fault # NoFault /\ \E i \in 0..Len(written) : GivesPart(r, i, j, M)

LEMMA FparselnGives ==
  ASSUME params \in Params, written \in Seq(PartsFor(params)), NEW B, FileOf(B), NEW M, MeanOf(M),
         NEW fault \in Faults \cup {NoFault}, NEW j \in 0..Len(written), M[j].text = <<>>
  PROVE  Gives(fparseln(B[j], params, fault), j, B, M, fault)
<1> DEFINE n == Len(written)
           g == Gather(B[j], params, fault)
           r == fparseln(B[j], params, fault)
<1>1. Gathered(g, j, B, M, fault)
  BY GatherEnds
<1>2. r = [line |-> LineReturned(g.buf, params), rest |-> g.rest, read |-> g.read]
  BY FparselnIs
<1> HIDE DEF g, r, n
<1>3. r.line = LineReturned(g.buf, params) /\ r.rest = g.rest /\ r.read = g.read
  BY <1>2
<1>4. \A x : Lined(g.buf, x, params) => r.line = x /\ r.line # NoBuf
  BY <1>3, LinedReturned
<1>5. g.buf = NoBuf => r.line = NoBuf
  BY <1>3 DEF LineReturned
<1>6. CASE \E i \in 0..n : \E x : WholeLine(g, x, i, j, B, M)
  <2>1. PICK i \in 0..n : \E x : WholeLine(g, x, i, j, B, M)
    BY <1>6
  <2>2. PICK x : WholeLine(g, x, i, j, B, M)
    BY <2>1
  <2>3. r.line = x /\ r.line # NoBuf
    BY <1>4, <2>2 DEF WholeLine
  <2>4. GivesLine(r, i, j, B, M)
    BY <1>3, <2>2, <2>3 DEF WholeLine, GivesLine
  <2> QED BY <2>4 DEF Gives, n, r
<1>7. CASE RestOfFile(g, M[n], j, M)
  <2> DEFINE m == M[n]
             c == Closing(m)
  <2>1. /\ g.rest = <<>> /\ Lined(g.buf, m.text, params) /\ m.text # <<>>
        /\ m.done = M[j].done /\ m.lines + 1 = M[j].lines + g.read
    BY <1>7 DEF RestOfFile
  <2> HIDE DEF m
  <2>2. r.line = m.text /\ r.line # NoBuf
    BY <1>4, <2>1
  <2>3. c = Append(m.done, [text |-> m.text, lineno |-> m.lines + 1])
    BY <2>1 DEF Closing
  <2>4. GivesRest(r, c, j, M)
    BY <1>3, <2>1, <2>2, <2>3 DEF GivesRest
  <2> QED BY <2>4 DEF Gives, n, r, m
<1>8. CASE NothingLeft(g, M[n], j, M)
  <2>1. r.line = NoBuf /\ Closing(M[n]) = M[j].done
    BY <1>5, <1>8 DEF NothingLeft, Closing
  <2> QED BY <2>1 DEF Gives, n, r
<1>9. CASE fault # NoFault /\ g.buf = NoBuf
  BY <1>5, <1>9 DEF Gives, r
<1>10. CASE fault # NoFault /\ \E i \in 0..n : Interrupted(g, i, j, M)
  <2>1. PICK i \in 0..n : Interrupted(g, i, j, M)
    BY <1>10
  <2>2. GivesPart(r, i, j, M)
    BY <1>4, <2>1 DEF Interrupted, GivesPart
  <2> QED BY <1>10, <2>2 DEF Gives, n, r
<1> QED BY <1>1, <1>6, <1>7, <1>8, <1>9, <1>10 DEF Gathered, n

(* What has been said of the lines will be said: m is a beginning of c.    *)
Promised(m, c) ==
  /\ IsPrefix(m.done, c)
  /\ m.text # <<>> => Len(m.done) + 1 <= Len(c) /\ IsPrefix(m.text, c[Len(m.done) + 1].text)

LEMMA PrefixAppend ==
  ASSUME NEW S, NEW s \in Seq(S), NEW x \in S, NEW c \in Seq(S)
  PROVE  /\ IsPrefix(s, Append(s, x))
         /\ IsPrefix(Append(s, x), c) =>
              IsPrefix(s, c) /\ Len(s) + 1 <= Len(c) /\ c[Len(s) + 1] = x
<1> DEFINE t == Append(s, x)
           n == Len(s)
<1>1. t \in Seq(S) /\ Len(t) = n + 1 /\ (\A i \in 1..n : t[i] = s[i]) /\ t[n + 1] = x /\ n \in Nat
  BY AppendProperties, LenProperties
<1> HIDE DEF t, n
<1>2. IsPrefix(s, t)
  BY <1>1, PrefixIs DEF n
<1>3. ASSUME IsPrefix(t, c)
      PROVE  IsPrefix(s, c) /\ n + 1 <= Len(c) /\ c[n + 1] = x
  <2>1. Len(t) <= Len(c) /\ \A i \in 1..Len(t) : t[i] = c[i]
    BY <1>1, <1>3, PrefixIs
  <2>2. Len(c) \in Nat
    BY LenProperties
  <2>3. n <= Len(c) /\ n + 1 <= Len(c) /\ n + 1 \in 1..Len(t) /\ \A i \in 1..n : i \in 1..Len(t)
    BY <1>1, <2>1, <2>2
  <2>4. \A i \in 1..n : s[i] = c[i]
    BY <1>1, <2>1, <2>3
  <2>5. IsPrefix(s, c)
    BY <2>3, <2>4, PrefixIs DEF n
  <2>6. c[n + 1] = x
    BY <1>1, <2>1, <2>3
  <2> QED BY <2>3, <2>5, <2>6
<1> QED BY <1>2, <1>3 DEF t, n

LEMMA PrefixLonger ==
  ASSUME NEW S, NEW s \in Seq(S), NEW w \in Seq(S), NEW c \in Seq(S), IsPrefix(s \o w, c)
  PROVE  IsPrefix(s, c)
<1> DEFINE t == s \o w
           n == Len(s)
<1>1. t \in Seq(S) /\ Len(t) = n + Len(w) /\ (\A i \in 1..n : t[i] = s[i]) /\ n \in Nat /\ Len(w) \in Nat /\ Len(c) \in Nat
  BY ConcatProperties, LenProperties
<1> HIDE DEF t, n
<1>2. Len(t) <= Len(c) /\ \A i \in 1..Len(t) : t[i] = c[i]
  BY <1>1, PrefixIs DEF t
<1>3. n <= Len(c) /\ \A i \in 1..n : i \in 1..Len(t)
  BY <1>1, <1>2
<1>4. \A i \in 1..n : s[i] = c[i]
  BY <1>1, <1>2, <1>3
<1> QED BY <1>3, <1>4, PrefixIs DEF n

LEMMA ClosingTyped ==
  ASSUME params \in Params, NEW m \in Meanings
  PROVE  Closing(m) \in Seq(LineRecs)
<1>1. m.done \in Seq(LineRecs) /\ [text |-> m.text, lineno |-> m.lines + 1] \in LineRecs
  BY DEF Meanings, LineRecs
<1> QED BY <1>1, AppendProperties DEF Closing

LEMMA PromisedAtEnd ==
  ASSUME params \in Params, NEW m \in Meanings
  PROVE  Promised(m, Closing(m))
<1> DEFINE rec == [text |-> m.text, lineno |-> m.lines + 1]
           d == m.done
<1>1. d \in Seq(LineRecs) /\ rec \in LineRecs /\ rec.text = m.text /\ m.text \in Seq(LineTexts(params))
  BY DEF Meanings, LineRecs
<1>2. IsPrefix(m.text, m.text)
  BY <1>1, PrefixSelf
<1> HIDE DEF rec, d
<1>3. CASE m.text = <<>>
  <2>1. Closing(m) = d
    BY <1>3 DEF Closing, d
  <2>2. IsPrefix(d, d)
    BY <1>1, PrefixSelf
  <2> QED BY <1>3, <2>1, <2>2 DEF Promised, d
<1>4. CASE m.text # <<>>
  <2> DEFINE c == Append(d, rec)
  <2>1. Closing(m) = c
    BY <1>4 DEF Closing, d, rec
  <2>2. c \in Seq(LineRecs) /\ IsPrefix(d, c) /\ Len(c) = Len(d) + 1 /\ c[Len(d) + 1] = rec /\ Len(d) \in Nat
    BY <1>1, PrefixAppend, AppendProperties, LenProperties
  <2> HIDE DEF c
  <2>3. Len(d) + 1 <= Len(c) /\ IsPrefix(m.text, c[Len(d) + 1].text)
    BY <1>1, <1>2, <2>2
  <2> QED BY <2>1, <2>2, <2>3 DEF Promised, d
<1> QED BY <1>3, <1>4

LEMMA PromisedBefore ==
  ASSUME params \in Params, NEW part \in PartsFor(params), NEW m \in Meanings, NEW c \in Seq(LineRecs),
         Promised(Mean(m, part, params), c)
  PROVE  Promised(m, c)
<1> DEFINE T == LineTexts(params)
           h == Mean(m, part, params)
           d == m.done
           x == m.text
<1>0. d \in Seq(LineRecs) /\ x \in Seq(T) /\ m.lines \in Nat /\ h \in Meanings
  BY MeanTyped DEF Meanings
<1>1. \/ part.is = "char" /\ part.c \in Ordinary
      \/ part.is = "escaped" /\ params.esc # NUL /\ part.c \in LineTexts(params)
      \/ part.is \in Breaks
  BY InFileIs
<1>2. /\ part.is = "char" => h = [done |-> d, text |-> x \o <<part.c>>, lines |-> m.lines]
      /\ part.is = "escaped" =>
           h = [done |-> d, lines |-> m.lines,
                text |-> x \o (IF skipesc(part.c, params) THEN <<part.c>> ELSE <<params.esc, part.c>>)]
      /\ part.is = "goeson" \/ (part.is = "comment" /\ x = <<>>) =>
           h = [done |-> d, text |-> x, lines |-> m.lines + 1]
      /\ part.is = "end" \/ (part.is = "comment" /\ x # <<>>) => h = Over(m)
  BY MeanIs
<1>3. IsPrefix(h.done, c) /\ (h.text # <<>> => Len(h.done) + 1 <= Len(c) /\ IsPrefix(h.text, c[Len(h.done) + 1].text))
  BY DEF Promised
<1> HIDE DEF h
<1>4. ASSUME NEW w \in Seq(T), w # <<>>, h.done = d, h.text = x \o w
      PROVE  Promised(m, c)
  <2>1. h.text \in Seq(T) /\ h.text # <<>>
    BY <1>0, <1>4, ConcatEqualIffEmpty DEF Meanings
  <2> DEFINE i == Len(d) + 1
             y == c[i].text
  <2>2. i <= Len(c) /\ IsPrefix(x \o w, y) /\ IsPrefix(d, c)
    BY <1>3, <1>4, <2>1
  <2>3. y \in Seq(T)
    <3>1. Len(d) \in Nat /\ Len(c) \in Nat
      BY <1>0, LenProperties
    <3>2. i \in 1..Len(c)
      BY <2>2, <3>1
    <3>3. c[i] \in LineRecs
      BY <3>2, ElementOfSeq
    <3> QED BY <3>3 DEF LineRecs
  <2> HIDE DEF y
  <2>4. IsPrefix(x, y)
    BY <1>0, <1>4, <2>2, <2>3, PrefixLonger
  <2> QED BY <2>2, <2>4 DEF Promised, y
<1>5. CASE part.is = "char" /\ part.c \in Ordinary
  <2>1. <<part.c>> \in Seq(T) /\ <<part.c>> # <<>>
    <3>1. part.c \in T
      BY <1>5, CharsFit DEF LineTexts
    <3> HIDE DEF T
    <3> QED BY <3>1
  <2>2. h.done = d /\ h.text = x \o <<part.c>>
    BY <1>2, <1>5
  <2> QED BY <1>4, <2>1, <2>2
<1>6. CASE part.is = "escaped" /\ params.esc # NUL /\ part.c \in LineTexts(params)
  <2> DEFINE w == IF skipesc(part.c, params) THEN <<part.c>> ELSE <<params.esc, part.c>>
  <2>1. w \in Seq(T) /\ w # <<>>
    <3>1. part.c \in T /\ params.esc \in T
      BY <1>6 DEF LineTexts
    <3> HIDE DEF T
    <3>2. <<part.c>> \in Seq(T) /\ <<part.c>> # <<>> /\ <<params.esc, part.c>> \in Seq(T) /\ <<params.esc, part.c>> # <<>>
      BY <3>1
    <3> QED BY <3>2
  <2>2. h = [done |-> d, lines |-> m.lines, text |-> x \o w]
    BY <1>2, <1>6
  <2> HIDE DEF w
  <2>3. h.done = d /\ h.text = x \o w
    BY <2>2
  <2> QED BY <1>4, <2>1, <2>3
<1>7. CASE part.is = "goeson" \/ (part.is = "comment" /\ x = <<>>)
  <2>1. h.done = d /\ h.text = x
    BY <1>2, <1>7
  <2> QED BY <1>3, <2>1 DEF Promised
<1>8. CASE part.is = "end" \/ (part.is = "comment" /\ x # <<>>)
  <2> DEFINE rec == [text |-> x, lineno |-> m.lines + 1]
  <2>1. h.done = Append(d, rec)
    BY <1>2, <1>8 DEF Over
  <2>2. rec \in LineRecs /\ rec.text = x
    BY <1>0 DEF LineRecs
  <2>3. IsPrefix(x, x)
    BY <1>0, PrefixSelf
  <2> HIDE DEF rec, d, x
  <2>4. IsPrefix(d, c) /\ Len(d) + 1 <= Len(c) /\ c[Len(d) + 1] = rec
    BY <1>0, <1>3, <2>1, <2>2, PrefixAppend
  <2> QED BY <2>2, <2>3, <2>4 DEF Promised, d, x
<1> QED BY <1>1, <1>5, <1>6, <1>7, <1>8 DEF Breaks

LEMMA AllPromised ==
  ASSUME params \in Params, written \in Seq(PartsFor(params)), NEW M, MeanOf(M), NEW i \in 0..Len(written)
  PROVE  Promised(M[i], Closing(M[Len(written)]))
<1> DEFINE n == Len(written)
           c == Closing(M[n])
           P == {d \in Nat : \A k \in 0..n : k + d = n => Promised(M[k], c)}
<1>0. n \in Nat /\ \A k \in 0..n : M[k] \in Meanings
  BY LenProperties, MeaningsTyped
<1>1. c \in Seq(LineRecs)
  BY <1>0, ClosingTyped
<1>2. Promised(M[n], c)
  BY <1>0, PromisedAtEnd
<1>3. \A k \in 1..n : M[k] = Mean(M[k - 1], written[k], params) /\ written[k] \in PartsFor(params)
  BY ElementOfSeq DEF MeanOf, MeanFor
<1> HIDE DEF n, c
<1>4. 0 \in P
  <2>1. \A k \in 0..n : k + 0 = n => k = n
    BY <1>0
  <2> QED BY <1>2, <2>1
<1>5. ASSUME NEW d \in Nat, d \in P PROVE d + 1 \in P
  <2> SUFFICES ASSUME NEW k \in 0..n, k + (d + 1) = n PROVE Promised(M[k], c)
    OBVIOUS
  <2> DEFINE l == k + 1
  <2>1. l \in 1..n /\ l \in 0..n /\ l - 1 = k /\ l + d = n
    BY <1>0
  <2> HIDE DEF l
  <2>2. Promised(M[l], c)
    BY <1>5, <2>1
  <2>3. M[l] = Mean(M[k], written[l], params) /\ written[l] \in PartsFor(params) /\ M[k] \in Meanings
    BY <1>0, <1>3, <2>1
  <2>4. Promised(Mean(M[k], written[l], params), c)
    BY <2>2, <2>3
  <2> QED BY <1>1, <2>3, <2>4, PromisedBefore
<1> HIDE DEF P
<1>6. \A d \in Nat : d \in P
  BY <1>4, <1>5, InductionOnSet, Zenon
<1>7. n - i \in Nat /\ i + (n - i) = n /\ i \in 0..n
  BY <1>0 DEF n
<1> QED BY <1>6, <1>7 DEF P, n, c

LEMMA MeantCloses ==
  ASSUME Len(written) \in Nat, NEW M, MeanOf(M)
  PROVE  Meant = Closing(M[Len(written)])
<1> DEFINE n == Len(written)
<1>1. PICK f : MeanOf(f) /\ Meant = Closing(f[n])
  BY MeantIs
<1>2. f[0] = NothingMeant /\ \A k \in 1..n : f[k] = Mean(f[k - 1], written[k], params)
  BY <1>1 DEF MeanOf, MeanFor
<1>3. M[0] = NothingMeant /\ \A k \in 1..n : M[k] = Mean(M[k - 1], written[k], params)
  BY DEF MeanOf, MeanFor
<1> HIDE DEF n
<1> DEFINE P == {k \in Nat : k <= n => f[k] = M[k]}
<1>4. 0 \in P
  BY <1>2, <1>3
<1>5. ASSUME NEW k \in Nat, k \in P PROVE k + 1 \in P
  <2> SUFFICES ASSUME k + 1 <= n PROVE f[k + 1] = M[k + 1]
    OBVIOUS
  <2> DEFINE l == k + 1
  <2>1. l \in 1..n /\ l - 1 = k /\ f[k] = M[k]
    BY <1>5 DEF n
  <2> HIDE DEF l
  <2>2. f[l] = Mean(f[k], written[l], params) /\ M[l] = Mean(M[k], written[l], params)
    BY <1>2, <1>3, <2>1
  <2>3. f[l] = M[l]
    BY <2>1, <2>2, Zenon
  <2> QED BY <2>3 DEF l
<1> HIDE DEF P
<1>6. n \in Nat
  BY DEF n
<1>7. n \in P
  BY <1>4, <1>5, <1>6, InductionOnSet, Zenon
<1>8. f[n] = M[n]
  BY <1>6, <1>7 DEF P
<1> QED BY <1>1, <1>8, Zenon DEF n

(* Where the reader is: at the beginning of a line; what it may have of a  *)
(* line that it could not finish.                                          *)
AtLine(j, B, M) == unread = B[j] /\ got = M[j].done /\ M[j].text = <<>> /\ Lineno = M[j].lines
Begun(some, c) ==
  Len(some) <= Len(c) /\ IsPrefix(Front(some), c) /\ IsPrefix(Last(some).text, c[Len(some)].text)
ReaderAt(B, M, c) ==
  /\ reader = "off" => unread = B[0] /\ got = <<>>
  /\ reader = "on" => (\E j \in 0..Len(written) : AtLine(j, B, M)) \/ (unread = <<>> /\ got = c)
  /\ reader = "end" => got = c
  /\ reader = "failed" => IsPrefix(got, c) \/ Begun(got, c)
LineInv ==
  /\ params \in Params /\ written \in Seq(PartsFor(params)) /\ reader \in {"off", "on", "end", "failed"}
  /\ \E B, M : /\ FileFor(B, written, params) /\ MeanFor(M, written, params)
               /\ ReaderAt(B, M, Closing(M[Len(written)]))

LEMMA LineInvInit == LineInit => LineInv
<1> SUFFICES ASSUME LineInit PROVE LineInv
  OBVIOUS
<1> DEFINE B == [k \in 0..0 |-> <<>>]
           M == [k \in 0..0 |-> NothingMeant]
<1>1. params \in Params /\ written = <<>> /\ unread = <<>> /\ got = <<>> /\ reader = "off"
  BY DEF LineInit
<1>2. Len(written) = 0 /\ written \in Seq(PartsFor(params)) /\ <<>> \in Seq(LineChars(params))
  BY <1>1, EmptySeq
<1>3. B \in [0..0 -> Seq(LineChars(params))] /\ B[0] = <<>> /\ M[0] = NothingMeant
  BY <1>2
<1> HIDE DEF B, M
<1>4. FileFor(B, written, params)
  BY <1>2, <1>3 DEF FileFor
<1>5. MeanFor(M, written, params)
  BY <1>2, <1>3 DEF MeanFor
<1>6. ReaderAt(B, M, Closing(M[Len(written)]))
  BY <1>1, <1>3 DEF ReaderAt
<1> QED BY <1>1, <1>2, <1>4, <1>5, <1>6 DEF LineInv

LEMMA FileGrows ==
  ASSUME NEW p \in Params, NEW parts \in Seq(PartsFor(p)), NEW part \in PartsFor(p), NEW B, FileFor(B, parts, p)
  PROVE  \E D : FileFor(D, Append(parts, part), p) /\ D[0] = B[0] \o InFile(part, p)
<1> DEFINE n == Len(parts)
           w == InFile(part, p)
           C == LineChars(p)
           longer == Append(parts, part)
           D == [k \in 0..n + 1 |-> IF k = n + 1 THEN <<>> ELSE B[k] \o w]
<1>1. n \in Nat /\ Len(longer) = n + 1 /\ longer[n + 1] = part /\ \A k \in 1..n : longer[k] = parts[k]
  BY AppendProperties, LenProperties
<1>2. w \in Seq(C) /\ <<>> \in Seq(C)
  BY InFileIs, EmptySeq
<1>3. \A k \in 0..n : B[k] \in Seq(C)
  BY DEF FileFor
<1>4. B[n] = <<>> /\ \A k \in 0..n - 1 : B[k] = InFile(parts[k + 1], p) \o B[k + 1]
  BY DEF FileFor
<1>5. \A k \in 1..n : InFile(parts[k], p) \in Seq(C)
  BY InFileIs, ElementOfSeq
<1> HIDE DEF n, w, C, longer
<1>6. D[n + 1] = <<>> /\ \A k \in 0..n : D[k] = B[k] \o w
  BY <1>1
<1>7. D \in [0..n + 1 -> Seq(C)]
  <2>1. ASSUME NEW k \in 0..n + 1 PROVE (IF k = n + 1 THEN <<>> ELSE B[k] \o w) \in Seq(C)
    <3>1. CASE k = n + 1
      BY <1>2, <3>1
    <3>2. CASE k # n + 1
      <4> DEFINE b == B[k]
      <4>1. b \in Seq(C)
        BY <1>1, <1>3, <3>2
      <4> HIDE DEF b
      <4>2. b \o w \in Seq(C)
        BY <1>2, <4>1, ConcatProperties
      <4> QED BY <3>2, <4>2 DEF b
    <3> QED BY <3>1, <3>2
  <2> QED BY <2>1
<1> HIDE DEF D
<1>8. ASSUME NEW k \in 0..n PROVE D[k] = InFile(longer[k + 1], p) \o D[k + 1]
  <2> DEFINE l == k + 1
  <2>1. CASE k = n
    <3>1. D[k] = <<>> \o w /\ D[l] = <<>> /\ longer[l] = part
      BY <1>1, <1>4, <1>6, <2>1
    <3>2. <<>> \o w = w /\ w \o <<>> = w
      BY <1>2, ConcatEmptySeq
    <3> QED BY <3>1, <3>2 DEF w
  <2>2. CASE k # n
    <3> DEFINE b == B[l]
               v == InFile(parts[l], p)
    <3>1. k \in 0..n - 1 /\ l \in 1..n /\ l \in 0..n
      BY <1>1, <2>2
    <3>2. D[k] = B[k] \o w /\ D[l] = b \o w /\ longer[l] = parts[l] /\ B[k] = v \o b
      BY <1>1, <1>4, <1>6, <3>1
    <3>3. b \in Seq(C) /\ v \in Seq(C)
      BY <1>3, <1>5, <3>1
    <3> HIDE DEF b, v
    <3>4. (v \o b) \o w = v \o (b \o w)
      BY <1>2, <3>3, ConcatAssociative
    <3> QED BY <3>2, <3>4 DEF v
  <2> QED BY <2>1, <2>2
<1>9. FileFor(D, longer, p)
  <2>1. D[Len(longer)] = <<>> /\ Len(longer) - 1 = n
    BY <1>1, <1>6
  <2> QED BY <1>1, <1>7, <1>8, <2>1 DEF FileFor, C
<1>10. D[0] = B[0] \o w
  BY <1>1, <1>6
<1> QED BY <1>9, <1>10 DEF longer, w

LEMMA MeaningGrows ==
  ASSUME NEW p, NEW S, NEW parts \in Seq(S), NEW part \in S, NEW M, MeanFor(M, parts, p)
  PROVE  \E N : MeanFor(N, Append(parts, part), p)
<1> DEFINE n == Len(parts)
           longer == Append(parts, part)
           y == Mean(M[n], part, p)
<1>1. n \in Nat /\ Len(longer) = n + 1 /\ longer[n + 1] = part /\ \A k \in 1..n : longer[k] = parts[k]
  BY AppendProperties, LenProperties
<1>2. M[0] = NothingMeant /\ \A k \in 1..n : M[k] = Mean(M[k - 1], parts[k], p)
  BY DEF MeanFor
<1> HIDE DEF n, longer, y
<1> DEFINE N == [k \in 0..n + 1 |-> IF k = n + 1 THEN y ELSE M[k]]
<1>3. N[0] = NothingMeant /\ N[n + 1] = y /\ N[n] = M[n]
  BY <1>1, <1>2
<1>4. \A k \in 1..n : N[k] = M[k] /\ N[k - 1] = M[k - 1]
  BY <1>1
<1> HIDE DEF N
<1>5. ASSUME NEW k \in 1..n + 1 PROVE N[k] = Mean(N[k - 1], longer[k], p)
  <2>1. CASE k = n + 1
    <3>1. k - 1 = n
      BY <1>1, <2>1
    <3> QED BY <1>1, <1>3, <2>1, <3>1, Zenon DEF y
  <2>2. CASE k # n + 1
    <3>1. k \in 1..n
      BY <1>1, <2>2
    <3>2. N[k] = M[k] /\ N[k - 1] = M[k - 1] /\ M[k] = Mean(M[k - 1], parts[k], p) /\ longer[k] = parts[k]
      BY <1>1, <1>2, <1>4, <3>1, Zenon
    <3> QED BY <3>2, Zenon
  <2> QED BY <2>1, <2>2
<1>6. MeanFor(N, longer, p)
  BY <1>1, <1>3, <1>5, Zenon DEF MeanFor
<1> QED BY <1>6 DEF longer

LEMMA LineInvWrite ==
  ASSUME LineInv, NEW part \in PartsFor(params), Write(part)
  PROVE  LineInv'
<1>1. /\ reader = "off" /\ written' = Append(written, part) /\ unread' = unread \o InFile(part, params)
      /\ params' = params /\ got' = got /\ reader' = reader
  BY DEF Write
<1>2. params \in Params /\ written \in Seq(PartsFor(params)) /\ reader \in {"off", "on", "end", "failed"}
  BY DEF LineInv
<1>3. PICK B, M : /\ FileFor(B, written, params) /\ MeanFor(M, written, params)
                  /\ ReaderAt(B, M, Closing(M[Len(written)]))
  BY DEF LineInv
<1>4. unread = B[0] /\ got = <<>>
  BY <1>1, <1>3 DEF ReaderAt
<1>5. PICK D : FileFor(D, Append(written, part), params) /\ D[0] = B[0] \o InFile(part, params)
  BY <1>2, <1>3, FileGrows
<1>6. PICK N : MeanFor(N, Append(written, part), params)
  BY <1>2, <1>3, MeaningGrows
<1>7. Append(written, part) \in Seq(PartsFor(params))
  BY <1>2, AppendProperties
<1>8. params' \in Params /\ written' \in Seq(PartsFor(params')) /\ reader' \in {"off", "on", "end", "failed"}
  BY <1>1, <1>2, <1>7
<1>9. FileFor(D, written', params') /\ MeanFor(N, written', params')
  BY <1>1, <1>5, <1>6
<1>10. reader' = "off" /\ unread' = D[0] /\ got' = <<>>
  BY <1>1, <1>4, <1>5
<1>11. ReaderAt(D, N, Closing(N[Len(written)]))'
  BY <1>10 DEF ReaderAt
<1> QED BY <1>8, <1>9, <1>11 DEF LineInv

LEMMA AddedLine ==
  ASSUME NEW s \in Seq(LineRecs), NEW x
  PROVE  /\ Front(Append(s, x)) = s /\ Last(Append(s, x)) = x /\ Append(s, x) # <<>>
         /\ Len(Append(s, x)) = Len(s) + 1
<1> DEFINE S == LineRecs \cup {x}
           t == Append(s, x)
<1>1. s \in Seq(S) /\ x \in S
  <2>1. LineRecs \subseteq S /\ x \in S
    OBVIOUS
  <2> HIDE DEF S
  <2> QED BY <2>1, SeqMonotonic
<1> HIDE DEF S
<1>2. Front(t) = s /\ Last(t) = x
  BY <1>1, LastOf
<1>3. t \in Seq(S) /\ Len(t) = Len(s) + 1 /\ Len(s) \in Nat
  BY <1>1, AppendProperties, LenProperties
<1> HIDE DEF t
<1>4. t # <<>>
  BY <1>3, EmptySeq
<1> QED BY <1>2, <1>3, <1>4 DEF t

LEMMA LineInvRead ==
  ASSUME LineInv, NEW fault \in Faults \cup {NoFault}, ReadLine(fault)
  PROVE  LineInv'
<1> DEFINE r == fparseln(unread, params, fault)
           n == Len(written)
           rec == [text |-> r.line, lineno |-> Lineno + r.read]
<1>1. /\ reader = "on" /\ unread' = r.rest /\ params' = params /\ written' = written
      /\ got' = IF r.line = NoBuf THEN got ELSE Append(got, rec)
      /\ reader' = IF fault # NoFault THEN "failed" ELSE IF r.line = NoBuf THEN "end" ELSE "on"
  BY Zenon DEF ReadLine
<1>2. params \in Params /\ written \in Seq(PartsFor(params))
  BY DEF LineInv
<1>3. PICK B, M : /\ FileFor(B, written, params) /\ MeanFor(M, written, params)
                  /\ ReaderAt(B, M, Closing(M[Len(written)]))
  BY DEF LineInv
<1>4. FileOf(B) /\ MeanOf(M)
  BY <1>3 DEF FileOf, MeanOf
<1>12. PICK c : c = Closing(M[Len(written)])
  OBVIOUS
<1>5. \A i \in 0..n : M[i] \in Meanings /\ M[i].done \in Seq(LineRecs) /\ M[i].lines \in Nat /\ Promised(M[i], c)
  <2>1. \A i \in 0..n : M[i] \in Meanings /\ Promised(M[i], c)
    BY <1>2, <1>4, <1>12, MeaningsTyped, AllPromised
  <2> HIDE DEF n
  <2> QED BY <2>1 DEF Meanings
<1>6. c \in Seq(LineRecs) /\ IsPrefix(c, c)
  <2>1. n \in 0..n
    BY <1>2, LenProperties
  <2>2. c \in Seq(LineRecs)
    BY <1>2, <1>5, <1>12, <2>1, ClosingTyped
  <2> QED BY <2>2, PrefixSelf
<1>7. (\E j \in 0..n : AtLine(j, B, M)) \/ (unread = <<>> /\ got = c)
  BY <1>1, <1>3, <1>12 DEF ReaderAt
<1>8. reader' \in {"off", "on", "end", "failed"} /\ (reader' = "failed" <=> fault # NoFault)
  BY <1>1
<1> HIDE DEF r, n
<1>9. ASSUME ReaderAt(B, M, c)' PROVE LineInv'
  <2>1. params' \in Params /\ written' \in Seq(PartsFor(params'))
    BY <1>1, <1>2
  <2>2. FileFor(B, written', params') /\ MeanFor(M, written', params')
    BY <1>1, <1>3
  <2>3. ReaderAt(B, M, Closing(M[Len(written)]))'
    BY <1>1, <1>9, <1>12
  <2> QED BY <1>8, <2>1, <2>2, <2>3 DEF LineInv
<1>10. CASE unread = <<>> /\ got = c
  <2>1. r.line = NoBuf
    <3>1. Gather(<<>>, params, fault).buf = NoBuf
      BY GatherNone
    <3>2. r = [line |-> LineReturned(Gather(<<>>, params, fault).buf, params),
               rest |-> Gather(<<>>, params, fault).rest, read |-> Gather(<<>>, params, fault).read]
      BY <1>10, FparselnIs DEF r
    <3> QED BY <3>1, <3>2 DEF LineReturned
  <2>2. got' = c /\ reader' \in {"end", "failed"}
    BY <1>1, <1>10, <2>1
  <2>3. ReaderAt(B, M, c)'
    BY <1>6, <2>2 DEF ReaderAt
  <2> QED BY <1>9, <2>3
<1>11. ASSUME NEW j \in 0..n, AtLine(j, B, M) PROVE LineInv'
  <2>1. unread = B[j] /\ got = M[j].done /\ M[j].text = <<>> /\ Lineno = M[j].lines
    BY <1>11 DEF AtLine
  <2>2. Gives(r, j, B, M, fault)
    <3>1. Gives(fparseln(B[j], params, fault), j, B, M, fault)
      BY <1>2, <1>4, <2>1, FparselnGives DEF n
    <3> QED BY <2>1, <3>1 DEF r
  <2>3. got \in Seq(LineRecs)
    BY <1>5, <2>1
  <2>4. ASSUME NEW i \in 0..n, GivesLine(r, i, j, B, M) PROVE ReaderAt(B, M, c)'
    <3>1. /\ r.line # NoBuf /\ r.rest = B[i]
          /\ M[i].done = Append(M[j].done, [text |-> r.line, lineno |-> M[j].lines + r.read])
          /\ M[i].text = <<>> /\ M[i].lines = M[j].lines + r.read
      BY <2>4 DEF GivesLine
    <3>2. got' = Append(got, rec) /\ got' = M[i].done /\ unread' = B[i] /\ rec.lineno = M[i].lines
      BY <1>1, <2>1, <3>1
    <3> HIDE DEF rec
    <3>3. got' # <<>> /\ Last(got') = rec
      BY <2>3, <3>2, AddedLine
    <3>4. Lineno' = M[i].lines
      BY <3>2, <3>3 DEF Lineno
    <3>5. AtLine(i, B, M)'
      BY <3>1, <3>2, <3>4 DEF AtLine
    <3>6. IsPrefix(got', c)
      BY <1>5, <3>2 DEF Promised
    <3>7. reader' \in {"on", "failed"}
      BY <1>1, <3>1
    <3>8. \E l \in 0..Len(written') : AtLine(l, B, M)'
      BY <1>1, <3>5 DEF n
    <3> QED BY <3>6, <3>7, <3>8 DEF ReaderAt
  <2>5. ASSUME GivesRest(r, c, j, M) PROVE ReaderAt(B, M, c)'
    <3>1. r.line # NoBuf /\ r.rest = <<>> /\ got' = c /\ unread' = <<>>
      BY <1>1, <2>1, <2>5 DEF GivesRest
    <3>2. reader' \in {"on", "failed"}
      BY <1>1, <3>1
    <3> QED BY <1>6, <3>1, <3>2 DEF ReaderAt
  <2>6. ASSUME r.line = NoBuf, c = M[j].done PROVE ReaderAt(B, M, c)'
    <3>1. got' = c /\ reader' \in {"end", "failed"}
      BY <1>1, <2>1, <2>6
    <3> QED BY <1>6, <3>1 DEF ReaderAt
  <2>7. ASSUME r.line = NoBuf, fault # NoFault PROVE ReaderAt(B, M, c)'
    <3>1. got' = M[j].done /\ reader' = "failed"
      BY <1>1, <2>1, <2>7
    <3>2. IsPrefix(got', c)
      BY <1>5, <3>1 DEF Promised
    <3> QED BY <3>1, <3>2 DEF ReaderAt
  <2>8. ASSUME fault # NoFault, NEW i \in 0..n, GivesPart(r, i, j, M) PROVE ReaderAt(B, M, c)'
    <3>1. r.line # NoBuf /\ r.line = M[i].text /\ M[i].text # <<>> /\ M[i].done = got
      BY <2>1, <2>8 DEF GivesPart
    <3>2. got' = Append(got, rec) /\ reader' = "failed" /\ rec.text = M[i].text
      BY <1>1, <2>8, <3>1
    <3> HIDE DEF rec
    <3>3. Front(got') = got /\ Last(got') = rec /\ Len(got') = Len(got) + 1
      BY <2>3, <3>2, AddedLine
    <3>4. IsPrefix(got, c) /\ Len(got) + 1 <= Len(c) /\ IsPrefix(M[i].text, c[Len(got) + 1].text)
      <4>1. Promised(M[i], c)
        BY <1>5
      <4> QED BY <3>1, <4>1 DEF Promised
    <3>5. Begun(got', c)
      BY <3>2, <3>3, <3>4 DEF Begun
    <3> QED BY <3>2, <3>5 DEF ReaderAt
  <2> QED BY <1>9, <2>2, <2>4, <2>5, <2>6, <2>7, <2>8, <1>12 DEF Gives, n
<1> QED BY <1>7, <1>10, <1>11

LEMMA LineInvRight == LineInv => LinesRight
<1> SUFFICES ASSUME LineInv PROVE LinesRight
  OBVIOUS
<1> DEFINE n == Len(written)
<1>1. params \in Params /\ written \in Seq(PartsFor(params)) /\ n \in Nat
  BY LenProperties DEF LineInv
<1>2. PICK B, M : /\ FileFor(B, written, params) /\ MeanFor(M, written, params)
                  /\ ReaderAt(B, M, Closing(M[Len(written)]))
  BY DEF LineInv
<1>3. MeanOf(M) /\ M[0] = NothingMeant
  BY <1>2 DEF MeanOf, MeanFor
<1> DEFINE c == Closing(M[n])
<1>4. Meant = c
  BY <1>1, <1>3, MeantCloses
<1>5. \A i \in 0..n : IsPrefix(M[i].done, c)
  BY <1>1, <1>3, AllPromised DEF Promised
<1>6. IsPrefix(c, c)
  <2>1. n \in 0..n
    BY <1>1
  <2>2. c \in Seq(LineRecs)
    BY <1>1, <1>3, <2>1, MeaningsTyped, ClosingTyped
  <2> HIDE DEF c
  <2> QED BY <2>2, PrefixSelf
<1>7. ReaderAt(B, M, c)
  BY <1>2
<1> HIDE DEF c, n
<1>8. reader \in {"off", "on"} => IsPrefix(got, c)
  <2>1. CASE reader = "off"
    <3>1. got = M[0].done /\ 0 \in 0..n
      BY <1>1, <1>3, <1>7, <2>1 DEF ReaderAt, NothingMeant
    <3> QED BY <1>5, <3>1
  <2>2. CASE reader = "on"
    <3>1. (\E j \in 0..n : AtLine(j, B, M)) \/ got = c
      BY <1>7, <2>2 DEF ReaderAt, n
    <3> QED BY <1>5, <1>6, <3>1 DEF AtLine
  <2> QED BY <2>1, <2>2
<1>9. reader = "end" => got = c
  BY <1>7 DEF ReaderAt
<1>10. reader = "failed" /\ ~IsPrefix(got, c) => Begun(got, c)
  BY <1>7 DEF ReaderAt
<1> QED BY <1>4, <1>8, <1>9, <1>10 DEF LinesRight, Begun

(* fparseln (mkc_fparseln.c) returns the lines a program meant when it     *)
(* wrote them escaped, broken and commented, each with the number of lines *)
(* read; a failure leaves the beginning of one: for every file.            *)
THEOREM LinesRightCorrect == LineSpec => []LinesRight
<1>1. LineInit => LineInv
  BY LineInvInit
<1>2. LineInv /\ [LineNext]_lineVars => LineInv'
  <2> SUFFICES ASSUME LineInv, [LineNext]_lineVars PROVE LineInv'
    OBVIOUS
  <2>1. ASSUME NEW c \in Ordinary, Write(Part("char", c)) PROVE LineInv'
    <3>1. Part("char", c) \in PartsFor(params)
      BY DEF PartsFor
    <3> QED BY <2>1, <3>1, LineInvWrite
  <2>2. ASSUME params.esc # NUL, NEW c \in (Ordinary \cup {params.esc, params.con, params.com}) \ {NUL},
               Write(Part("escaped", c))
        PROVE  LineInv'
    <3>1. Part("escaped", c) \in PartsFor(params)
      BY <2>2 DEF PartsFor, Escapable, LineTexts
    <3> QED BY <2>2, <3>1, LineInvWrite
  <2>3. ASSUME NEW is \in BreaksFor(params), Write(Part(is, nl)) PROVE LineInv'
    <3>1. Part(is, nl) \in PartsFor(params)
      BY DEF PartsFor
    <3> QED BY <2>3, <3>1, LineInvWrite
  <2>4. CASE Open
    <3>1. /\ reader = "off" /\ reader' = "on"
          /\ params' = params /\ written' = written /\ unread' = unread /\ got' = got
      BY <2>4 DEF Open
    <3>2. params \in Params /\ written \in Seq(PartsFor(params)) /\ 0 \in 0..Len(written)
      BY LenProperties DEF LineInv
    <3>3. PICK B, M : /\ FileFor(B, written, params) /\ MeanFor(M, written, params)
                      /\ ReaderAt(B, M, Closing(M[Len(written)]))
      BY DEF LineInv
    <3>4. unread' = B[0] /\ got' = <<>> /\ M[0] = NothingMeant
      BY <3>1, <3>3 DEF ReaderAt, MeanFor
    <3>5. Lineno' = 0
      BY <3>4 DEF Lineno
    <3>6. AtLine(0, B, M)'
      BY <3>4, <3>5 DEF AtLine, NothingMeant
    <3>7. \E l \in 0..Len(written') : AtLine(l, B, M)'
      BY <3>1, <3>2, <3>6
    <3>8. ReaderAt(B, M, Closing(M[Len(written)]))'
      BY <3>1, <3>7 DEF ReaderAt
    <3>9. /\ params' \in Params /\ written' \in Seq(PartsFor(params')) /\ reader' \in {"off", "on", "end", "failed"}
          /\ FileFor(B, written', params') /\ MeanFor(M, written', params')
      BY <3>1, <3>2, <3>3
    <3> QED BY <3>8, <3>9 DEF LineInv
  <2>5. ASSUME NEW fault \in Faults \cup {NoFault}, ReadLine(fault) PROVE LineInv'
    BY <2>5, LineInvRead
  <2>6. CASE UNCHANGED lineVars
    BY <2>6 DEF lineVars, LineInv, ReaderAt, AtLine, Lineno
  <2>7. /\ params.con # NUL => "goeson" \in BreaksFor(params)
        /\ params.com # NUL => "comment" \in BreaksFor(params)
        /\ "end" \in BreaksFor(params)
    BY DEF BreaksFor, Breaks
  <2> QED BY <2>1, <2>2, <2>3, <2>4, <2>5, <2>6, <2>7 DEF LineNext
<1>3. LineInv => LinesRight
  BY LineInvRight
<1> QED BY <1>1, <1>2, <1>3, PTL DEF LineSpec
=============================================================================

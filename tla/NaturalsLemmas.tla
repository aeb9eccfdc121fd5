--------------------------- MODULE NaturalsLemmas ---------------------------
(***************************************************************************)
(* What the other proofs need of the natural numbers: a least element,     *)
(* induction, and sequences that are defined by their first element and a  *)
(* step. The library states induction for an operator, which no prover     *)
(* here can be given; here it is stated for a set of numbers, from the     *)
(* library's theorem on minimal elements.                                  *)
(***************************************************************************)
EXTENDS Naturals, WellFoundedInduction, TLAPS

LEMMA LeastNatural ==
  ASSUME NEW T, T \subseteq Nat, T # {}
  PROVE  \E n \in T : \A m \in T : n <= m
<1>1. \E x \in T : \A y \in T : ~(<<y, x>> \in OpToRel(<, Nat))
  BY WFMin, NatLessThanWellFounded, Zenon
<1>2. PICK x \in T : \A y \in T : ~(<<y, x>> \in OpToRel(<, Nat))
  BY <1>1
<1>3. \A y \in T : ~(y < x)
  BY <1>2, Zenon DEF OpToRel
<1> QED BY <1>3

LEMMA InductionOnSet ==
  ASSUME NEW P, 0 \in P, \A n \in Nat : n \in P => n + 1 \in P
  PROVE  \A n \in Nat : n \in P
<1> SUFFICES ASSUME Nat \ P # {} PROVE FALSE
  OBVIOUS
<1>1. PICK n \in Nat \ P : \A m \in Nat \ P : n <= m
  BY LeastNatural, Zenon
<1>2. n # 0 /\ n - 1 \in Nat /\ n - 1 + 1 = n
  BY <1>1
<1>3. n - 1 \in P
  BY <1>1, <1>2
<1> QED BY <1>1, <1>2, <1>3

(* A function that starts with z and goes on with step, up to any number.  *)
Iterated(f, S, z, step, n) ==
  f \in [0..n -> S] /\ f[0] = z /\ \A k \in 1..n : f[k] = step[f[k - 1]]

LEMMA Iterates ==
  ASSUME NEW S, NEW z, z \in S, NEW step, step \in [S -> S], NEW n \in Nat
  PROVE  \E f : Iterated(f, S, z, step, n)
<1> DEFINE P == {m \in Nat : \E f \in [0..m -> S] : f[0] = z /\ \A k \in 1..m : f[k] = step[f[k - 1]]}
<1>1. 0 \in P
  <2> DEFINE f == [k \in 0..0 |-> z]
  <2>1. f \in [0..0 -> S] /\ f[0] = z /\ \A k \in 1..0 : f[k] = step[f[k - 1]]
    OBVIOUS
  <2> QED BY <2>1
<1>2. ASSUME NEW m \in Nat, m \in P PROVE m + 1 \in P
  <2>1. PICK f \in [0..m -> S] : f[0] = z /\ \A k \in 1..m : f[k] = step[f[k - 1]]
    BY <1>2
  <2> DEFINE g == [k \in 0..m + 1 |-> IF k = m + 1 THEN step[f[m]] ELSE f[k]]
  <2>2. g \in [0..m + 1 -> S] /\ g[0] = z /\ g[m + 1] = step[f[m]] /\ g[m] = f[m]
    BY <2>1
  <2>3. \A k \in 1..m : g[k] = f[k] /\ g[k - 1] = f[k - 1]
    OBVIOUS
  <2>4. \A k \in 1..m + 1 : g[k] = step[g[k - 1]]
    BY <2>1, <2>2, <2>3
  <2> HIDE DEF g
  <2> QED BY <2>2, <2>4
<1> HIDE DEF P
<1>3. n \in P
  BY <1>1, <1>2, InductionOnSet, Zenon
<1> QED BY <1>3 DEF P, Iterated

(* What goes on with step from each number to the next is an iteration.    *)
LEMMA Recursed ==
  ASSUME NEW S, NEW z, z \in S, NEW step, step \in [S -> S], NEW n \in Nat, NEW r,
         r = [k \in 0..n |-> r[k]], r[0] = z,
         \A k \in 1..n : r[k - 1] \in S => r[k] = step[r[k - 1]]
  PROVE  Iterated(r, S, z, step, n)
<1> DEFINE P == {k \in Nat : k <= n => r[k] \in S}
<1>1. 0 \in P
  OBVIOUS
<1>2. ASSUME NEW k \in Nat, k \in P PROVE k + 1 \in P
  <2> SUFFICES ASSUME k + 1 <= n PROVE r[k + 1] \in S
    OBVIOUS
  <2> DEFINE j == k + 1
  <2>1. j \in 1..n /\ j - 1 = k /\ r[k] \in S
    BY <1>2
  <2> HIDE DEF j
  <2>2. r[j] = step[r[k]]
    BY <2>1
  <2> QED BY <2>1, <2>2 DEF j
<1> HIDE DEF P
<1>3. \A k \in Nat : k \in P
  BY <1>1, <1>2, InductionOnSet, Zenon
<1>4. \A k \in 0..n : r[k] \in S
  BY <1>3 DEF P
<1>5. r \in [0..n -> S]
  BY <1>4
<1>6. \A k \in 1..n : r[k - 1] \in S
  BY <1>4
<1> QED BY <1>5, <1>6 DEF Iterated

(* Two iterations of one step agree as far as both go.                     *)
LEMMA IteratesAgree ==
  ASSUME NEW S, NEW z, NEW step, NEW n \in Nat, NEW m \in Nat, NEW f, NEW g,
         Iterated(f, S, z, step, n), Iterated(g, S, z, step, m)
  PROVE  \A k \in Nat : k <= n /\ k <= m => f[k] = g[k]
<1> DEFINE P == {k \in Nat : k <= n /\ k <= m => f[k] = g[k]}
<1>0. /\ f[0] = z /\ \A k \in 1..n : f[k] = step[f[k - 1]]
      /\ g[0] = z /\ \A k \in 1..m : g[k] = step[g[k - 1]]
  BY Zenon DEF Iterated
<1>1. 0 \in P
  BY <1>0
<1>2. ASSUME NEW k \in Nat, k \in P PROVE k + 1 \in P
  <2> SUFFICES ASSUME k + 1 <= n, k + 1 <= m PROVE f[k + 1] = g[k + 1]
    OBVIOUS
  <2>1. k + 1 \in 1..n /\ k + 1 \in 1..m /\ k + 1 - 1 = k /\ f[k] = g[k]
    BY <1>2
  <2>2. f[k + 1] = step[f[k]] /\ g[k + 1] = step[g[k]]
    BY <1>0, <2>1
  <2> QED BY <2>1, <2>2
<1> HIDE DEF P
<1>3. \A k \in Nat : k \in P
  BY <1>1, <1>2, InductionOnSet, Zenon
<1> QED BY <1>3 DEF P

(* A function that starts with z and goes on with a step of its own for    *)
(* each number.                                                            *)
Stepped(f, S, z, step, n) ==
  f \in [0..n -> S] /\ f[0] = z /\ \A k \in 1..n : f[k] = step[k][f[k - 1]]

LEMMA Steps ==
  ASSUME NEW S, NEW z, z \in S, NEW n \in Nat, NEW step, step \in [1..n -> [S -> S]]
  PROVE  \E f : Stepped(f, S, z, step, n)
<1> DEFINE P == {m \in Nat : m <= n => \E f \in [0..m -> S] : f[0] = z /\ \A k \in 1..m : f[k] = step[k][f[k - 1]]}
<1>1. 0 \in P
  <2> DEFINE f == [k \in 0..0 |-> z]
  <2>1. f \in [0..0 -> S] /\ f[0] = z /\ \A k \in 1..0 : f[k] = step[k][f[k - 1]]
    OBVIOUS
  <2> QED BY <2>1
<1>2. ASSUME NEW m \in Nat, m \in P PROVE m + 1 \in P
  <2> SUFFICES ASSUME m + 1 <= n
               PROVE  \E f \in [0..m + 1 -> S] : f[0] = z /\ \A k \in 1..m + 1 : f[k] = step[k][f[k - 1]]
    OBVIOUS
  <2>1. PICK f \in [0..m -> S] : f[0] = z /\ \A k \in 1..m : f[k] = step[k][f[k - 1]]
    BY <1>2
  <2> DEFINE g == [k \in 0..m + 1 |-> IF k = m + 1 THEN step[m + 1][f[m]] ELSE f[k]]
  <2>0. step[m + 1][f[m]] \in S
    BY <2>1
  <2>2. g \in [0..m + 1 -> S] /\ g[0] = z /\ g[m + 1] = step[m + 1][f[m]] /\ g[m] = f[m]
    BY <2>0, <2>1
  <2>3. \A k \in 1..m : g[k] = f[k] /\ g[k - 1] = f[k - 1]
    OBVIOUS
  <2>4. \A k \in 1..m + 1 : g[k] = step[k][g[k - 1]]
    BY <2>1, <2>2, <2>3
  <2> HIDE DEF g
  <2> QED BY <2>2, <2>4
<1> HIDE DEF P
<1>3. n \in P
  BY <1>1, <1>2, InductionOnSet, Zenon
<1> QED BY <1>3 DEF P, Stepped
=============================================================================

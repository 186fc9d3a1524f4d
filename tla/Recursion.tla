-------------------------------- MODULE Recursion --------------------------------
(***************************************************************************)
(* Functions that are defined by recursion over 0 .. n, such as the sum of *)
(* the lengths of some buffers: that they exist, and how to show something *)
(* of all their values.  The step from one value to the next is a function *)
(* of pairs, so that no operator has to be instantiated.                   *)
(***************************************************************************)
EXTENDS Naturals, WellFoundedInduction, TLAPS

\* f follows the step g from its first value b.
Follows(f, n, b, g) ==
  /\ f[0] = b
  /\ \A i \in 1 .. n : f[i] = g[<<f[i - 1], i>>]

\* Induction for sets of numbers; the induction theorems of the library are about
\* operators.
LEMMA SetInduction ==
  ASSUME NEW T, 0 \in T, \A n \in Nat : n \in T => n + 1 \in T
  PROVE  \A n \in Nat : n \in T
<1> DEFINE R == OpToRel(<, Nat)
           U == Nat \ T
<1>1. SUFFICES ASSUME U # {} PROVE FALSE
  OBVIOUS
<1>2. IsWellFoundedOn(R, Nat)
  BY NatLessThanWellFounded, Zenon
<1>3. \A i, j \in Nat : i < j => <<i, j>> \in R
  BY DEF OpToRel
<1> HIDE DEF R, U
<1>4. U \subseteq Nat
  BY DEF U
<1>5. PICK x \in U : \A y \in U : ~ (<<y, x>> \in R)
  BY <1>1, <1>2, <1>4, WFMin
<1>6. x \in Nat /\ x # 0
  BY <1>4 DEF U
<1>7. x - 1 \in Nat /\ x - 1 < x /\ (x - 1) + 1 = x
  BY <1>6
<1>8. x - 1 \notin U
  BY <1>3, <1>5, <1>6, <1>7
<1>9. QED
  BY <1>6, <1>7, <1>8 DEF U

\* There is a function that follows the step.
LEMMA RecursionExists ==
  ASSUME NEW V, NEW b \in V, NEW n \in Nat, NEW g,
         \A v \in V, i \in 1 .. n : g[<<v, i>>] \in V
  PROVE  \E f \in [0 .. n -> V] : Follows(f, n, b, g)
<1> DEFINE T == {m \in Nat : m <= n => \E f \in [0 .. m -> V] : Follows(f, m, b, g)}
<1>1. 0 \in T
  <2> DEFINE f == [i \in 0 .. 0 |-> b]
  <2>1. f \in [0 .. 0 -> V] /\ Follows(f, 0, b, g)
    BY DEF Follows
  <2>2. QED
    BY <2>1
<1>2. ASSUME NEW m \in Nat, m \in T, m + 1 <= n
      PROVE  \E f \in [0 .. m + 1 -> V] : Follows(f, m + 1, b, g)
  <2>1. PICK h \in [0 .. m -> V] : Follows(h, m, b, g)
    BY <1>2
  <2> DEFINE f == [i \in 0 .. m + 1 |-> IF i = m + 1 THEN g[<<h[m], m + 1>>] ELSE h[i]]
  <2>2. \A i \in 0 .. m : f[i] = h[i]
    OBVIOUS
  <2>3. f[m + 1] = g[<<f[m], m + 1>>]
    <3>1. f[m] = h[m] /\ m + 1 \in 0 .. m + 1
      BY <2>2
    <3>2. QED
      BY <3>1
  <2>4. f \in [0 .. m + 1 -> V]
    <3>1. h[m] \in V /\ m + 1 \in 1 .. n
      BY <1>2
    <3>2. g[<<h[m], m + 1>>] \in V
      BY <3>1
    <3>3. ASSUME NEW i \in 0 .. m + 1, i # m + 1 PROVE h[i] \in V
      <4>1. i \in 0 .. m
        BY <3>3
      <4>2. QED
        BY <4>1
    <3>4. QED
      BY <3>2, <3>3
  <2> HIDE DEF f
  <2>5. ASSUME NEW i \in 1 .. m + 1 PROVE f[i] = g[<<f[i - 1], i>>]
    <3>1. CASE i = m + 1
      <4>1. i - 1 = m
        BY <3>1
      <4>2. QED
        BY <2>3, <3>1, <4>1
    <3>2. CASE i # m + 1
      <4>1. i \in 1 .. m /\ i \in 0 .. m /\ i - 1 \in 0 .. m
        BY <3>2
      <4>2. h[i] = g[<<h[i - 1], i>>]
        BY <2>1, <4>1 DEF Follows
      <4>3. QED
        BY <2>2, <4>1, <4>2
    <3>3. QED
      BY <3>1, <3>2
  <2>6. f[0] = b
    BY <2>1, <2>2 DEF Follows
  <2>7. QED
    BY <2>4, <2>5, <2>6 DEF Follows
<1>3. \A m \in Nat : m \in T => m + 1 \in T
  BY <1>2
<1> HIDE DEF T
<1>4. \A m \in Nat : m \in T
  BY <1>1, <1>3, SetInduction
<1>5. QED
  BY <1>4 DEF T

\* All values of a function are where its steps lead.
LEMMA RecursionType ==
  ASSUME NEW V, NEW n \in Nat, NEW f, f[0] \in V,
         \A i \in 1 .. n : f[i - 1] \in V => f[i] \in V
  PROVE  \A i \in 0 .. n : f[i] \in V
<1> DEFINE T == {m \in Nat : m <= n => f[m] \in V}
<1>1. 0 \in T
  OBVIOUS
<1>2. ASSUME NEW m \in Nat, m \in T, m + 1 <= n PROVE f[m + 1] \in V
  <2>1. f[m] \in V /\ m + 1 \in 1 .. n /\ (m + 1) - 1 = m
    BY <1>2
  <2>2. QED
    BY <2>1
<1>3. \A m \in Nat : m \in T => m + 1 \in T
  BY <1>2
<1> HIDE DEF T
<1>4. \A m \in Nat : m \in T
  BY <1>1, <1>3, SetInduction
<1>5. QED
  BY <1>4 DEF T
=============================================================================

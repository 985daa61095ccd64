--------------------------- MODULE DataInduction ---------------------------
(***************************************************************************)
(* Induction over data.  The library's induction theorems take a predicate *)
(* as a parameter; these take a set of numbers instead, so that a proof    *)
(* cites them with the set of the numbers for which it holds.              *)
(***************************************************************************)
EXTENDS Integers, FiniteSetTheorems, TLAPS

(* Every set of naturals that is not empty has a least element.            *)
LEMMA LeastNatural ==
  ASSUME NEW T \in SUBSET Nat, T # {}
  PROVE  \E n \in T : \A m \in T : n <= m
<1>1. PICK n \in T : \A m \in T : ~(<<m, n>> \in OpToRel(<, Nat))
  BY NatLessThanWellFounded, WFMin
<1>2. \A m \in T : m < n => <<m, n>> \in OpToRel(<, Nat)
  BY DEF OpToRel
<1>3. \A m \in T : ~(m < n)
  BY <1>1, <1>2, Zenon
<1>4. QED
  BY ONLY <1>3, T \in SUBSET Nat, n \in T

(* What holds of a number whenever it holds of all smaller ones holds.     *)
LEMMA Induction ==
  ASSUME NEW n \in Nat, NEW S,
         \A i \in 0..n : (\A k \in 0..(i - 1) : k \in S) => i \in S
  PROVE  \A i \in 0..n : i \in S
<1>1. SUFFICES ASSUME \E i \in 0..n : i \notin S PROVE FALSE
  OBVIOUS
<1>. DEFINE Bad == {i \in 0..n : i \notin S}
<1>2. PICK least \in Bad : \A m \in Bad : least <= m
  <2>1. Bad \in SUBSET Nat /\ Bad # {}
    BY <1>1
  <2>. HIDE DEF Bad
  <2>2. QED
    BY <2>1, LeastNatural
<1>3. \A k \in 0..(least - 1) : k \in S
  BY <1>2
<1>4. QED
  BY <1>2, <1>3

(* A bounded set of naturals that is not empty has a greatest element.     *)
LEMMA GreatestNatural ==
  ASSUME NEW b \in Nat, NEW T \in SUBSET (0..b), T # {}
  PROVE  \E n \in T : \A m \in T : m <= n
<1>. DEFINE Bounds == {i \in Nat : \A m \in T : m <= i}
<1>1. Bounds \in SUBSET Nat /\ b \in Bounds
  OBVIOUS
<1>. HIDE DEF Bounds
<1>2. PICK n \in Bounds : \A i \in Bounds : n <= i
  BY <1>1, LeastNatural
<1>3. n \in Nat /\ \A m \in T : m <= n
  BY <1>2 DEF Bounds
<1>4. n \in T
  <2>1. SUFFICES ASSUME n \notin T PROVE FALSE
    OBVIOUS
  <2>2. n - 1 \in Nat /\ \A m \in T : m <= n - 1
    <3>1. PICK m \in T : TRUE
      OBVIOUS
    <3>2. m \in Nat /\ m <= n /\ m # n
      BY <1>3, <2>1, <3>1
    <3>3. QED
      BY <1>3, <2>1, <3>2
  <2>3. n - 1 \in Bounds
    BY <2>2 DEF Bounds
  <2>4. QED
    BY <1>2, <1>3, <2>3
<1>5. QED
  BY <1>3, <1>4

(* There is a function that is defined by its value at 0 and by a step.    *)
Follows(f, n, c, step) == f[0] = c /\ \A i \in 1..n : f[i] = step[i][f[i - 1]]

LEMMA Recursion ==
  \A n \in Nat : \A S : \A c \in S : \A step \in [1..n -> [S -> S]] :
    \E f \in [0..n -> S] : Follows(f, n, c, step)
<1>. SUFFICES ASSUME NEW n \in Nat, NEW S, NEW c \in S, NEW step \in [1..n -> [S -> S]]
              PROVE  \E f \in [0..n -> S] : Follows(f, n, c, step)
  OBVIOUS
<1>. DEFINE Up(i, f) == f[0] = c /\ \A k \in 1..i : f[k] = step[k][f[k - 1]]
            Good == {i \in 0..n : \E f \in [0..i -> S] : Up(i, f)}
<1>1. ASSUME NEW i \in 0..n, \A k \in 0..(i - 1) : k \in Good
      PROVE  i \in Good
  <2>1. CASE i = 0
    <3>1. [k \in 0..0 |-> c] \in [0..0 -> S] /\ Up(0, [k \in 0..0 |-> c])
      OBVIOUS
    <3>2. QED
      BY <2>1, <3>1
  <2>2. CASE i # 0
    <3>1. PICK f \in [0..(i - 1) -> S] : Up(i - 1, f)
      <4>1. i - 1 \in Good
        <5>1. i - 1 \in 0..(i - 1)
          BY <2>2
        <5>. HIDE DEF Good
        <5>2. QED
          BY <1>1, <5>1
      <4>2. QED
        BY <4>1
    <3>. DEFINE g == [k \in 0..i |-> IF k = i THEN step[i][f[i - 1]] ELSE f[k]]
    <3>2. f[i - 1] \in S /\ step[i][f[i - 1]] \in S
      BY <2>2, <3>1
    <3>3. g \in [0..i -> S]
      BY <3>2, <3>1
    <3>4. Up(i, g)
      <4>1. g[0] = c
        BY <2>2, <3>1
      <4>2. ASSUME NEW k \in 1..i PROVE g[k] = step[k][g[k - 1]]
        <5>1. CASE k = i
          BY <2>2, <5>1
        <5>2. CASE k # i
          BY <2>2, <3>1, <5>2
        <5>3. QED
          BY <5>1, <5>2
      <4>3. QED
        BY <4>1, <4>2
    <3>5. QED
      BY <3>3, <3>4
  <2>3. QED
    BY <2>1, <2>2
<1>2. n \in Good
  <2>. HIDE DEF Good
  <2>1. \A i \in 0..n : (\A k \in 0..(i - 1) : k \in Good) => i \in Good
    BY <1>1
  <2>2. \A i \in 0..n : i \in Good
    BY <2>1, Induction
  <2>3. QED
    BY <2>2
<1>3. QED
  BY <1>2 DEF Follows
=============================================================================

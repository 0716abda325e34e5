------------------------------ MODULE Recursion ------------------------------
(***************************************************************************)
(* Induction over the natural numbers for the provers that are installed,  *)
(* which cannot instantiate a theorem about an operator: it is stated of a *)
(* set.  With it the functions that the modules define by recursion can be *)
(* shown to exist, and what they compute to follow from their equations.   *)
(***************************************************************************)
EXTENDS Integers, Sequences, SequencesExt, SequenceTheorems, WellFoundedInduction, TLAPS

\* A set that holds 0 and the successor of each of its members holds every number.
LEMMA NatSetInduction ==
    ASSUME NEW S, 0 \in S, \A n \in Nat : n \in S => n + 1 \in S
    PROVE  Nat \subseteq S
<1> DEFINE T == Nat \ S
           R == OpToRel(<, Nat)
<1>1. SUFFICES ASSUME T # {} PROVE FALSE
  OBVIOUS
<1>2. IsWellFoundedOn(R, Nat)
  BY NatLessThanWellFounded
<1>3. PICK x \in T : \A y \in T : ~ (<<y, x>> \in R)
  <2> HIDE DEF R
  <2> QED BY <1>1, <1>2, WFMin
<1>4. \A y \in T : ~ (y < x)
  BY <1>3 DEF OpToRel
<1>5. x # 0
  BY DEF T
<1>6. x - 1 \in Nat /\ x - 1 < x
  BY <1>5
<1>7. x - 1 \in S
  BY <1>6, <1>4
<1> QED BY <1>7, <1>6

\* The same up to a bound.
LEMMA RangeInduction ==
    ASSUME NEW N \in Nat, NEW S, 0 \in S,
           \A n \in 0 .. N - 1 : n \in S => n + 1 \in S
    PROVE  0 .. N \subseteq S
<1> DEFINE T == {n \in Nat : n <= N => n \in S}
<1>1. 0 \in T
  OBVIOUS
<1>2. \A n \in Nat : n \in T => n + 1 \in T
  OBVIOUS
<1>3. Nat \subseteq T
  <2> HIDE DEF T
  <2> QED BY <1>1, <1>2, NatSetInduction
<1> QED BY <1>3

IsStep(step, S, N) == step \in [S \X (1 .. N) -> S]
Follows(g, step, a, N) == g[0] = a /\ \A n \in 1 .. N : g[n] = step[<<g[n - 1], n>>]

\* There is a function that begins at a and goes on by step.
LEMMA Iteration ==
    ASSUME NEW N, N \in Nat, NEW S, NEW a, a \in S, NEW step, IsStep(step, S, N)
    PROVE  \E g : g \in [0 .. N -> S] /\ Follows(g, step, a, N)
<1> USE DEF IsStep, Follows
<1> DEFINE Good(k, g) == /\ g[0] = a
                         /\ \A n \in 1 .. k : g[n] = step[<<g[n - 1], n>>]
           T == {k \in 0 .. N : \E g \in [0 .. k -> S] : Good(k, g)}
<1>1. 0 \in T
  <2> DEFINE g0 == [n \in 0 .. 0 |-> a]
  <2>1. g0 \in [0 .. 0 -> S] /\ Good(0, g0)
    OBVIOUS
  <2> HIDE DEF g0, Good
  <2> QED BY <2>1
<1>2. ASSUME NEW k \in 0 .. N - 1, k \in T PROVE k + 1 \in T
  <2>1. PICK g \in [0 .. k -> S] : Good(k, g)
    BY <1>2
  <2> DEFINE h == [n \in 0 .. k + 1 |-> IF n = k + 1 THEN step[<<g[k], n>>] ELSE g[n]]
  <2>2. step[<<g[k], k + 1>>] \in S
    BY <2>1
  <2>3. h \in [0 .. k + 1 -> S]
    BY <2>1, <2>2
  <2>4. h[0] = a /\ \A n \in 1 .. k + 1 : h[n] = step[<<h[n - 1], n>>]
    BY <2>1
  <2>5. Good(k + 1, h)
    BY <2>4
  <2> HIDE DEF h, Good
  <2> QED BY <2>3, <2>5
<1>3. N \in T
  <2>1. 0 .. N \subseteq T
    <3> HIDE DEF T
    <3> QED BY <1>1, <1>2, RangeInduction
  <2> QED BY <2>1
<1>4. PICK g \in [0 .. N -> S] : Good(N, g)
  BY <1>3
<1> QED BY <1>4

\* The greatest member of a set that has the greatest member it may have.
LEMMA MaxTop ==
    ASSUME NEW n \in Int, NEW s \in SUBSET Int, n \in s, \A y \in s : y <= n
    PROVE  Max(s) = n
<1>1. \A x \in s : (\A y \in s : x >= y) => x = n
  OBVIOUS
<1> QED BY <1>1 DEF Max
=============================================================================

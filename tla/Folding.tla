------------------------------ MODULE Folding -------------------------------
(***************************************************************************)
(* What a loop over a sequence keeps.  Op(a, x, y) is the body of the      *)
(* loop, for the element y of the sequence and the state x, where a is     *)
(* whatever else it depends on; P(a, w, k, x) is what holds of the state   *)
(* after k elements, and w is whatever else it depends on.  A proof        *)
(* instantiates the module with operators of its own for Op and P, and     *)
(* shows Folded to be the FoldLeft of its specification.                   *)
(***************************************************************************)
EXTENDS Integers, SequencesExt, WellFoundedInduction, TLAPS

CONSTANTS Op(_, _, _), P(_, _, _, _)

Folded(a, base, s) == FoldLeft(LAMBDA x, y : Op(a, x, y), base, s)

-----------------------------------------------------------------------------
(* Induction on naturals.                                                    *)

(* The naturals under < in the form the theorem on minimal elements wants. *)
LEMMA NatOrder ==
  \E R : /\ IsWellFoundedOn(R, Nat)
         /\ \A x, y \in Nat : x < y => <<x, y>> \in R
<1> DEFINE R == {ss \in Nat \X Nat : ss[1] < ss[2]}
<1>1. IsWellFoundedOn(OpToRel(<, Nat), Nat)
  BY NatLessThanWellFounded
<1>2. OpToRel(<, Nat) = R
  BY DEF OpToRel
<1>3. \A x, y \in Nat : x < y => <<x, y>> \in R
  OBVIOUS
<1> QED BY <1>1, <1>2, <1>3

(* A nonempty set of naturals has a least element.                         *)
LEMMA LeastNat ==
  ASSUME NEW S, S \subseteq Nat, S # {}
  PROVE  \E x \in S : \A y \in S : x <= y
<1>1. PICK R : /\ IsWellFoundedOn(R, Nat)
               /\ \A x, y \in Nat : x < y => <<x, y>> \in R
  BY NatOrder
<1>2. IsWellFoundedOn(R, Nat)
  BY <1>1
<1>3. PICK x \in S : \A y \in S : ~(<<y, x>> \in R)
  BY <1>2, WFMin, Zenon
<1>4. \A y \in S : x \in Nat /\ y \in Nat /\ ~(y < x)
  BY <1>1, <1>3
<1> QED BY <1>4

(* Induction along a recursion of n steps.                                 *)
LEMMA StepsInduction ==
  ASSUME NEW n \in Nat, NEW T, 0 \in T,
         \A k \in 1 .. n : k - 1 \in T => k \in T
  PROVE  \A k \in 0 .. n : k \in T
<1> DEFINE Bad == {k \in 0 .. n : k \notin T}
<1>1. SUFFICES ASSUME Bad # {} PROVE FALSE
  OBVIOUS
<1>2. Bad \subseteq Nat
  OBVIOUS
<1>3. PICK x \in Bad : \A y \in Bad : x <= y
  <2> HIDE DEF Bad
  <2> QED BY <1>1, <1>2, LeastNat
<1>4. x \in 1 .. n /\ x - 1 \in 0 .. n /\ x - 1 \notin Bad
  BY <1>3
<1> QED BY <1>3, <1>4

-----------------------------------------------------------------------------
(* The recursion behind FoldLeft, for the sets of the first m indices.       *)
Greatest(t) == Max(t)
Iter(a, base, s, m, g) ==
  g = [t \in SUBSET (1 .. m) |->
         IF t = {} THEN base ELSE Op(a, g[t \ {Greatest(t)}], s[Greatest(t)])]

(* m is the greatest of the numbers up to m, if it is among them.          *)
LEMMA GreatestIs ==
  ASSUME NEW m \in Nat, NEW t \in SUBSET (1 .. m), m \in t
  PROVE  Greatest(t) = m
<1>1. \A x \in t : x \in Int /\ x <= m
  OBVIOUS
<1>2. \E x \in t : \A y \in t : x >= y
  BY <1>1
<1>3. Greatest(t) \in t /\ \A y \in t : Greatest(t) >= y
  BY <1>2 DEF Greatest, Max
<1>4. Greatest(t) \in Int /\ Greatest(t) <= m /\ Greatest(t) >= m
  BY <1>1, <1>3
<1> QED BY <1>4

(* The recursion has a solution.                                           *)
LEMMA IterDefined ==
  ASSUME NEW a, NEW base, NEW s, NEW n \in Nat
  PROVE  \E g : Iter(a, base, s, n, g)
<1> DEFINE Good == {m \in 0 .. n : \E g : Iter(a, base, s, m, g)}
<1>1. 0 \in Good
  <2> DEFINE g == [t \in SUBSET (1 .. 0) |-> base]
  <2>1. Iter(a, base, s, 0, g)
    <3>1. SUBSET (1 .. 0) = {{}} OBVIOUS
    <3> QED BY <3>1 DEF Iter
  <2> HIDE DEF g
  <2> QED BY <2>1
<1>2. \A m \in 1 .. n : m - 1 \in Good => m \in Good
  <2> SUFFICES ASSUME NEW m \in 1 .. n, m - 1 \in Good PROVE m \in Good
    OBVIOUS
  <2>1. PICK g : Iter(a, base, s, m - 1, g)
    OBVIOUS
  <2> DEFINE h == [t \in SUBSET (1 .. m) |->
                     IF m \in t THEN Op(a, g[t \ {m}], s[m]) ELSE g[t]]
             H(t) == IF t = {} THEN base
                     ELSE Op(a, h[t \ {Greatest(t)}], s[Greatest(t)])
  <2>2. ASSUME NEW t \in SUBSET (1 .. m) PROVE h[t] = H(t)
    <3>1. CASE m \in t
      <4>1. Greatest(t) = m BY <3>1, GreatestIs
      <4>2. t \ {m} \in SUBSET (1 .. m) /\ m \notin t \ {m} /\ t # {} BY <3>1
      <4>3. h[t \ {m}] = g[t \ {m}] BY <4>2
      <4>4. h[t] = Op(a, g[t \ {m}], s[m]) BY <3>1
      <4>5. H(t) = Op(a, h[t \ {m}], s[m]) BY <4>1, <4>2
      <4> QED BY <4>3, <4>4, <4>5
    <3>2. CASE m \notin t
      <4>1. t \in SUBSET (1 .. m - 1) BY <3>2
      <4>2. h[t] = g[t] BY <3>2
      <4>3. CASE t = {}
        <5>1. g[t] = base BY <2>1, <4>1, <4>3 DEF Iter
        <5> QED BY <4>2, <5>1, <4>3
      <4>4. CASE t # {}
        <5>1. t \ {Greatest(t)} \in SUBSET (1 .. m) /\ m \notin t \ {Greatest(t)}
          BY <3>2
        <5>2. h[t \ {Greatest(t)}] = g[t \ {Greatest(t)}] BY <5>1
        <5>3. g[t] = Op(a, g[t \ {Greatest(t)}], s[Greatest(t)])
          <6> HIDE DEF h
          <6> QED BY <2>1, <4>1, <4>4 DEF Iter
        <5>4. H(t) = Op(a, h[t \ {Greatest(t)}], s[Greatest(t)]) BY <4>4
        <5> QED BY <4>2, <5>2, <5>3, <5>4
      <4> QED BY <4>3, <4>4
    <3> QED BY <3>1, <3>2
  <2>3. h = [t \in SUBSET (1 .. m) |-> h[t]]
    OBVIOUS
  <2>4. Iter(a, base, s, m, h)
    <3>1. [t \in SUBSET (1 .. m) |-> h[t]] = [t \in SUBSET (1 .. m) |-> H(t)]
      <4> HIDE DEF h, H
      <4> QED BY <2>2
    <3>2. h = [t \in SUBSET (1 .. m) |-> H(t)]
      <4> HIDE DEF h, H
      <4> QED BY <2>3, <3>1
    <3> HIDE DEF h
    <3> QED BY <3>2 DEF Iter
  <2> HIDE DEF h
  <2> QED BY <2>4
<1>3. \A m \in 0 .. n : m \in Good
  <2> HIDE DEF Good
  <2> QED BY <1>1, <1>2, StepsInduction
<1> QED BY <1>3

(* What holds before the loop and is carried through every turn holds after it. *)
THEOREM Loop ==
  ASSUME NEW a, NEW w, NEW base, NEW s, NEW n \in Nat, DOMAIN s = 1 .. n,
         P(a, w, 0, base),
         \A k \in 1 .. n : \A x : P(a, w, k - 1, x) => P(a, w, k, Op(a, x, s[k]))
  PROVE  P(a, w, n, Folded(a, base, s))
<1> DEFINE g == CHOOSE f : Iter(a, base, s, n, f)
<1>1. Iter(a, base, s, n, g)
  BY IterDefined
<1>2. Folded(a, base, s) = g[1 .. n]
  BY DEF Folded, FoldLeft, MapThenFoldSet, Iter, Greatest
<1> HIDE DEF g
<1> DEFINE Good == {k \in 0 .. n : P(a, w, k, g[1 .. k])}
<1>3. 0 \in Good
  <2>1. 1 .. 0 = {} /\ {} \in SUBSET (1 .. n) OBVIOUS
  <2>2. g[{}] = base BY <1>1, <2>1 DEF Iter
  <2> QED BY <2>1, <2>2
<1>4. \A k \in 1 .. n : k - 1 \in Good => k \in Good
  <2> SUFFICES ASSUME NEW k \in 1 .. n, k - 1 \in Good PROVE k \in Good
    OBVIOUS
  <2>1. /\ 1 .. k \in SUBSET (1 .. n) /\ k \in 1 .. k /\ k \in Nat
        /\ 1 .. k \in SUBSET (1 .. k)
    OBVIOUS
  <2>2. Greatest(1 .. k) = k
    BY <2>1, GreatestIs
  <2>3. (1 .. k) \ {k} = 1 .. k - 1
    OBVIOUS
  <2>4. g[1 .. k] = Op(a, g[(1 .. k) \ {k}], s[k])
    <3>1. 1 .. k # {} BY <2>1
    <3> QED BY <1>1, <2>1, <2>2, <3>1 DEF Iter
  <2>5. P(a, w, k, Op(a, g[1 .. k - 1], s[k]))
    <3>1. P(a, w, k - 1, g[1 .. k - 1]) OBVIOUS
    <3> QED BY <3>1
  <2>6. g[1 .. k] = Op(a, g[1 .. k - 1], s[k])
    BY <2>3, <2>4
  <2>7. P(a, w, k, g[1 .. k])
    BY <2>5, <2>6, Zenon
  <2> QED BY <2>7
<1>5. \A k \in 0 .. n : k \in Good
  <2> HIDE DEF Good
  <2> QED BY <1>3, <1>4, StepsInduction
<1> QED BY <1>2, <1>5
=============================================================================

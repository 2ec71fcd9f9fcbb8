------------------------------- MODULE FoldFacts -------------------------------
(***************************************************************************)
(* What a left fold over a sequence computes, by induction on the elements *)
(* folded so far.                                                          *)
(*                                                                         *)
(* A theorem cannot be given an operator for a parameter here, but a       *)
(* module can: INSTANCE FoldFacts WITH Combine <- ..., Holds <- ... states *)
(* the rule for the fold and the loop invariant at hand.  Both take the    *)
(* parameters of the definition the fold stands in as one value, c.        *)
(***************************************************************************)
EXTENDS SequencesExt, NaturalsInduction, WellFoundedInduction, TLAPS

CONSTANTS
  Combine(_, _, _),   \* c, the value so far, the next element
  Holds(_, _, _, _)   \* c, the sequence, how many are folded, the value so far

Fold(c, base, seq) == FoldLeft(LAMBDA v, x : Combine(c, v, x), base, seq)

(***************************************************************************)
(* Induction, for a set instead of a predicate.                            *)
(***************************************************************************)

\* A set that holds 0 and the successor of each of its members holds every
\* natural number: one that was missing would be preceded by a smaller one.
LEMMA NatSetInduction ==
  ASSUME NEW T, 0 \in T, \A n \in Nat : n \in T => n + 1 \in T
  PROVE  \A n \in Nat : n \in T
<1> DEFINE Bad == {n \in Nat : n \notin T}
<1>1. SUFFICES ASSUME Bad # {}
               PROVE  FALSE
  OBVIOUS
<1>2. PICK x \in Bad : \A y \in Bad : <<y, x>> \notin OpToRel(<, Nat)
  BY <1>1, WFMin, NatLessThanWellFounded
<1>3. \A y \in Bad : ~(y < x)
  BY <1>2 DEF OpToRel
<1>4. x # 0 /\ x - 1 \in Nat /\ x = (x - 1) + 1
  OBVIOUS
<1>5. x - 1 \in T
  BY <1>3, <1>4
<1> QED
  BY <1>4, <1>5

(***************************************************************************)
(* The recursive function behind FoldLeft exists.                          *)
(***************************************************************************)
Folds(c, base, seq, D, g) ==
  g = [s \in SUBSET D |->
         IF s = {} THEN base ELSE Combine(c, g[s \ {Max(s)}], seq[Max(s)])]

\* The greatest element of a set of numbers up to n + 1 that has n + 1.
LEMMA MaxOfInterval ==
  ASSUME NEW n \in Nat, NEW s, s \subseteq 1 .. n + 1, n + 1 \in s
  PROVE  Max(s) = n + 1
<1>1. \A y \in s : n + 1 >= y
  OBVIOUS
<1>2. ASSUME NEW x \in s, \A y \in s : x >= y
      PROVE  x = n + 1
  <2>1. x >= n + 1 /\ x \in 1 .. n + 1
    BY <1>2
  <2> QED
    BY <2>1
<1> QED
  BY <1>1, <1>2 DEF Max

\* One more element: the function for n of them extends to one for n + 1.
LEMMA FoldExtends ==
  ASSUME NEW c, NEW base, NEW seq, NEW n \in Nat, NEW g, Folds(c, base, seq, 1 .. n, g)
  PROVE  \E h : Folds(c, base, seq, 1 .. n + 1, h)
<1> DEFINE h == [s \in SUBSET (1 .. n + 1) |->
                   IF n + 1 \in s THEN Combine(c, g[s \ {n + 1}], seq[n + 1]) ELSE g[s]]
<1>1. ASSUME NEW s \in SUBSET (1 .. n + 1)
      PROVE  h[s] = IF s = {} THEN base ELSE Combine(c, h[s \ {Max(s)}], seq[Max(s)])
  <2>1. CASE n + 1 \in s
    <3>1. s \ {n + 1} \subseteq 1 .. n
      OBVIOUS
    <3>2. Max(s) = n + 1
      BY <2>1, MaxOfInterval
    <3>3. h[s \ {n + 1}] = g[s \ {n + 1}]
      BY <3>1
    <3> QED
      BY <2>1, <3>2, <3>3
  <2>2. CASE n + 1 \notin s
    <3>1. s \in SUBSET (1 .. n) /\ h[s] = g[s]
      BY <2>2
    <3>2. s \ {Max(s)} \in SUBSET (1 .. n)
      BY <3>1
    <3>3. h[s \ {Max(s)}] = g[s \ {Max(s)}]
      BY <3>2
    <3> QED
      BY <3>1, <3>2, <3>3 DEF Folds
  <2> QED
    BY <2>1, <2>2
<1>2. Folds(c, base, seq, 1 .. n + 1, h)
  BY <1>1 DEF Folds
<1> QED
  BY <1>2

\* So it exists for every n.
LEMMA FoldExists ==
  ASSUME NEW c, NEW base, NEW seq, NEW n \in Nat
  PROVE  \E h : Folds(c, base, seq, 1 .. n, h)
<1> DEFINE T == {k \in Nat : \E h : Folds(c, base, seq, 1 .. k, h)}
<1>1. 0 \in T
  <2>1. Folds(c, base, seq, 1 .. 0, [s \in {{}} |-> base])
    BY DEF Folds
  <2> QED
    BY <2>1
<1>2. \A k \in Nat : k \in T => k + 1 \in T
  BY FoldExtends
<1>3. \A k \in Nat : k \in T
  <2> HIDE DEF T
  <2> QED
    BY <1>1, <1>2, NatSetInduction
<1> QED
  BY <1>3

LEMMA FoldIs ==
  ASSUME NEW c, NEW base, NEW seq
  PROVE  Fold(c, base, seq) = (CHOOSE g : Folds(c, base, seq, DOMAIN seq, g))[DOMAIN seq]
BY DEF Fold, FoldLeft, MapThenFoldSet, Folds

(***************************************************************************)
(* The rule.                                                               *)
(***************************************************************************)

\* What holds of the base with nothing folded, and is kept when one more
\* element is, holds of the fold of the whole sequence.
LEMMA FoldInduction ==
  ASSUME NEW c, NEW base, NEW seq, NEW n \in Nat, DOMAIN seq = 1 .. n,
         Holds(c, seq, 0, base),
         \A i \in 1 .. n : \A v :
           Holds(c, seq, i - 1, v) => Holds(c, seq, i, Combine(c, v, seq[i]))
  PROVE  Holds(c, seq, n, Fold(c, base, seq))
<1> DEFINE g == CHOOSE g : Folds(c, base, seq, 1 .. n, g)
           T == {k \in Nat : k <= n => Holds(c, seq, k, g[1 .. k])}
<1>1. Folds(c, base, seq, 1 .. n, g)
  BY FoldExists
<1>2. 0 \in T
  <2>1. g[{}] = base
    BY <1>1 DEF Folds
  <2> QED
    BY <2>1
<1>3. ASSUME NEW k \in Nat, k \in T
      PROVE  k + 1 \in T
  <2> SUFFICES ASSUME k + 1 <= n
               PROVE  Holds(c, seq, k + 1, g[1 .. k + 1])
    OBVIOUS
  <2>1. /\ 1 .. k + 1 \in SUBSET (1 .. n) /\ 1 .. k + 1 # {}
        /\ Max(1 .. k + 1) = k + 1
        /\ (1 .. k + 1) \ {k + 1} = 1 .. k
    BY MaxOfInterval
  <2>2. g[1 .. k + 1] = Combine(c, g[1 .. k], seq[k + 1])
    BY <1>1, <2>1 DEF Folds
  <2>3. Holds(c, seq, k, g[1 .. k]) /\ k + 1 \in 1 .. n /\ (k + 1) - 1 = k
    BY <1>3
  <2> QED
    BY <2>2, <2>3
<1>4. n \in T
  <2> HIDE DEF T
  <2> QED
    BY <1>2, <1>3, NatSetInduction
<1>5. 1 .. n = DOMAIN seq /\ Fold(c, base, seq) = g[1 .. n]
  BY FoldIs
<1> QED
  BY <1>4, <1>5
================================================================================

---------------------------- MODULE FoldTheorems ----------------------------
(***************************************************************************)
(* Induction over a fold.  The loops of the program are FoldLeft over a    *)
(* sequence in the model; what holds of the result is shown with a loop    *)
(* invariant.  The step of the loop and the invariant are the parameters   *)
(* of this module: a proof about one loop INSTANCEs it with its own.       *)
(***************************************************************************)
EXTENDS Integers, Sequences, WellFoundedInduction, TLAPS

CONSTANTS
  op(_, _, _),    \* op(par, r, x): what a turn of the loop makes of r with x
  Inv(_, _, _)    \* Inv(par, i, r): what holds of r after i turns

(* FoldLeft of module SequencesExt with its definition expanded: the fold  *)
(* over the first k elements is iter[1 .. k].                              *)
Highest(S) == CHOOSE x \in S : \A y \in S : x >= y
Step(par, base, seq, g, s) ==
  IF s = {} THEN base ELSE op(par, g[s \ {Highest(s)}], seq[Highest(s)])
Folded(par, base, seq) ==
  LET iter[s \in SUBSET DOMAIN seq] == Step(par, base, seq, iter, s)
  IN  iter[DOMAIN seq]

-----------------------------------------------------------------------------
(* Every nonempty set of naturals has a least member.                      *)
LEMMA LeastNat ==
  ASSUME NEW T \in SUBSET Nat, T # {}
  PROVE  \E x \in T : \A y \in T : x <= y
<1>1. PICK x \in T : \A y \in T : ~(<<y, x>> \in OpToRel(<, Nat))
  BY NatLessThanWellFounded, WFMin
<1>2. \A y \in T : ~(y < x)
  BY <1>1 DEF OpToRel
<1>3. QED
  BY <1>2

(* Highest is the last index of a nonempty set of indices, in any prefix.  *)
LEMMA HighestUpTo ==
  ASSUME NEW k \in Nat, NEW s \in SUBSET (1 .. k), s # {}
  PROVE  /\ Highest(s) \in s
         /\ k \in s => Highest(s) = k
<1>. DEFINE T == {k - x : x \in s}
<1>1. T \in SUBSET Nat /\ T # {}
  <2>1. \A x \in s : k - x \in Nat
    OBVIOUS
  <2>2. QED
    BY <2>1
<1>2. PICK t \in T : \A y \in T : t <= y
  BY <1>1, LeastNat
<1>3. PICK m \in s : t = k - m
  BY <1>2
<1>4. \A y \in s : m >= y
  <2>. TAKE y \in s
  <2>1. k - y \in T
    OBVIOUS
  <2>2. t <= k - y
    BY <1>2, <2>1
  <2>3. m \in Int /\ y \in Int
    OBVIOUS
  <2>. HIDE DEF T
  <2>4. QED
    BY <1>3, <2>2, <2>3
<1>5. Highest(s) \in s /\ \A y \in s : Highest(s) >= y
  BY <1>4 DEF Highest
<1>6. k \in s => Highest(s) >= k
  BY <1>5
<1>7. Highest(s) \in 1 .. k
  BY <1>5
<1>8. QED
  BY <1>5, <1>6, <1>7

(* The recursion of the fold has a solution, by induction over the length  *)
(* of the prefix.                                                          *)
LEMMA FoldExists ==
  ASSUME NEW par, NEW base, NEW seq
  PROVE  \A k \in Nat : \E g : g = [s \in SUBSET (1 .. k) |-> Step(par, base, seq, g, s)]
<1>. DEFINE Good(k) == \E g : g = [s \in SUBSET (1 .. k) |-> Step(par, base, seq, g, s)]
            T == {k \in Nat : ~Good(k)}
<1>. SUFFICES ASSUME T # {} PROVE FALSE
  OBVIOUS
<1>1. PICK k \in T : \A j \in T : k <= j
  BY LeastNat
<1>2. CASE k = 0
  <2>. DEFINE g == [s \in SUBSET (1 .. 0) |-> base]
  <2>1. \A s \in SUBSET (1 .. 0) : s = {}
    OBVIOUS
  <2>2. g = [s \in SUBSET (1 .. 0) |-> Step(par, base, seq, g, s)]
    BY <2>1 DEF Step
  <2>3. QED
    BY <1>2, <2>2
<1>3. CASE k # 0
  <2>0. k \in Nat /\ k - 1 \in Nat /\ k - 1 \notin T
    <3>. HIDE DEF Good
    <3>1. k \in Nat /\ k - 1 \in Nat /\ ~(k <= k - 1)
      BY <1>3
    <3>2. QED
      BY <1>1, <3>1
  <2>1. PICK g : g = [s \in SUBSET (1 .. k - 1) |-> Step(par, base, seq, g, s)]
    BY <2>0
  <2>. DEFINE h == [s \in SUBSET (1 .. k) |-> IF k \in s THEN op(par, g[s \ {k}], seq[k]) ELSE g[s]]
  <2>2. ASSUME NEW s \in SUBSET (1 .. k) PROVE h[s] = Step(par, base, seq, h, s)
    <3>1. CASE k \in s
      <4>1. Highest(s) = k
        BY <2>0, <3>1, HighestUpTo
      <4>2. s \ {k} \in SUBSET (1 .. k) /\ h[s \ {k}] = g[s \ {k}]
        OBVIOUS
      <4>3. QED
        BY <3>1, <4>1, <4>2 DEF Step
    <3>2. CASE k \notin s
      <4>1. s \in SUBSET (1 .. k - 1)
        BY <2>0, <3>2
      <4>2. h[s] = Step(par, base, seq, g, s)
        BY <2>1, <3>2, <4>1
      <4>3. CASE s = {}
        BY <4>2, <4>3 DEF Step
      <4>4. CASE s # {}
        <5>1. h[s \ {Highest(s)}] = g[s \ {Highest(s)}]
          BY <3>2
        <5>2. QED
          BY <4>2, <4>4, <5>1 DEF Step
      <4>5. QED
        BY <4>3, <4>4
    <3>3. QED
      BY <3>1, <3>2
  <2>3. h = [s \in SUBSET (1 .. k) |-> Step(par, base, seq, h, s)]
    <3>. HIDE DEF h
    <3>1. h = [s \in SUBSET (1 .. k) |-> h[s]]
      BY DEF h
    <3>2. QED
      BY <2>2, <3>1
  <2>4. QED
    BY <1>1, <2>3
<1>4. QED
  BY <1>2, <1>3

(* A loop keeps its invariant: if it holds before the first turn and every *)
(* turn keeps it, it holds of the result of the loop.                      *)
THEOREM FoldInvariant ==
  ASSUME NEW S, NEW seq \in Seq(S), NEW par, NEW base,
         Inv(par, 0, base),
         \A i \in 1 .. Len(seq) : \A r : Inv(par, i - 1, r) => Inv(par, i, op(par, r, seq[i]))
  PROVE  Inv(par, Len(seq), Folded(par, base, seq))
<1>. DEFINE n == Len(seq)
            iter == CHOOSE g : g = [s \in SUBSET DOMAIN seq |-> Step(par, base, seq, g, s)]
<1>1. n \in Nat /\ DOMAIN seq = 1 .. n
  OBVIOUS
<1>2. Folded(par, base, seq) = iter[DOMAIN seq]
  BY DEF Folded
<1>3. iter = [s \in SUBSET (1 .. n) |-> Step(par, base, seq, iter, s)]
  BY <1>1, FoldExists
<1>. HIDE DEF iter
<1>. DEFINE T == {k \in 0 .. n : ~Inv(par, k, iter[1 .. k])}
<1>4. ASSUME T # {} PROVE FALSE
  <2>0. T \in SUBSET Nat
    BY <1>1
  <2>1. PICK k \in T : \A j \in T : k <= j
    BY <1>4, <2>0, LeastNat
  <2>2. CASE k = 0
    <3>1. iter[1 .. 0] = base
      BY <1>1, <1>3 DEF Step
    <3>2. QED
      BY <2>1, <2>2, <3>1
  <2>3. CASE k # 0
    <3>1. k \in 1 .. n /\ k - 1 \in 0 .. n /\ k - 1 \notin T
      BY <1>1, <2>1, <2>3
    <3>2. Highest(1 .. k) = k /\ 1 .. k # {} /\ (1 .. k) \ {k} = 1 .. (k - 1)
      <4>1. k \in Nat /\ k \in 1 .. k
        BY <1>1, <3>1
      <4>2. 1 .. k \in SUBSET (1 .. k)
        OBVIOUS
      <4>3. Highest(1 .. k) = k
        BY <4>1, <4>2, HighestUpTo
      <4>4. 1 .. k # {}
        BY <4>1
      <4>5. (1 .. k) \ {k} = 1 .. (k - 1)
        BY <4>1
      <4>6. QED
        BY <4>3, <4>4, <4>5
    <3>3. iter[1 .. k] = op(par, iter[1 .. (k - 1)], seq[k])
      <4>1. 1 .. k \in SUBSET (1 .. n)
        BY <1>1, <3>1
      <4>2. iter[1 .. k] = Step(par, base, seq, iter, 1 .. k)
        BY <1>3, <4>1
      <4>3. QED
        BY <3>2, <4>2 DEF Step
    <3>4. Inv(par, k - 1, iter[1 .. (k - 1)])
      BY <3>1
    <3>5. QED
      BY <2>1, <3>1, <3>3, <3>4
  <2>4. QED
    BY <2>2, <2>3
<1>5. n \in 0 .. n
  BY <1>1
<1>6. QED
  BY <1>1, <1>2, <1>4, <1>5
=============================================================================

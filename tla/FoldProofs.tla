------------------------------ MODULE FoldProofs -------------------------------
(***************************************************************************)
(* Folds over sequences, for the proofs: what FoldLeft of the community    *)
(* modules computes step by step, and induction along it.  The library's   *)
(* induction theorems take an operator as a parameter, which the provers   *)
(* cannot instantiate; here the operator is a constant of the module, and  *)
(* an INSTANCE gives it its value, so that what is proved once holds of    *)
(* every fold of the supervisor's loop (runtime.py: the outbox, the        *)
(* executions, the authority requests, the state packets).                 *)
(***************************************************************************)
EXTENDS SequencesExt, WellFoundedInduction, TLAPS

CONSTANTS
  Op(_, _),           \* what is folded
  Keep(_, _, _, _)    \* of the start, the sequence, how much of it is folded,
                      \* and the value so far: what the induction carries

(* Induction on the numbers, from the least element of a set: a set of     *)
(* numbers without 0, that holds with a number the one before, is empty.   *)
LEMMA NoneFirst ==
  ASSUME NEW T, T \subseteq Nat, 0 \notin T, \A k \in Nat : k + 1 \in T => k \in T
  PROVE  T = {}
<1>1. SUFFICES ASSUME T # {} PROVE FALSE
  OBVIOUS
<1>2. PICK x \in T : \A y \in T : ~(<<y, x>> \in OpToRel(<, Nat))
  BY <1>1, NatLessThanWellFounded, WFMin
<1>3. x \in Nat /\ x # 0
  OBVIOUS
<1>4. x - 1 \in Nat /\ (x - 1) + 1 = x
  BY <1>3
<1>5. x - 1 \in T
  BY <1>4
<1>6. <<x - 1, x>> \in OpToRel(<, Nat)
  BY <1>3, <1>4 DEF OpToRel
<1> QED
  BY <1>2, <1>5, <1>6

\* f is the fold of the elements of seq with indices in s, for every s \subseteq D.
Iter(f, base, seq, D) ==
  f = [s \in SUBSET D |-> IF s = {} THEN base ELSE Op(f[s \ {Max(s)}], seq[Max(s)])]

(* The largest of a set of numbers whose bound is one of them.             *)
LEMMA MaxOfTop ==
  ASSUME NEW k \in Nat, NEW s, s \subseteq 1..(k + 1), k + 1 \in s
  PROVE  Max(s) = k + 1
<1>1. \A x \in s : x \in Nat /\ k + 1 >= x
  OBVIOUS
<1>2. \A x \in s : (\A y \in s : x >= y) => x = k + 1
  BY <1>1
<1> QED
  BY <1>1, <1>2 DEF Max

(* The equation that defines a fold has a solution.                        *)
LEMMA IterExists ==
  ASSUME NEW base, NEW seq, NEW n \in Nat
  PROVE  \E f : Iter(f, base, seq, 1..n)
<1> DEFINE T == {k \in Nat : ~\E f : Iter(f, base, seq, 1..k)}
<1>1. 0 \notin T
  <2> DEFINE g == [s \in SUBSET (1..0) |-> base]
  <2>1. SUBSET (1..0) = {{}}
    OBVIOUS
  <2>2. Iter(g, base, seq, 1..0)
    BY <2>1 DEF Iter
  <2> QED
    BY <2>2
<1>2. ASSUME NEW k \in Nat, k \notin T PROVE k + 1 \notin T
  <2>1. PICK f : Iter(f, base, seq, 1..k)
    BY <1>2
  <2> DEFINE g == [s \in SUBSET (1..(k + 1)) |->
                     IF k + 1 \in s THEN Op(f[s \ {k + 1}], seq[k + 1]) ELSE f[s]]
             h == [s \in SUBSET (1..(k + 1)) |->
                     IF s = {} THEN base ELSE Op(g[s \ {Max(s)}], seq[Max(s)])]
  <2>2. ASSUME NEW s \in SUBSET (1..(k + 1)) PROVE g[s] = h[s]
    <3>1. CASE k + 1 \in s
      <4>1. Max(s) = k + 1
        BY <3>1, MaxOfTop
      <4>2. /\ s \ {k + 1} \in SUBSET (1..(k + 1)) /\ k + 1 \notin s \ {k + 1}
        OBVIOUS
      <4>3. g[s \ {k + 1}] = f[s \ {k + 1}]
        BY <4>2
      <4>4. h[s] = Op(g[s \ {k + 1}], seq[k + 1])
        BY <4>1, <3>1
      <4> QED
        BY <3>1, <4>3, <4>4
    <3>2. CASE k + 1 \notin s
      <4>1. s \in SUBSET (1..k)
        BY <3>2
      <4>2. /\ s \ {Max(s)} \in SUBSET (1..k)
            /\ s \ {Max(s)} \in SUBSET (1..(k + 1)) /\ k + 1 \notin s \ {Max(s)}
        BY <4>1, <3>2
      <4>3. g[s \ {Max(s)}] = f[s \ {Max(s)}]
        BY <4>2
      <4>4. f[s] = IF s = {} THEN base ELSE Op(f[s \ {Max(s)}], seq[Max(s)])
        BY <2>1, <4>1 DEF Iter
      <4> QED
        BY <3>2, <4>3, <4>4
    <3> QED
      BY <3>1, <3>2
  <2>3. g = h
    BY <2>2
  <2>4. Iter(g, base, seq, 1..(k + 1))
    BY <2>3 DEF Iter
  <2> QED
    BY <2>4
<1> HIDE DEF T
<1>3. T = {}
  BY <1>1, <1>2, NoneFirst DEF T
<1> QED
  BY <1>3 DEF T


(* FoldLeft is that solution, at the whole sequence.                       *)
LEMMA FoldIsIter ==
  ASSUME NEW base, NEW seq, NEW n \in Nat, DOMAIN seq = 1..n
  PROVE  \E f : Iter(f, base, seq, 1..n) /\ FoldLeft(Op, base, seq) = f[1..n]
<1> DEFINE f == CHOOSE g : Iter(g, base, seq, 1..n)
<1>1. Iter(f, base, seq, 1..n)
  BY IterExists
<1>2. FoldLeft(Op, base, seq) = f[1..n]
  BY Zenon DEF FoldLeft, MapThenFoldSet, Iter
<1> QED
  BY <1>1, <1>2

(* One element after the other.                                            *)
LEMMA IterSteps ==
  ASSUME NEW base, NEW seq, NEW n \in Nat, NEW f, Iter(f, base, seq, 1..n)
  PROVE  /\ f[1..0] = base
         /\ \A k \in Nat : k + 1 <= n => f[1..(k + 1)] = Op(f[1..k], seq[k + 1])
<1>1. f[1..0] = base
  <2>1. 1..0 = {} /\ {} \in SUBSET (1..n)
    OBVIOUS
  <2>2. f[{}] = base
    BY <2>1 DEF Iter
  <2> QED
    BY <2>1, <2>2
<1>2. ASSUME NEW k \in Nat, k + 1 <= n PROVE f[1..(k + 1)] = Op(f[1..k], seq[k + 1])
  <2>1. /\ 1..(k + 1) \in SUBSET (1..n) /\ 1..(k + 1) # {} /\ k + 1 \in 1..(k + 1)
        /\ (1..(k + 1)) \ {k + 1} = 1..k
    BY <1>2
  <2>2. Max(1..(k + 1)) = k + 1
    BY <2>1, MaxOfTop
  <2> QED
    BY <2>1, <2>2 DEF Iter
<1> QED
  BY <1>1, <1>2

(* The folds of no, one and two elements (the outbox of one handler never  *)
(* holds more events, nor more than one request).                          *)
LEMMA FoldShort ==
  ASSUME NEW base, NEW seq
  PROVE  /\ DOMAIN seq = 1..0 => FoldLeft(Op, base, seq) = base
         /\ DOMAIN seq = 1..1 => FoldLeft(Op, base, seq) = Op(base, seq[1])
         /\ DOMAIN seq = 1..2 => FoldLeft(Op, base, seq) = Op(Op(base, seq[1]), seq[2])
<1>1. ASSUME NEW n \in Nat, DOMAIN seq = 1..n
      PROVE  \E f : /\ FoldLeft(Op, base, seq) = f[1..n] /\ f[1..0] = base
                    /\ \A k \in Nat : k + 1 <= n => f[1..(k + 1)] = Op(f[1..k], seq[k + 1])
  <2>1. PICK f : Iter(f, base, seq, 1..n) /\ FoldLeft(Op, base, seq) = f[1..n]
    BY <1>1, FoldIsIter
  <2>2. /\ f[1..0] = base
        /\ \A k \in Nat : k + 1 <= n => f[1..(k + 1)] = Op(f[1..k], seq[k + 1])
    BY <2>1, IterSteps
  <2> QED
    BY <2>1, <2>2
<1>2. DOMAIN seq = 1..0 => FoldLeft(Op, base, seq) = base
  BY <1>1
<1>3. ASSUME DOMAIN seq = 1..1 PROVE FoldLeft(Op, base, seq) = Op(base, seq[1])
  <2>1. PICK f : /\ FoldLeft(Op, base, seq) = f[1..1] /\ f[1..0] = base
                 /\ \A k \in Nat : k + 1 <= 1 => f[1..(k + 1)] = Op(f[1..k], seq[k + 1])
    BY <1>1, <1>3
  <2>2. 0 \in Nat /\ 0 + 1 = 1 /\ 0 + 1 <= 1
    OBVIOUS
  <2> QED
    BY <2>1, <2>2
<1>4. ASSUME DOMAIN seq = 1..2
      PROVE  FoldLeft(Op, base, seq) = Op(Op(base, seq[1]), seq[2])
  <2>1. PICK f : /\ FoldLeft(Op, base, seq) = f[1..2] /\ f[1..0] = base
                 /\ \A k \in Nat : k + 1 <= 2 => f[1..(k + 1)] = Op(f[1..k], seq[k + 1])
    BY <1>1, <1>4
  <2>2. /\ 0 \in Nat /\ 0 + 1 = 1 /\ 0 + 1 <= 2
        /\ 1 \in Nat /\ 1 + 1 = 2 /\ 1 + 1 <= 2
    OBVIOUS
  <2>3. f[1..1] = Op(f[1..0], seq[1]) /\ f[1..2] = Op(f[1..1], seq[2])
    BY <2>1, <2>2
  <2> QED
    BY <2>1, <2>3
<1> QED
  BY <1>2, <1>3, <1>4

(* Induction along a fold: what holds at the start and is kept by each     *)
(* element in turn holds of the result.                                    *)
THEOREM FoldKeeps ==
  ASSUME NEW base, NEW seq, NEW n \in Nat, DOMAIN seq = 1..n,
         Keep(base, seq, 0, base),
         \A k \in Nat : \A w : k + 1 <= n /\ Keep(base, seq, k, w) =>
                              Keep(base, seq, k + 1, Op(w, seq[k + 1]))
  PROVE  Keep(base, seq, n, FoldLeft(Op, base, seq))
<1>1. PICK f : Iter(f, base, seq, 1..n) /\ FoldLeft(Op, base, seq) = f[1..n]
  BY FoldIsIter
<1>2. /\ f[1..0] = base
      /\ \A k \in Nat : k + 1 <= n => f[1..(k + 1)] = Op(f[1..k], seq[k + 1])
  BY <1>1, IterSteps
<1> DEFINE T == {k \in Nat : k <= n /\ ~Keep(base, seq, k, f[1..k])}
<1>3. 0 \notin T
  BY <1>2
<1>4. ASSUME NEW k \in Nat, k + 1 \in T PROVE k \in T
  <2>1. k <= n /\ k + 1 <= n
    BY <1>4
  <2>2. ~Keep(base, seq, k, f[1..k])
    BY <1>2, <1>4, <2>1
  <2> QED
    BY <2>1, <2>2
<1>5. T = {}
  <2> HIDE DEF T
  <2>1. T \subseteq Nat
    BY DEF T
  <2> QED
    BY <1>3, <1>4, <2>1, NoneFirst
<1> QED
  BY <1>1, <1>5
=============================================================================

------------------------------ MODULE PairProofs ------------------------------
(***************************************************************************)
(* The pair coordinator for any number of pairs, troubles, queued calls    *)
(* and undelivered events: a cancel taken as confirmed is one, and no      *)
(* member is released once its partner plays.                              *)
(***************************************************************************)
EXTENDS Pair, FiniteSetTheorems, SequenceTheorems, WellFoundedInduction, TLAPS

Statuses == Live \cup Ended \cup Unknown
Lives == Active \cup {"IDLE", "COMPLETE", "CANCELLED", "FAULTED", "REJECTED"}
StepT == [do : Steps, arm : Arms, ev : Event]
CallT == [op : {"submit", "release", "cancel"}, k : Pairs] \cup {OpOf("lost", 0)}
RunT == [k : 0..MaxPair, life : Lives, acks : SUBSET Arms, results : SUBSET Arms,
         pending : SUBSET Arms, cancelling : BOOLEAN]
HandT == [plans : [Pairs -> {"none", "held", "released", "reported"}], unknown : SUBSET Pairs,
          events : Seq(Event), faultSeen : BOOLEAN]
SupT == [ex : [Pairs -> Statuses], armed : BOOLEAN, fault : BOOLEAN, ops : Seq(CallT),
         open : BOOLEAN, owned : BOOLEAN]

Types ==
  /\ run \in RunT /\ todo \in Seq(StepT)
  /\ hand \in [Arms -> HandT] /\ sup \in [Arms -> SupT]
  /\ rel \in [Arms -> {"no", "deferred", "sent", "took", "refused", "ok", "bad"}]
  /\ clock \in {"none", "lead", "late", "passed"} /\ trouble \in 0..MaxTrouble

-----------------------------------------------------------------------------
(* The inductive invariant.                                                *)

Elems(s) == {s[i] : i \in DOMAIN s}

\* What waits for the loop of a supervisor; what a handle has told and the
\* coordinator's thread has still to take in; what that thread has to do.
InOps(a, op, k) == OpOf(op, k) \in Elems(sup[a].ops)
Coming(a, e) == e \in Elems(hand[a].events) \/ \E x \in Elems(todo) : x.arm = a /\ x.ev = e
Due(step) == \E x \in Elems(todo) : x.do = step

(* Nothing is known of a pair before it is staged.                         *)
Fresh ==
  \A a \in Arms :
    /\ \A k \in Pairs : k > run.k =>
         hand[a].plans[k] = "none" /\ k \notin hand[a].unknown /\ sup[a].ex[k] = "NONE"
    /\ \A x \in Elems(sup[a].ops) : x.k <= run.k
    /\ \A e \in Event : Coming(a, e) => e.k <= run.k

(* A handle knows what its supervisor holds, or knows that it does not     *)
(* know: an execution that may play has a plan, or a staging of unknown    *)
(* outcome; so has a submission still queued.                              *)
Known ==
  \A a \in Arms : \A k \in Pairs :
    /\ sup[a].ex[k] \in Live => hand[a].plans[k] # "none" \/ k \in hand[a].unknown
    /\ hand[a].plans[k] # "none" => k \notin hand[a].unknown
    /\ InOps(a, "submit", k) => k \in hand[a].unknown

(* One execution at a time.                                                *)
OneLive ==
  \A a \in Arms : \A j, k \in Pairs : sup[a].ex[j] \in Live /\ sup[a].ex[k] \in Live => j = k

(* Staging is the first thing done for a pair.                             *)
Staging ==
  Due("stage") =>
    /\ todo \in {<<Do("stage", Left), Do("stage", Right)>>, <<Do("stage", Right)>>}
    /\ run.k \in Pairs /\ ~run.cancelling
    /\ \A a \in Arms : (\E x \in Elems(todo) : x.arm = a) =>
         hand[a].plans[run.k] = "none" /\ run.k \notin hand[a].unknown

(* Cancels, and answers to them, belong to a pair that is being cancelled. *)
Cancelling ==
  /\ run.pending # {} => run.cancelling
  /\ run.cancelling => run.k \in Pairs
  /\ Due("cancel") \/ Due("cancelFound") => run.cancelling
  /\ \A a \in Arms : \A ok \in BOOLEAN : Coming(a, Ev("cleared", run.k, ok)) => run.cancelling

(* What is reported cleared is over, from the report on.                   *)
Truth ==
  \A a \in Arms :
    Coming(a, Ev("cleared", run.k, TRUE)) \/ (run.cancelling /\ a \notin run.pending) =>
      sup[a].ex[run.k] \notin Live /\ run.k \notin hand[a].unknown

(* Until the release of a pair is sent, none of its members has been       *)
(* released; an arm that staged its member has no release queued at all.   *)
NoRelease(a) == \A x \in Elems(sup[a].ops) : x.op # "release"
Played == {"SELECTED", "RUNNING"}
Held ==
  /\ run.life = "READY" => run.acks = Arms
  /\ run.life \in Active => run.k \in Pairs
  /\ run.life \in {"STAGING", "READY"} =>
       /\ ~Due("send")
       /\ \A a \in Arms :
            /\ Free(a)
            /\ sup[a].ex[run.k] \notin Played /\ ~InOps(a, "release", run.k)
            /\ a \in run.acks \/ Coming(a, Ev("staged", run.k, TRUE)) => NoRelease(a)

(* Both are still held when the release is sent, which is done once, last; *)
(* and nothing plays while a stamp is ahead.                               *)
SendLast(s) == \A i \in DOMAIN s : s[i].do = "send" => i = Len(s)
Ready ==
  /\ SendLast(todo)
  /\ todo # <<>> \/ (\E a \in Arms : rel[a] = "sent") => run.k \in Pairs
  /\ Due("send") => \A a \in Arms :
       rel[a] # "sent" /\ NoRelease(a) /\ \A k \in Pairs : sup[a].ex[k] \notin Played
  /\ clock = "lead" => \A a \in Arms : \A k \in Pairs : sup[a].ex[k] # "RUNNING"

PairInv ==
  Types /\ Fresh /\ Known /\ OneLive /\ Staging /\ Cancelling /\ Truth /\ Held /\ Ready

-----------------------------------------------------------------------------
(* Sequences, as far as the invariant looks into them.                     *)

(* What the operators on sequences do to the elements.                     *)
LEMMA ElemsShort ==
  Elems(<<>>) = {} /\ (\A x : Elems(<<x>>) = {x}) /\ \A x, y : Elems(<<x, y>>) = {x, y}
BY DEF Elems

(* The elements of a sequence are of its kind.                             *)
LEMMA ElemsIn ==
  ASSUME NEW S, NEW s \in Seq(S)
  PROVE  Elems(s) \subseteq S
BY DEF Elems

(* Putting two sequences together puts their elements together.            *)
LEMMA ElemsCat ==
  ASSUME NEW S, NEW s \in Seq(S), NEW t \in Seq(S)
  PROVE  s \o t \in Seq(S) /\ Elems(s \o t) = Elems(s) \cup Elems(t)
<1>1. DOMAIN (s \o t) = 1..(Len(s) + Len(t)) /\ DOMAIN s = 1..Len(s) /\ DOMAIN t = 1..Len(t)
      /\ Len(s) \in Nat /\ Len(t) \in Nat
  OBVIOUS
<1>2. \A i \in DOMAIN s : i \in DOMAIN (s \o t) /\ (s \o t)[i] = s[i]
  OBVIOUS
<1>3. \A i \in DOMAIN t : Len(s) + i \in DOMAIN (s \o t) /\ (s \o t)[Len(s) + i] = t[i]
  OBVIOUS
<1>4. \A i \in DOMAIN (s \o t) : i \notin DOMAIN s => i - Len(s) \in DOMAIN t
                                                      /\ (s \o t)[i] = t[i - Len(s)]
  OBVIOUS
<1>5. Elems(s \o t) \subseteq Elems(s) \cup Elems(t)
  BY <1>2, <1>4 DEF Elems
<1>6. Elems(s) \subseteq Elems(s \o t)
  BY <1>2 DEF Elems
<1>7. Elems(t) \subseteq Elems(s \o t)
  BY <1>3 DEF Elems
<1>8. s \o t \in Seq(S)
  OBVIOUS
<1> QED
  BY <1>5, <1>6, <1>7, <1>8

(* Appending adds one element.                                             *)
LEMMA ElemsAppend ==
  ASSUME NEW S, NEW s \in Seq(S), NEW x \in S
  PROVE  Append(s, x) \in Seq(S) /\ Elems(Append(s, x)) = Elems(s) \cup {x}
<1>1. /\ DOMAIN Append(s, x) = 1..(Len(s) + 1) /\ DOMAIN s = 1..Len(s) /\ Len(s) \in Nat
      /\ Append(s, x)[Len(s) + 1] = x /\ \A i \in 1..Len(s) : Append(s, x)[i] = s[i]
  OBVIOUS
<1>2. Elems(Append(s, x)) \subseteq Elems(s) \cup {x}
  BY <1>1 DEF Elems
<1>3. Elems(s) \subseteq Elems(Append(s, x))
  BY <1>1 DEF Elems
<1>4. x \in Elems(Append(s, x))
  BY <1>1 DEF Elems
<1>5. Append(s, x) \in Seq(S)
  OBVIOUS
<1> QED
  BY <1>2, <1>3, <1>4, <1>5

(* The first element, and what is left without it.                         *)
LEMMA ElemsTail ==
  ASSUME NEW S, NEW s \in Seq(S), s # <<>>
  PROVE  /\ Head(s) \in Elems(s) /\ Head(s) \in S
         /\ Tail(s) \in Seq(S) /\ Elems(Tail(s)) \subseteq Elems(s)
<1>1. /\ 1 \in DOMAIN s /\ Head(s) = s[1]
      /\ \A i \in DOMAIN Tail(s) : i + 1 \in DOMAIN s /\ Tail(s)[i] = s[i + 1]
  OBVIOUS
<1>2. Tail(s) \in Seq(S) /\ Head(s) \in S
  OBVIOUS
<1> QED
  BY <1>1, <1>2 DEF Elems

(* A send stays last when steps are taken from the front, or put there.    *)
LEMMA SendStaysLast ==
  ASSUME NEW s \in Seq(StepT), SendLast(s)
  PROVE  /\ s # <<>> => SendLast(Tail(s))
         /\ s # <<>> /\ Head(s).do = "send" => Tail(s) = <<>>
         /\ \A p \in Seq(StepT) : (\A x \in Elems(p) : x.do # "send") => SendLast(p \o s)
<1>1. ASSUME s # <<>> PROVE SendLast(Tail(s))
  <2>1. /\ \A i \in DOMAIN Tail(s) : i \in Nat /\ i + 1 \in DOMAIN s /\ Tail(s)[i] = s[i + 1]
        /\ Len(Tail(s)) = Len(s) - 1 /\ Len(s) \in Nat
    BY <1>1
  <2>2. ASSUME NEW i \in DOMAIN Tail(s), Tail(s)[i].do = "send" PROVE i = Len(Tail(s))
    <3>1. i + 1 = Len(s)
      BY <2>1, <2>2 DEF SendLast
    <3> QED
      BY <2>1, <3>1
  <2> QED
    BY <2>2 DEF SendLast
<1>2. ASSUME s # <<>>, Head(s).do = "send" PROVE Tail(s) = <<>>
  <2>1. 1 \in DOMAIN s /\ Head(s) = s[1]
    BY <1>2
  <2>2. Len(s) = 1
    BY <1>2, <2>1 DEF SendLast
  <2>3. Tail(s) \in Seq(StepT) /\ Len(Tail(s)) = 0
    BY <1>2, <2>2
  <2> QED
    BY <2>3, EmptySeq
<1>3. ASSUME NEW p \in Seq(StepT), \A x \in Elems(p) : x.do # "send" PROVE SendLast(p \o s)
  <2>1. /\ \A i \in DOMAIN (p \o s) : \/ i \in DOMAIN p /\ (p \o s)[i] = p[i]
                                      \/ i - Len(p) \in DOMAIN s /\ (p \o s)[i] = s[i - Len(p)]
        /\ Len(p \o s) = Len(p) + Len(s) /\ Len(p) \in Nat /\ Len(s) \in Nat
        /\ \A i \in DOMAIN (p \o s) : i \in Nat
    OBVIOUS
  <2>2. ASSUME NEW i \in DOMAIN (p \o s), (p \o s)[i].do = "send" PROVE i = Len(p \o s)
    <3>1. CASE i \in DOMAIN p /\ (p \o s)[i] = p[i]
      BY <1>3, <2>2, <3>1 DEF Elems
    <3>2. CASE i - Len(p) \in DOMAIN s /\ (p \o s)[i] = s[i - Len(p)]
      <4>1. i - Len(p) = Len(s)
        BY <2>2, <3>2 DEF SendLast
      <4> QED
        BY <2>1, <4>1
    <3> QED
      BY <2>1, <3>1, <3>2
  <2> QED
    BY <2>2 DEF SendLast
<1> QED
  BY <1>1, <1>2, <1>3

(* A set of numbers without 0, that holds with a number the one before, is *)
(* empty.                                                                  *)
LEMMA NoneFirst ==
  ASSUME NEW T, T \subseteq Nat, 0 \notin T, \A n \in Nat : n + 1 \in T => n \in T
  PROVE  T = {}
<1>1. SUFFICES ASSUME T # {} PROVE FALSE
  OBVIOUS
<1> DEFINE R == OpToRel(<, Nat)
<1>0. IsWellFoundedOn(R, Nat)
  BY NatLessThanWellFounded, Zenon
<1> HIDE DEF R
<1>2. PICK x \in T : \A y \in T : ~(<<y, x>> \in R)
  BY <1>0, <1>1, WFMin
<1>3. x - 1 \in T /\ x - 1 \in Nat /\ x \in Nat /\ x - 1 < x
  <2>1. x \in Nat /\ x # 0
    OBVIOUS
  <2>2. x - 1 \in Nat /\ (x - 1) + 1 = x
    BY <2>1
  <2> QED
    BY <2>1, <2>2
<1> QED
  BY <1>2, <1>3 DEF R, OpToRel

(* A list of pairs in order lists those pairs.                             *)
LEMMA InOrderListed ==
  ASSUME NEW K \in SUBSET Pairs
  PROVE  InOrder(K) \in Seq(K)
<1> DEFINE Upto(n) == {j \in K : j <= n}
<1>0. /\ MaxPair \in Nat /\ K \subseteq 1..MaxPair
      /\ \A j \in K : j \in Nat /\ 1 <= j /\ j <= MaxPair
  BY PairAssumption DEF Pairs
<1>1. IsFiniteSet(K)
  <2>1. IsFiniteSet(1..MaxPair)
    BY <1>0, FS_Interval
  <2> QED
    BY <1>0, <2>1, FS_Subset
<1>2. \A n \in Nat : IsFiniteSet(Upto(n)) /\ Cardinality(Upto(n)) \in Nat
  BY <1>1, FS_Subset, FS_CardinalityType
<1> DEFINE T == {n \in Nat : \E i \in 1..Cardinality(Upto(n)) :
                               \A k \in K : k <= n => Cardinality(Upto(k)) # i}
<1>3. 0 \notin T
  <2>1. \A j \in K : ~(j <= 0)
    BY <1>0
  <2>2. Upto(0) = {}
    BY <2>1
  <2>3. Cardinality(Upto(0)) = 0
    BY <2>2, FS_EmptySet
  <2> QED
    BY <2>3
<1>4. ASSUME NEW n \in Nat, n \notin T PROVE n + 1 \notin T
  <2>1. CASE n + 1 \notin K
    <3>0. \A j \in K : j <= n + 1 <=> j <= n
      BY <1>0, <2>1
    <3>1. Upto(n + 1) = Upto(n)
      BY <3>0
    <3> HIDE DEF Upto
    <3>2. \A k \in K : k <= n => k <= n + 1
      BY <1>0
    <3> QED
      BY <1>4, <3>1, <3>2
  <2>2. CASE n + 1 \in K
    <3>0. (\A j \in K : j <= n + 1 <=> (j <= n \/ j = n + 1)) /\ ~(n + 1 <= n)
      BY <1>0, <2>2
    <3>1. Upto(n + 1) = Upto(n) \cup {n + 1} /\ n + 1 \notin Upto(n)
      BY <2>2, <3>0
    <3>2. Cardinality(Upto(n + 1)) = Cardinality(Upto(n)) + 1
      BY <1>2, <3>1, FS_AddElement
    <3>3. \A k \in K : k <= n => k <= n + 1
      BY <1>0
    <3>4. Cardinality(Upto(n)) \in Nat
      BY <1>2
    <3> HIDE DEF Upto
    <3>5. ASSUME NEW i \in 1..Cardinality(Upto(n + 1))
          PROVE  \E k \in K : k <= n + 1 /\ Cardinality(Upto(k)) = i
      <4>1. i = Cardinality(Upto(n + 1)) \/ i \in 1..Cardinality(Upto(n))
        BY <3>2, <3>4
      <4>2. ASSUME i = Cardinality(Upto(n + 1)) PROVE \E k \in K : k <= n + 1 /\ Cardinality(Upto(k)) = i
        BY <2>2, <4>2
      <4>3. ASSUME i \in 1..Cardinality(Upto(n)) PROVE \E k \in K : k <= n + 1 /\ Cardinality(Upto(k)) = i
        BY <1>4, <3>3, <4>3
      <4> QED
        BY <4>1, <4>2, <4>3
    <3> QED
      BY <3>5
  <2> QED
    BY <2>1, <2>2
<1>5. T = {}
  <2> HIDE DEF T
  <2>1. T \subseteq Nat
    BY DEF T
  <2> QED
    BY <1>3, <1>4, <2>1, NoneFirst
<1>6. K = Upto(MaxPair)
  BY <1>0
<1>7. ASSUME NEW i \in 1..Cardinality(K) PROVE \E k \in K : Cardinality(Upto(k)) = i
  <2>1. i \in 1..Cardinality(Upto(MaxPair))
    BY <1>6, <1>7
  <2> HIDE DEF Upto
  <2> QED
    BY <1>0, <1>5, <2>1
<1>8. Cardinality(K) \in Nat
  BY <1>1, FS_CardinalityType
<1>9. \A i \in 1..Cardinality(K) : InOrder(K)[i] \in K
  BY <1>7 DEF InOrder
<1>10. DOMAIN InOrder(K) = 1..Cardinality(K) /\ InOrder(K) = [i \in DOMAIN InOrder(K) |-> InOrder(K)[i]]
  BY DEF InOrder
<1>11. InOrder(K) \in [1..Cardinality(K) -> K]
  BY <1>9, <1>10
<1> QED
  BY <1>8, <1>11

-----------------------------------------------------------------------------
(* The supervisor and the handle.                                          *)

(* What a call does to the executions.                                     *)
LEMMA PerformDoes ==
  ASSUME NEW s \in SupT, NEW x \in CallT, NEW t \in Perform(s, x)
  PROVE  /\ t \in SupT /\ t.ops = s.ops
         /\ x.op = "submit" =>
              /\ \A j \in Pairs : j # x.k => t.ex[j] = s.ex[j]
              /\ \/ t.ex[x.k] = s.ex[x.k]
                 \/ t.ex[x.k] = "REJECTED"
                 \/ t.ex[x.k] = "ADMITTED" /\ \A j \in Pairs : s.ex[j] \notin Live
         /\ x.op = "release" =>
              /\ \A j \in Pairs : j # x.k => t.ex[j] = s.ex[j]
              /\ \/ t.ex[x.k] = s.ex[x.k]
                 \/ t.ex[x.k] = "REJECTED"
                 \/ t.ex[x.k] = "SELECTED" /\ s.ex[x.k] = "ADMITTED" /\ clock = "lead"
         /\ x.op = "cancel" =>
              /\ t.ex[x.k] \notin Live
              /\ \A j \in Pairs : t.ex[j] = s.ex[j] \/ (s.ex[j] \in Live /\ t.ex[j] = "CANCELLED")
         /\ x.op = "lost" =>
              \A j \in Pairs : t.ex[j] = s.ex[j] \/ (s.ex[j] \in Live /\ t.ex[j] = "CANCELLED")
<1>0. /\ s.ex \in [Pairs -> Statuses] /\ x.op \in {"submit", "release", "cancel", "lost"}
      /\ x.op # "lost" => x.k \in Pairs
      /\ {"REJECTED", "ADMITTED", "SELECTED", "CANCELLED"} \subseteq Statuses
      /\ "CANCELLED" \notin Live /\ "REJECTED" \notin Live
  BY DEF SupT, CallT, OpOf, Statuses, Live, Ended
<1>1. ASSUME NEW k \in Pairs, NEW e \in Statuses
      PROVE  /\ [s EXCEPT !.ex[k] = e] \in SupT /\ [s EXCEPT !.ex[k] = e].ops = s.ops
             /\ [s EXCEPT !.ex[k] = e].ex = [s.ex EXCEPT ![k] = e]
  BY <1>0 DEF SupT
<1>2. CASE x.op = "submit"
  <2>1. t = s \/ \E e \in Statuses : /\ t = [s EXCEPT !.ex[x.k] = e]
                                     /\ \/ e = "REJECTED"
                                        \/ e = "ADMITTED" /\ \A j \in Pairs : s.ex[j] \notin Live
    BY <1>0, <1>2 DEF Perform, Submit
  <2>2. CASE t = s
    BY <1>2, <2>2
  <2>3. CASE t # s
    <3>1. PICK e \in Statuses : /\ t = [s EXCEPT !.ex[x.k] = e]
                                /\ \/ e = "REJECTED"
                                   \/ e = "ADMITTED" /\ \A j \in Pairs : s.ex[j] \notin Live
      BY <2>1, <2>3
    <3>2. x.k \in Pairs
      BY <1>0, <1>2
    <3>3. t \in SupT /\ t.ops = s.ops /\ t.ex = [s.ex EXCEPT ![x.k] = e]
      BY <1>1, <3>1, <3>2
    <3> QED
      BY <1>0, <1>2, <3>1, <3>2, <3>3
  <2> QED
    BY <2>2, <2>3
<1>3. CASE x.op = "release"
  <2>1. t = s \/ \E e \in Statuses : /\ t = [s EXCEPT !.ex[x.k] = e]
                                     /\ \/ e = "REJECTED"
                                        \/ e = "SELECTED" /\ s.ex[x.k] = "ADMITTED" /\ clock = "lead"
    BY <1>0, <1>3 DEF Perform, Release
  <2>2. CASE t = s
    BY <1>3, <2>2
  <2>3. CASE t # s
    <3>1. PICK e \in Statuses : /\ t = [s EXCEPT !.ex[x.k] = e]
                                /\ \/ e = "REJECTED"
                                   \/ e = "SELECTED" /\ s.ex[x.k] = "ADMITTED" /\ clock = "lead"
      BY <2>1, <2>3
    <3>2. x.k \in Pairs
      BY <1>0, <1>3
    <3>3. t \in SupT /\ t.ops = s.ops /\ t.ex = [s.ex EXCEPT ![x.k] = e]
      BY <1>1, <3>1, <3>2
    <3> QED
      BY <1>0, <1>3, <3>1, <3>2, <3>3
  <2> QED
    BY <2>2, <2>3
<1>4. CASE x.op = "cancel"
  <2>1. \/ t = s /\ s.ex[x.k] \notin Live
        \/ s.ex[x.k] \in Live /\ t = [s EXCEPT !.ex[x.k] = "CANCELLED"]
    BY <1>0, <1>4 DEF Perform, CancelOp
  <2>2. CASE t = s /\ s.ex[x.k] \notin Live
    BY <1>4, <2>2
  <2>3. CASE s.ex[x.k] \in Live /\ t = [s EXCEPT !.ex[x.k] = "CANCELLED"]
    <3>1. x.k \in Pairs
      BY <1>0, <1>4
    <3>2. t \in SupT /\ t.ops = s.ops /\ t.ex = [s.ex EXCEPT ![x.k] = "CANCELLED"]
      BY <1>0, <1>1, <2>3, <3>1
    <3> QED
      BY <1>0, <1>4, <2>3, <3>1, <3>2
  <2> QED
    BY <2>1, <2>2, <2>3
<1>5. CASE x.op = "lost"
  <2> DEFINE E == [k \in Pairs |-> IF s.ex[k] \in Live THEN "CANCELLED" ELSE s.ex[k]]
  <2>1. t = [s EXCEPT !.ex = E, !.owned = FALSE]
    BY <1>0, <1>5 DEF Perform, OwnerLost, AllLive, SupT
  <2>2. E \in [Pairs -> Statuses]
    BY <1>0
  <2> HIDE DEF E
  <2>3. t \in SupT /\ t.ops = s.ops /\ t.ex = E
    BY <2>1, <2>2 DEF SupT
  <2> QED
    BY <1>5, <2>3 DEF E
<1> QED
  BY <1>0, <1>2, <1>3, <1>4, <1>5

(* A call that is answered was performed with nothing queued before it;    *)
(* one that is not has changed nothing, but may be queued.                 *)
LEMMA CallDoes ==
  ASSUME Types, NEW a \in Arms, NEW x \in CallT, NEW o \in Calls(a, x)
  PROVE  /\ o.s \in SupT /\ o.ok \in BOOLEAN /\ trouble + o.cost \in 0..MaxTrouble
         /\ o.ok => o.s \in Perform(sup[a], x) /\ sup[a].ops = <<>> /\ o.s.ops = <<>>
         /\ ~o.ok => o.s.ex = sup[a].ex /\ Elems(o.s.ops) \subseteq Elems(sup[a].ops) \cup {x}
<1> DEFINE s == sup[a]
<1>0. s \in SupT /\ s.ops \in Seq(CallT) /\ trouble \in 0..MaxTrouble /\ MaxTrouble \in Nat
  BY PairAssumption DEF Types, SupT
<1> HIDE DEF s
<1>1. /\ Lost(s) \in SupT /\ Lost(s).ex = s.ex /\ Lost(s).ops = s.ops
  BY <1>0 DEF Lost, SupT
<1>2. Append(s.ops, x) \in Seq(CallT)
  BY <1>0
<1>3. /\ Queued(s, x) \in SupT /\ Queued(s, x).ex = s.ex /\ Queued(s, x).ops = Append(s.ops, x)
  BY <1>0, <1>2 DEF Queued, SupT
<1>4. /\ Lost(Queued(s, x)) \in SupT /\ Lost(Queued(s, x)).ex = s.ex
      /\ Lost(Queued(s, x)).ops = Append(s.ops, x)
  BY <1>3 DEF Lost, SupT
<1>5. Elems(Append(s.ops, x)) = Elems(s.ops) \cup {x}
  BY <1>0, ElemsAppend
<1>9. trouble + 0 \in 0..MaxTrouble /\ (trouble < MaxTrouble => trouble + 1 \in 0..MaxTrouble)
  BY <1>0
<1>6. \/ \E t \in {s, Lost(s), Queued(s, x), Lost(Queued(s, x))}, c \in {0, 1} :
           o = Outcome(t, FALSE, c) /\ trouble + c \in 0..MaxTrouble
      \/ s.ops = <<>> /\ \E t \in Perform(s, x) : o = Outcome(t, TRUE, 0)
  BY <1>9 DEF Calls, s
<1>7. CASE \E t \in {s, Lost(s), Queued(s, x), Lost(Queued(s, x))}, c \in {0, 1} :
             o = Outcome(t, FALSE, c) /\ trouble + c \in 0..MaxTrouble
  <2>1. PICK t \in {s, Lost(s), Queued(s, x), Lost(Queued(s, x))}, n \in {0, 1} :
          o = Outcome(t, FALSE, n) /\ trouble + n \in 0..MaxTrouble
    BY <1>7
  <2>2. o.s = t /\ o.ok = FALSE /\ o.cost = n
    BY <2>1 DEF Outcome
  <2>3. t \in SupT /\ t.ex = s.ex /\ (t.ops = s.ops \/ t.ops = Append(s.ops, x))
    BY <1>0, <1>1, <1>3, <1>4
  <2> QED
    BY <1>5, <2>1, <2>2, <2>3 DEF s
<1>8. CASE s.ops = <<>> /\ \E t \in Perform(s, x) : o = Outcome(t, TRUE, 0)
  <2>1. PICK t \in Perform(s, x) : o = Outcome(t, TRUE, 0)
    BY <1>8
  <2>2. t \in SupT /\ t.ops = s.ops
    BY <1>0, PerformDoes
  <2> QED
    BY <1>0, <1>8, <2>1, <2>2 DEF Outcome, s
<1> QED
  BY <1>6, <1>7, <1>8

(* A read changes nothing but may lose the channel.                        *)
LEMMA ReadDoes ==
  ASSUME Types, NEW a \in Arms, NEW o \in Reads(a)
  PROVE  /\ o.s \in SupT /\ o.s.ex = sup[a].ex /\ o.s.ops = sup[a].ops /\ o.ok \in BOOLEAN
         /\ trouble + o.cost \in 0..MaxTrouble /\ o.cost \in {0, 1}
<1>0. sup[a] \in SupT /\ trouble \in 0..MaxTrouble /\ MaxTrouble \in Nat
  BY PairAssumption DEF Types
<1>1. Lost(sup[a]) \in SupT /\ Lost(sup[a]).ex = sup[a].ex /\ Lost(sup[a]).ops = sup[a].ops
  BY <1>0 DEF Lost, SupT
<1>2. \/ o = Outcome(sup[a], FALSE, 0) \/ o = Outcome(sup[a], TRUE, 0)
      \/ o = Outcome(Lost(sup[a]), FALSE, 1) /\ trouble < MaxTrouble
  BY DEF Reads
<1>3. trouble + 0 \in 0..MaxTrouble /\ (trouble < MaxTrouble => trouble + 1 \in 0..MaxTrouble)
  BY <1>0
<1>4. ASSUME NEW ok \in BOOLEAN, o = Outcome(sup[a], ok, 0)
      PROVE  o.s = sup[a] /\ o.cost = 0 /\ o.ok \in BOOLEAN
  <2>1. o.s = sup[a] /\ o.cost = 0
    BY <1>4 DEF Outcome
  <2>2. o.ok = ok
    BY <1>4, Zenon DEF Outcome
  <2> QED
    BY <2>1, <2>2
<1>5. CASE o = Outcome(Lost(sup[a]), FALSE, 1) /\ trouble < MaxTrouble
  <2>1. o.s = Lost(sup[a]) /\ o.cost = 1 /\ o.ok = FALSE
    BY <1>5 DEF Outcome
  <2> QED
    BY <1>1, <1>3, <1>5, <2>1
<1>6. CASE o = Outcome(sup[a], FALSE, 0) \/ o = Outcome(sup[a], TRUE, 0)
  <2>1. o.s = sup[a] /\ o.cost = 0 /\ o.ok \in BOOLEAN
    BY <1>4, <1>6
  <2> QED
    BY <1>0, <1>3, <2>1
<1> QED
  BY <1>2, <1>5, <1>6

\* A failed or finished leg of a plan the handle had released.
LegOf(h, e) == e.kind = "leg" /\ \E k \in Pairs : h.plans[k] = "released" /\ e.k = k

(* Events made of a list of pairs.                                         *)
LEMMA LegsMade ==
  ASSUME NEW h \in HandT, NEW K \in SUBSET {k \in Pairs : h.plans[k] = "released"}, NEW es,
         es = [i \in DOMAIN InOrder(K) |-> es[i]],
         \A i \in DOMAIN InOrder(K) : \E ok \in BOOLEAN : es[i] = Ev("leg", InOrder(K)[i], ok)
  PROVE  es \in Seq(Event) /\ \A e \in Elems(es) : LegOf(h, e)
<1>1. InOrder(K) \in Seq(K)
  BY InOrderListed
<1>2. DOMAIN InOrder(K) = 1..Len(InOrder(K)) /\ Len(InOrder(K)) \in Nat
      /\ \A i \in DOMAIN InOrder(K) : InOrder(K)[i] \in K
  BY <1>1
<1>3. \A k \in K : k \in Pairs /\ k \in 0..MaxPair /\ h.plans[k] = "released"
  BY PairAssumption DEF Pairs
<1>4. \A i \in DOMAIN InOrder(K) : es[i] \in Event /\ LegOf(h, es[i])
  BY <1>2, <1>3 DEF Ev, Event, LegOf
<1>5. es \in [1..Len(InOrder(K)) -> Event]
  BY <1>2, <1>4
<1>6. es \in Seq(Event) /\ DOMAIN es = DOMAIN InOrder(K)
  BY <1>2, <1>5
<1> QED
  BY <1>4, <1>6 DEF Elems

(* What dropping the plans that are over does to a handle.                 *)
LEMMA PrunedDoes ==
  ASSUME NEW h \in HandT, NEW s \in SupT
  PROVE  /\ Pruned(h, s) \in HandT /\ Pruned(h, s).unknown = h.unknown
         /\ \A k \in Pairs : \/ Pruned(h, s).plans[k] = h.plans[k]
                             \/ Pruned(h, s).plans[k] = "none" /\ s.ex[k] \notin Live
         /\ \A e \in Elems(Pruned(h, s).events) : e \in Elems(h.events) \/ LegOf(h, e)
<1> DEFINE K == {k \in Pairs : h.plans[k] = "released" /\ s.ex[k] \in Unknown}
           es == [i \in DOMAIN InOrder(K) |-> Ev("leg", InOrder(K)[i], FALSE)]
           P == [k \in Pairs |-> IF Gone(h, s, k) THEN "none" ELSE h.plans[k]]
<1>0. h.plans \in [Pairs -> {"none", "held", "released", "reported"}] /\ h.events \in Seq(Event)
  BY DEF HandT
<1>1. es \in Seq(Event) /\ \A e \in Elems(es) : LegOf(h, e)
  <2>1. K \in SUBSET {k \in Pairs : h.plans[k] = "released"}
    OBVIOUS
  <2> HIDE DEF K
  <2> QED
    BY <2>1, LegsMade
<1>2. h.events \o es \in Seq(Event) /\ Elems(h.events \o es) = Elems(h.events) \cup Elems(es)
  <2> HIDE DEF es
  <2> QED
    BY <1>0, <1>1, ElemsCat
<1>3. P \in [Pairs -> {"none", "held", "released", "reported"}]
  BY <1>0
<1>4. Forget(h, s) = [h EXCEPT !.events = h.events \o es]
  BY DEF Forget
<1>5. Pruned(h, s) = [Forget(h, s) EXCEPT !.plans = P]
  BY DEF Pruned
<1> HIDE DEF P, es
<1>6. Pruned(h, s) \in HandT /\ Pruned(h, s).unknown = h.unknown
      /\ Pruned(h, s).plans = P /\ Pruned(h, s).events = h.events \o es
  BY <1>2, <1>3, <1>4, <1>5 DEF HandT
<1>7. \A k \in Pairs : P[k] = h.plans[k] \/ (P[k] = "none" /\ s.ex[k] \notin Live)
  BY DEF P, Gone, Over
<1> QED
  BY <1>1, <1>2, <1>6, <1>7

(* What reporting the ended legs does to a handle.                         *)
LEMMA PolledDoes ==
  ASSUME NEW h \in HandT, NEW s \in SupT
  PROVE  /\ Polled(h, s) \in HandT /\ Polled(h, s).unknown = h.unknown
         /\ Polled(h, s).events = <<>>
         /\ \A k \in Pairs : \/ Polled(h, s).plans[k] = h.plans[k]
                             \/ h.plans[k] # "none" /\ s.ex[k] \notin Live
<1> DEFINE P == [k \in Pairs |-> IF h.plans[k] = "released" /\ Over(s, k)
                                 THEN (IF s.ex[k] \in Unknown THEN "none" ELSE "reported")
                                 ELSE h.plans[k]]
<1>1. P \in [Pairs -> {"none", "held", "released", "reported"}]
  BY DEF HandT
<1>2. \A k \in Pairs : P[k] = h.plans[k] \/ (h.plans[k] # "none" /\ s.ex[k] \notin Live)
  BY DEF Over
<1>3. Polled(h, s) = [h EXCEPT !.events = <<>>, !.faultSeen = s.fault, !.plans = P]
  BY DEF Polled
<1>4. s.fault \in BOOLEAN /\ <<>> \in Seq(Event)
  BY DEF SupT
<1> HIDE DEF P
<1>5. Polled(h, s) \in HandT /\ Polled(h, s).unknown = h.unknown
      /\ Polled(h, s).events = <<>> /\ Polled(h, s).plans = P
  BY <1>1, <1>3, <1>4 DEF HandT
<1> QED
  BY <1>2, <1>5

(* What a poll reports.                                                    *)
LEMMA ReportsMade ==
  ASSUME NEW h \in HandT, NEW s \in SupT
  PROVE  LET es == h.events \o LegEvents(h, s) \o FaultEvents(h, s)
         IN  es \in Seq(Event)
             /\ \A e \in Elems(es) : e \in Elems(h.events) \/ LegOf(h, e) \/ e = NoEvent
<1>0. h.events \in Seq(Event) /\ NoEvent \in Event
  BY PairAssumption DEF HandT, NoEvent, Ev, Event
<1>1. LegEvents(h, s) \in Seq(Event) /\ \A e \in Elems(LegEvents(h, s)) : LegOf(h, e)
  <2> DEFINE K == {k \in Pairs : h.plans[k] = "released" /\ Over(s, k)}
             es == LegEvents(h, s)
  <2>1. K \in SUBSET {k \in Pairs : h.plans[k] = "released"}
    OBVIOUS
  <2>2. es = [i \in DOMAIN InOrder(K) |-> es[i]]
        /\ \A i \in DOMAIN InOrder(K) : \E ok \in BOOLEAN : es[i] = Ev("leg", InOrder(K)[i], ok)
    BY DEF LegEvents
  <2> HIDE DEF K, es
  <2>3. es \in Seq(Event) /\ \A e \in Elems(es) : LegOf(h, e)
    BY <2>1, <2>2, LegsMade
  <2> QED
    BY <2>3 DEF es
<1>2. FaultEvents(h, s) \in Seq(Event) /\ \A e \in Elems(FaultEvents(h, s)) : e = NoEvent
  BY <1>0, ElemsShort DEF FaultEvents
<1>3. h.events \o LegEvents(h, s) \in Seq(Event)
      /\ Elems(h.events \o LegEvents(h, s)) = Elems(h.events) \cup Elems(LegEvents(h, s))
  BY <1>0, <1>1, ElemsCat
<1> DEFINE p == h.events \o LegEvents(h, s)
<1>5. p \in Seq(Event)
  BY <1>3
<1> HIDE DEF p
<1>4. p \o FaultEvents(h, s) \in Seq(Event)
      /\ Elems(p \o FaultEvents(h, s)) = Elems(p) \cup Elems(FaultEvents(h, s))
  BY <1>2, <1>5, ElemsCat
<1> QED
  BY <1>1, <1>2, <1>3, <1>4 DEF p

(* Events on their way to the coordinator are steps of its thread.         *)
LEMMA DeliveriesMade ==
  ASSUME NEW a \in Arms, NEW es \in Seq(Event)
  PROVE  /\ Deliveries(a, es) \in Seq(StepT)
         /\ \A x \in Elems(Deliveries(a, es)) : x.do = "event" /\ x.arm = a /\ x.ev \in Elems(es)
<1>1. DOMAIN es = 1..Len(es) /\ Len(es) \in Nat /\ \A i \in DOMAIN es : es[i] \in Event
  OBVIOUS
<1>2. \A i \in DOMAIN es : [do |-> "event", arm |-> a, ev |-> es[i]] \in StepT
  BY <1>1 DEF StepT, Steps
<1>3. DOMAIN Deliveries(a, es) = DOMAIN es
      /\ \A i \in DOMAIN es : Deliveries(a, es)[i] = [do |-> "event", arm |-> a, ev |-> es[i]]
  BY DEF Deliveries
<1>4. Deliveries(a, es) = [i \in 1..Len(es) |-> Deliveries(a, es)[i]]
  BY <1>1 DEF Deliveries
<1>5. Deliveries(a, es) \in [1..Len(es) -> StepT]
  BY <1>1, <1>2, <1>3, <1>4
<1> QED
  BY <1>1, <1>3, <1>5 DEF Elems

-----------------------------------------------------------------------------
(* Most steps move the state in a few ways only, all of which keep the     *)
(* invariant: an execution falls out of what may play, or one rises for a  *)
(* cause the invariant knows of; a handle drops what is over; what is      *)
(* reported cleared is over.                                               *)

ExFalls(a, k) == sup'[a].ex[k] = sup[a].ex[k] \/ (sup'[a].ex[k] \notin Live /\ k <= run.k)
ExRises(a, k) ==
  \/ /\ sup'[a].ex[k] = "ADMITTED" /\ k \in hand[a].unknown /\ k \in hand'[a].unknown
     /\ \A j \in Pairs : sup[a].ex[j] \notin Live
  \/ /\ sup[a].ex[k] = "ADMITTED" /\ sup'[a].ex[k] = "SELECTED"
     /\ InOps(a, "release", k) \/ rel[a] = "sent"
     /\ clock = "lead"
  \/ sup[a].ex[k] = "SELECTED" /\ sup'[a].ex[k] = "RUNNING" /\ clock' # "lead"
ExMoves(a) == \E c \in Pairs : \A k \in Pairs : ExFalls(a, k) \/ (k = c /\ ExRises(a, k))
OpsMove(a) ==
  \A x \in Elems(sup'[a].ops) :
    \/ x \in Elems(sup[a].ops)
    \/ x.op \in {"cancel", "lost"} /\ x.k <= run.k
    \/ x.op = "submit" /\ x.k = run.k /\ x.k \in hand[a].unknown /\ x.k \in hand'[a].unknown
    \/ x.op = "release" /\ x.k = run.k /\ rel[a] = "sent"

HandMoves(a) ==
  \A k \in Pairs :
    /\ \/ hand'[a].plans[k] = hand[a].plans[k]
       \/ hand[a].plans[k] # "none" /\ (hand'[a].plans[k] # "none" \/ sup'[a].ex[k] \notin Live)
    /\ k \in hand'[a].unknown => k \in hand[a].unknown
    /\ k \in hand[a].unknown /\ k \notin hand'[a].unknown =>
         sup'[a].ex[k] \notin Live /\ OpOf("submit", k) \notin Elems(sup'[a].ops)

Comes(a, e) == e \in Elems(hand'[a].events) \/ \E x \in Elems(todo') : x.arm = a /\ x.ev = e
EventMoves ==
  \A a \in Arms : \A e \in Event : Comes(a, e) =>
    \/ Coming(a, e)
    \/ e.k <= run.k /\ e.kind \notin {"staged", "cleared"}
    \/ /\ e.kind = "cleared" /\ e.k = run.k /\ run.cancelling
       /\ e.ok => sup'[a].ex[run.k] \notin Live /\ run.k \notin hand'[a].unknown

RunMoves ==
  /\ run'.k = run.k
  /\ run.cancelling => run'.cancelling
  /\ run'.cancelling => run.k \in Pairs
  /\ run'.pending # {} => run'.cancelling
  /\ \A a \in Arms : run'.cancelling /\ a \notin run'.pending =>
       (run.cancelling /\ a \notin run.pending) \/ Coming(a, Ev("cleared", run.k, TRUE))
  /\ \A a \in run'.acks : a \in run.acks \/ Coming(a, Ev("staged", run.k, TRUE))
  /\ run'.life \in Active => run.life \in Active
  /\ run'.life \in {"STAGING", "READY"} => run.life \in {"STAGING", "READY"}
  /\ run'.life = "READY" => run'.acks = Arms

WillDo(step) == \E x \in Elems(todo') : x.do = step
TodoKeeps ==
  /\ WillDo("stage") => UNCHANGED <<todo, hand, run>>
  /\ WillDo("cancel") \/ WillDo("cancelFound") => run'.cancelling
TodoMoves ==
  /\ WillDo("send") => Due("send")
  /\ SendLast(todo')
  /\ todo' # <<>> => run.k \in Pairs

RelMoves ==
  /\ \A a \in Arms : /\ rel'[a] \in {"sent", "took", "refused"} => ~Free(a)
                     /\ rel'[a] = "sent" => rel[a] = "sent"
  /\ clock' = "lead" => clock = "lead"

CoreStep ==
  /\ \A a \in Arms : ExMoves(a) /\ OpsMove(a) /\ HandMoves(a)
  /\ EventMoves /\ RunMoves /\ TodoKeeps
MildStep == CoreStep /\ TodoMoves /\ RelMoves

(* What every step does: it keeps the invariant, and selects an execution  *)
(* only while the stamp is ahead.                                          *)
SelectsAhead ==
  \A a \in Arms : \A k \in Pairs :
    sup[a].ex[k] # "SELECTED" /\ sup'[a].ex[k] = "SELECTED" => clock = "lead"
PairStep == PairInv' /\ SelectsAhead

(* A mild step keeps the part of the invariant that is not about releases. *)
LEMMA CoreKeeps ==
  ASSUME PairInv, CoreStep
  PROVE  Fresh' /\ Known' /\ OneLive' /\ Staging' /\ Cancelling' /\ Truth'
<1> USE DEF CoreStep
<1>0. /\ \A a \in Arms, e \in Event : Coming(a, e)' <=> Comes(a, e)
      /\ \A step : Due(step)' <=> WillDo(step)
      /\ \A a \in Arms, op \in {"submit", "release"}, k \in Pairs :
           InOps(a, op, k)' <=> OpOf(op, k) \in Elems(sup'[a].ops)
  BY DEF Coming, Comes, Due, WillDo, InOps
<1>1. /\ run.k \in 0..MaxPair /\ run'.k = run.k /\ Pairs \subseteq Nat /\ MaxPair \in Nat
      /\ \A k \in 0..MaxPair, kind \in {"staged", "cleared"}, ok \in BOOLEAN : Ev(kind, k, ok) \in Event
      /\ \A kind, k, ok : Ev(kind, k, ok).kind = kind /\ Ev(kind, k, ok).k = k /\ Ev(kind, k, ok).ok = ok
      /\ \A op, k : OpOf(op, k).op = op /\ OpOf(op, k).k = k
  BY PairAssumption DEF PairInv, Types, RunT, RunMoves, Ev, Event, OpOf, Pairs
<1>2. Fresh'
  <2> SUFFICES ASSUME NEW a \in Arms
               PROVE  /\ \A k \in Pairs : k > run.k =>
                           /\ hand'[a].plans[k] = "none" /\ k \notin hand'[a].unknown
                           /\ sup'[a].ex[k] = "NONE"
                      /\ \A x \in Elems(sup'[a].ops) : x.k <= run.k
                      /\ \A e \in Event : Comes(a, e) => e.k <= run.k
    BY <1>0, <1>1 DEF Fresh
  <2>1. ASSUME NEW k \in Pairs, k > run.k
        PROVE  hand'[a].plans[k] = "none" /\ k \notin hand'[a].unknown /\ sup'[a].ex[k] = "NONE"
    <3>1. hand[a].plans[k] = "none" /\ k \notin hand[a].unknown /\ sup[a].ex[k] = "NONE"
      BY <2>1 DEF PairInv, Fresh
    <3>2. hand'[a].plans[k] = "none" /\ k \notin hand'[a].unknown
      BY <3>1 DEF HandMoves
    <3>3. ~(k <= run.k)
      BY <1>1, <2>1
    <3>4. ExFalls(a, k) \/ ExRises(a, k)
      BY DEF ExMoves, OpsMove
    <3> QED
      BY <3>1, <3>2, <3>3, <3>4 DEF ExFalls, ExRises
  <2>2. ASSUME NEW x \in Elems(sup'[a].ops) PROVE x.k <= run.k
    BY <1>1 DEF ExMoves, OpsMove, PairInv, Fresh
  <2>3. ASSUME NEW e \in Event, Comes(a, e) PROVE e.k <= run.k
    BY <1>1, <2>3 DEF EventMoves, PairInv, Fresh
  <2> QED
    BY <2>1, <2>2, <2>3
<1>3. Known'
  <2> SUFFICES ASSUME NEW a \in Arms, NEW k \in Pairs
               PROVE  /\ sup'[a].ex[k] \in Live =>
                           hand'[a].plans[k] # "none" \/ k \in hand'[a].unknown
                      /\ hand'[a].plans[k] # "none" => k \notin hand'[a].unknown
                      /\ OpOf("submit", k) \in Elems(sup'[a].ops) => k \in hand'[a].unknown
    BY <1>0 DEF Known
  <2>0. /\ sup[a].ex[k] \in Live => hand[a].plans[k] # "none" \/ k \in hand[a].unknown
        /\ hand[a].plans[k] # "none" => k \notin hand[a].unknown
        /\ OpOf("submit", k) \in Elems(sup[a].ops) => k \in hand[a].unknown
    BY DEF PairInv, Known, InOps
  <2>1. ASSUME sup'[a].ex[k] \in Live PROVE hand'[a].plans[k] # "none" \/ k \in hand'[a].unknown
    <3>1. sup[a].ex[k] \in Live \/ k \in hand'[a].unknown
      BY <2>1 DEF ExMoves, OpsMove, ExFalls, ExRises, Live
    <3> QED
      BY <2>0, <2>1, <3>1 DEF HandMoves
  <2>2. hand'[a].plans[k] # "none" => k \notin hand'[a].unknown
    BY <2>0 DEF HandMoves
  <2>3. ASSUME OpOf("submit", k) \in Elems(sup'[a].ops) PROVE k \in hand'[a].unknown
    <3>1. OpOf("submit", k) \in Elems(sup[a].ops) \/ k \in hand'[a].unknown
      BY <1>1, <2>3 DEF ExMoves, OpsMove
    <3> QED
      BY <2>0, <2>3, <3>1 DEF HandMoves
  <2> QED
    BY <2>1, <2>2, <2>3
<1>4. OneLive'
  <2> SUFFICES ASSUME NEW a \in Arms, NEW j \in Pairs, NEW k \in Pairs,
                      sup'[a].ex[j] \in Live, sup'[a].ex[k] \in Live
               PROVE  j = k
    BY DEF OneLive
  <2>1. PICK c \in Pairs : \A i \in Pairs : ExFalls(a, i) \/ (i = c /\ ExRises(a, i))
    BY DEF ExMoves, OpsMove
  <2>2. \A i \in Pairs : sup'[a].ex[i] \in Live =>
          \/ sup[a].ex[i] \in Live
          \/ i = c /\ \A m \in Pairs : sup[a].ex[m] \notin Live
    BY <2>1 DEF ExFalls, ExRises, Live
  <2> QED
    BY <2>2 DEF PairInv, OneLive
<1>5. Staging'
  <2>1. CASE WillDo("stage")
    <3>1. UNCHANGED <<todo, hand, run>>
      BY <2>1 DEF TodoKeeps
    <3> QED
      BY <3>1 DEF PairInv, Staging, Due
  <2> QED
    BY <1>0, <2>1 DEF Staging
<1>6. Cancelling'
  <2>1. ASSUME NEW a \in Arms, NEW ok \in BOOLEAN, Comes(a, Ev("cleared", run.k, ok))
        PROVE  run'.cancelling
    <3>1. Coming(a, Ev("cleared", run.k, ok)) \/ run.cancelling
      BY <1>1, <2>1 DEF EventMoves
    <3> QED
      BY <3>1 DEF PairInv, Cancelling, RunMoves
  <2> QED
    BY <1>0, <1>1, <2>1 DEF Cancelling, RunMoves, TodoKeeps
<1>7. Truth'
  <2> SUFFICES ASSUME NEW a \in Arms,
                      Comes(a, Ev("cleared", run.k, TRUE)) \/ (run'.cancelling /\ a \notin run'.pending)
               PROVE  sup'[a].ex[run.k] \notin Live /\ run.k \notin hand'[a].unknown
    BY <1>0, <1>1 DEF Truth
  <2>1. \/ Coming(a, Ev("cleared", run.k, TRUE)) \/ (run.cancelling /\ a \notin run.pending)
        \/ sup'[a].ex[run.k] \notin Live /\ run.k \notin hand'[a].unknown
    <3> DEFINE e == Ev("cleared", run.k, TRUE)
    <3>1. e \in Event /\ e.kind = "cleared" /\ e.ok
      BY <1>1 DEF Ev
    <3> HIDE DEF e
    <3>2. Comes(a, e) => \/ Coming(a, e)
                         \/ sup'[a].ex[run.k] \notin Live /\ run.k \notin hand'[a].unknown
      BY <3>1 DEF EventMoves
    <3> QED
      BY <3>2 DEF RunMoves, e
  <2>2. CASE Coming(a, Ev("cleared", run.k, TRUE)) \/ (run.cancelling /\ a \notin run.pending)
    <3>1. sup[a].ex[run.k] \notin Live /\ run.k \notin hand[a].unknown
      BY <2>2 DEF PairInv, Truth
    <3>2. run.k \in Pairs
      BY <2>2 DEF PairInv, Cancelling
    <3>3. ExFalls(a, run.k) \/ ExRises(a, run.k)
      BY <3>2 DEF ExMoves, OpsMove
    <3>4. sup'[a].ex[run.k] \notin Live
      BY <3>1, <3>3 DEF ExFalls, ExRises, Live
    <3> QED
      BY <3>1, <3>2, <3>4 DEF HandMoves
  <2> QED
    BY <2>1, <2>2
<1> QED
  BY <1>2, <1>3, <1>4, <1>5, <1>6, <1>7

(* A mild step keeps all of it, and is as every step is.                   *)
LEMMA MovesKeep ==
  ASSUME PairInv, Types', MildStep
  PROVE  PairStep
<1> USE DEF MildStep, CoreStep
<1>0. /\ \A a \in Arms, e \in Event : Coming(a, e)' <=> Comes(a, e)
      /\ \A step : Due(step)' <=> WillDo(step)
      /\ \A a \in Arms, op \in {"submit", "release"}, k \in Pairs :
           InOps(a, op, k)' <=> OpOf(op, k) \in Elems(sup'[a].ops)
  BY DEF Coming, Comes, Due, WillDo, InOps
<1>1. /\ run.k \in 0..MaxPair /\ run'.k = run.k /\ Pairs \subseteq Nat /\ MaxPair \in Nat
      /\ \A k \in 0..MaxPair, kind \in {"staged", "cleared"}, ok \in BOOLEAN : Ev(kind, k, ok) \in Event
      /\ \A kind, k, ok : Ev(kind, k, ok).kind = kind /\ Ev(kind, k, ok).k = k /\ Ev(kind, k, ok).ok = ok
      /\ \A op, k : OpOf(op, k).op = op /\ OpOf(op, k).k = k
  BY PairAssumption DEF PairInv, Types, RunT, RunMoves, Ev, Event, OpOf, Pairs
<1>2. Held'
  <2>1. ASSUME run'.life \in {"STAGING", "READY"}, NEW a \in Arms
        PROVE  /\ ~Due("send")' /\ Free(a)'
               /\ sup'[a].ex[run.k] \notin Played /\ OpOf("release", run.k) \notin Elems(sup'[a].ops)
               /\ a \in run'.acks \/ Comes(a, Ev("staged", run.k, TRUE)) => NoRelease(a)'
    <3>1. run.life \in {"STAGING", "READY"} /\ run.k \in Pairs
      BY <2>1 DEF RunMoves, PairInv, Held, Active
    <3>2. /\ ~Due("send") /\ Free(a) /\ sup[a].ex[run.k] \notin Played
          /\ OpOf("release", run.k) \notin Elems(sup[a].ops)
          /\ a \in run.acks \/ Coming(a, Ev("staged", run.k, TRUE)) => NoRelease(a)
      BY <3>1 DEF PairInv, Held, InOps
    <3>3. rel[a] # "sent"
      BY <3>2 DEF Free
    <3>4. Free(a)' /\ ~Due("send")'
      BY <1>0, <3>2 DEF RelMoves, TodoMoves, Free
    <3>5. sup'[a].ex[run.k] \notin Played
      <4>1. ExFalls(a, run.k) \/ ExRises(a, run.k)
        BY <3>1 DEF ExMoves, OpsMove
      <4> QED
        BY <3>2, <3>3, <4>1 DEF ExFalls, ExRises, Live, Played, InOps
    <3>6. \A x \in Elems(sup'[a].ops) : x \in Elems(sup[a].ops) \/ x.op # "release"
      BY <3>3 DEF ExMoves, OpsMove
    <3>7. OpOf("release", run.k) \notin Elems(sup'[a].ops)
      BY <1>1, <3>2, <3>6
    <3>8. ASSUME a \in run'.acks \/ Comes(a, Ev("staged", run.k, TRUE)) PROVE NoRelease(a)'
      <4>1. a \in run.acks \/ Coming(a, Ev("staged", run.k, TRUE))
        <5> DEFINE e == Ev("staged", run.k, TRUE)
        <5>1. e \in Event /\ e.kind = "staged"
          BY <1>1 DEF Ev
        <5> HIDE DEF e
        <5>2. Comes(a, e) => Coming(a, e)
          BY <5>1 DEF EventMoves
        <5> QED
          BY <3>8, <5>2 DEF RunMoves, e
      <4> QED
        BY <3>2, <3>6, <4>1 DEF NoRelease
    <3> QED
      BY <3>4, <3>5, <3>7, <3>8
  <2>2. run'.life \in Active => run.k \in Pairs
    BY DEF RunMoves, PairInv, Held
  <2>3. \A a \in Arms : Coming(a, Ev("staged", run.k, TRUE))' <=> Comes(a, Ev("staged", run.k, TRUE))
    BY <1>1 DEF Coming, Comes
  <2>4. run'.k = run.k /\ (run'.life = "READY" => run'.acks = Arms)
    BY DEF RunMoves
  <2>5. ~Due("send")' \/ run'.life \notin {"STAGING", "READY"}
    BY <2>1 DEF Arms
  <2> QED
    BY <2>1, <2>2, <2>3, <2>4, <2>5 DEF Held, InOps, Comes, Coming
<1>3. Ready'
  <2>1. ASSUME Due("send")', NEW a \in Arms
        PROVE  rel'[a] # "sent" /\ NoRelease(a)' /\ \A k \in Pairs : sup'[a].ex[k] \notin Played
    <3>1. Due("send")
      BY <1>0, <2>1 DEF TodoMoves
    <3>2. rel[a] # "sent" /\ NoRelease(a) /\ \A k \in Pairs : sup[a].ex[k] \notin Played
      BY <3>1 DEF PairInv, Ready
    <3>3. \A k \in Pairs : ~InOps(a, "release", k)
      BY <1>1, <3>2 DEF NoRelease, InOps
    <3>4. ASSUME NEW k \in Pairs PROVE sup'[a].ex[k] \notin Played
      <4>1. ExFalls(a, k) \/ ExRises(a, k)
        BY DEF ExMoves, OpsMove
      <4> QED
        BY <3>2, <3>3, <4>1 DEF ExFalls, ExRises, Live, Played
    <3>5. NoRelease(a)'
      BY <3>2 DEF ExMoves, OpsMove, NoRelease
    <3> QED
      BY <3>2, <3>4, <3>5 DEF RelMoves
  <2>2. ASSUME clock' = "lead", NEW a \in Arms, NEW k \in Pairs PROVE sup'[a].ex[k] # "RUNNING"
    <3>1. clock = "lead"
      BY <2>2 DEF RelMoves
    <3>2. sup[a].ex[k] # "RUNNING"
      BY <3>1 DEF PairInv, Ready
    <3>3. ExFalls(a, k) \/ ExRises(a, k)
      BY DEF ExMoves, OpsMove
    <3> QED
      BY <2>2, <3>2, <3>3 DEF ExFalls, ExRises, Live
  <2>3. todo' # <<>> \/ (\E a \in Arms : rel'[a] = "sent") => run.k \in Pairs
    BY DEF TodoMoves, RelMoves, PairInv, Ready
  <2> QED
    BY <1>1, <2>1, <2>2, <2>3 DEF Ready, TodoMoves
<1>4. SelectsAhead
  <2>1. \A a \in Arms : \A k \in Pairs : ExFalls(a, k) \/ ExRises(a, k)
    BY DEF ExMoves
  <2> QED
    BY <2>1 DEF SelectsAhead, ExFalls, ExRises, Live
<1> QED
  BY <1>2, <1>3, <1>4, CoreKeeps DEF PairInv, PairStep

(* Nothing is wrong at the start.                                          *)
LEMMA PairStart == Init => PairInv
<1> SUFFICES ASSUME Init PROVE PairInv
  OBVIOUS
<1>0. /\ MaxPair \in Nat /\ MaxTrouble \in Nat /\ Pairs \subseteq Nat \ {0} /\ Left # Right
      /\ 0 \in 0..MaxPair /\ 0 \in 0..MaxTrouble
  BY PairAssumption DEF Pairs
<1>1. /\ run = [k |-> 0, life |-> "IDLE", acks |-> {}, results |-> {}, pending |-> {},
                cancelling |-> FALSE]
      /\ todo = <<>> /\ clock = "none" /\ trouble = 0 /\ rel = [a \in Arms |-> "no"]
  BY DEF Init, Run
<1> DEFINE h == [plans |-> [k \in Pairs |-> "none"], unknown |-> {}, events |-> <<>>,
                 faultSeen |-> FALSE]
           s == [ex |-> [k \in Pairs |-> "NONE"], armed |-> TRUE, fault |-> FALSE, ops |-> <<>>,
                 open |-> TRUE, owned |-> TRUE]
<1>2. hand = [a \in Arms |-> h] /\ sup = [a \in Arms |-> s]
  BY DEF Init
<1>3. /\ h \in HandT /\ h.unknown = {} /\ h.events = <<>> /\ \A k \in Pairs : h.plans[k] = "none"
  BY DEF HandT
<1>4. /\ s \in SupT /\ s.ops = <<>> /\ \A k \in Pairs : s.ex[k] = "NONE"
  <2>1. [k \in Pairs |-> "NONE"] \in [Pairs -> Statuses]
    BY DEF Statuses, Unknown
  <2> QED
    BY <2>1 DEF SupT
<1> HIDE DEF h, s
<1>5. \A a \in Arms : hand[a] = h /\ sup[a] = s
  BY <1>2
<1>6. Elems(<<>>) = {} /\ "NONE" \notin Live
  BY ElemsShort DEF Live
<1>7. Types
  <2>1. run \in RunT
    BY <1>0, <1>1 DEF RunT, Lives
  <2>2. todo \in Seq(StepT)
    BY <1>1
  <2>3. hand \in [Arms -> HandT] /\ sup \in [Arms -> SupT]
    BY <1>2, <1>3, <1>4
  <2> QED
    BY <1>0, <1>1, <2>1, <2>2, <2>3 DEF Types
<1>8. /\ run.k = 0 /\ run.life = "IDLE" /\ run.pending = {} /\ run.cancelling = FALSE
  BY <1>1
<1>9. \A a \in Arms : \A e : ~Coming(a, e)
  BY <1>1, <1>3, <1>5, <1>6 DEF Coming
<1>10. \A step : ~Due(step)
  BY <1>1, <1>6 DEF Due
<1>11. \A a \in Arms : Elems(sup[a].ops) = {}
  BY <1>4, <1>5, <1>6
<1>12. Fresh /\ Known /\ OneLive
  BY <1>3, <1>4, <1>5, <1>6, <1>9, <1>11 DEF Fresh, Known, OneLive, InOps
<1>13. Staging /\ Cancelling /\ Truth
  BY <1>8, <1>9, <1>10 DEF Staging, Cancelling, Truth
<1>14. Held
  BY <1>8 DEF Held, Active
<1>15. Ready
  BY <1>1, <1>10 DEF Ready, SendLast
<1> QED
  BY <1>7, <1>12, <1>13, <1>14, <1>15 DEF PairInv

-----------------------------------------------------------------------------
(* The supervisors on their own, the workers and time.                     *)

(* A step that leaves coordinator and handles alone, and changes at most   *)
(* one supervisor.                                                         *)
LEMMA OneSupervisor ==
  ASSUME PairInv, NEW a \in Arms, NEW t \in SupT, sup' = [sup EXCEPT ![a] = t],
         UNCHANGED <<run, todo, hand>>, RelMoves,
         rel' \in [Arms -> {"no", "deferred", "sent", "took", "refused", "ok", "bad"}],
         clock' \in {"none", "lead", "late", "passed"}, trouble' \in 0..MaxTrouble,
         sup'[a] = t => ExMoves(a) /\ OpsMove(a)
  PROVE  PairStep
<1>1. /\ sup' \in [Arms -> SupT] /\ sup'[a] = t /\ \A b \in Arms : b # a => sup'[b] = sup[b]
      /\ 1 \in Pairs
  BY PairAssumption DEF PairInv, Types, Pairs
<1>2. Types'
  BY <1>1 DEF PairInv, Types
<1>3. \A b \in Arms : ExMoves(b) /\ OpsMove(b)
  BY <1>1 DEF ExMoves, OpsMove, ExFalls
<1>4. \A b \in Arms : HandMoves(b)
  BY DEF HandMoves
<1>5. EventMoves
  BY DEF EventMoves, Comes, Coming
<1>6. RunMoves
  BY DEF PairInv, RunMoves, Cancelling, Held
<1>7. TodoKeeps /\ TodoMoves
  BY DEF PairInv, TodoKeeps, TodoMoves, Cancelling, Ready, WillDo, Due
<1> QED
  BY <1>2, <1>3, <1>4, <1>5, <1>6, <1>7, MovesKeep DEF MildStep, CoreStep

(* An execution that may play, or is known at all, is of a pair staged.    *)
LEMMA StagedBefore ==
  ASSUME PairInv, NEW a \in Arms, NEW k \in Pairs, sup[a].ex[k] # "NONE" \/ k \in hand[a].unknown
  PROVE  k <= run.k
<1>1. k \in Nat /\ run.k \in Nat
  BY PairAssumption DEF PairInv, Types, RunT, Pairs
<1> QED
  BY <1>1 DEF PairInv, Fresh

(* The loop performs a queued call.                                        *)
LEMMA LoopKeeps == ASSUME PairInv, NEW a \in Arms, LoopRuns(a) PROVE PairStep
<1> DEFINE s == [sup[a] EXCEPT !.ops = Tail(@)]
           x == Head(sup[a].ops)
<1>0. sup[a] \in SupT /\ sup[a].ops \in Seq(CallT) /\ sup[a].ops # <<>> /\ run.k \in 0..MaxPair
  BY DEF PairInv, Types, SupT, LoopRuns, RunT
<1>1. /\ x \in Elems(sup[a].ops) /\ x \in CallT /\ Tail(sup[a].ops) \in Seq(CallT)
      /\ Elems(Tail(sup[a].ops)) \subseteq Elems(sup[a].ops)
  BY <1>0, ElemsTail
<1>2. s \in SupT /\ s.ops = Tail(sup[a].ops) /\ s.ex = sup[a].ex
  BY <1>0, <1>1 DEF SupT
<1>3. PICK t \in Perform(s, x) : sup' = [sup EXCEPT ![a] = t]
  BY DEF LoopRuns
<1>4. UNCHANGED <<run, todo, hand, rel, clock, trouble>>
  BY DEF LoopRuns
<1> HIDE DEF s, x
<1>5. t \in SupT /\ t.ops = s.ops
  BY <1>1, <1>2, <1>3, PerformDoes
<1>6. ASSUME sup'[a] = t PROVE ExMoves(a)
  <2>0. x.k <= run.k /\ x.op \in {"submit", "release", "cancel", "lost"}
        /\ (x.op # "lost" => x.k \in Pairs /\ x = OpOf(x.op, x.k))
    BY <1>1 DEF PairInv, Fresh, CallT, OpOf
  <2>1. CASE x.op = "submit"
    <3>1. /\ \A j \in Pairs : j # x.k => t.ex[j] = s.ex[j]
          /\ \/ t.ex[x.k] = s.ex[x.k]
             \/ t.ex[x.k] = "REJECTED"
             \/ t.ex[x.k] = "ADMITTED" /\ \A j \in Pairs : s.ex[j] \notin Live
      BY <1>1, <1>2, <1>3, <2>1, PerformDoes
    <3>2. x.k \in Pairs /\ InOps(a, "submit", x.k)
      BY <1>1, <2>0, <2>1 DEF InOps
    <3>3. x.k \in hand[a].unknown /\ x.k \in hand'[a].unknown
      BY <1>4, <3>2 DEF PairInv, Known
    <3> QED
      BY <1>2, <1>6, <2>0, <3>1, <3>2, <3>3 DEF ExMoves, ExFalls, ExRises, Live
  <2>2. CASE x.op = "release"
    <3>1. /\ \A j \in Pairs : j # x.k => t.ex[j] = s.ex[j]
          /\ \/ t.ex[x.k] = s.ex[x.k]
             \/ t.ex[x.k] = "REJECTED"
             \/ t.ex[x.k] = "SELECTED" /\ s.ex[x.k] = "ADMITTED" /\ clock = "lead"
      BY <1>1, <1>2, <1>3, <2>2, PerformDoes
    <3>2. x.k \in Pairs /\ InOps(a, "release", x.k)
      BY <1>1, <2>0, <2>2 DEF InOps
    <3> QED
      BY <1>2, <1>6, <2>0, <3>1, <3>2 DEF ExMoves, ExFalls, ExRises, Live
  <2>3. CASE x.op \in {"cancel", "lost"}
    <3>1. \A j \in Pairs : t.ex[j] = s.ex[j] \/ (s.ex[j] \in Live /\ t.ex[j] = "CANCELLED")
      BY <1>1, <1>2, <1>3, <2>3, PerformDoes
    <3>2. \A j \in Pairs : s.ex[j] \in Live => j <= run.k
      BY <1>2, StagedBefore DEF Live
    <3>3. 1 \in Pairs
      BY PairAssumption DEF Pairs
    <3> QED
      BY <1>2, <1>6, <3>1, <3>2, <3>3 DEF ExMoves, ExFalls, Live
  <2> QED
    BY <2>0, <2>1, <2>2, <2>3
<1>7. ASSUME sup'[a] = t PROVE OpsMove(a)
  BY <1>1, <1>2, <1>5, <1>7 DEF OpsMove
<1> QED
  BY <1>3, <1>4, <1>5, <1>6, <1>7, OneSupervisor DEF PairInv, Types, RelMoves, Free

(* A supervisor that ends executions or drops calls.                       *)
LEMMA FallsKeep ==
  ASSUME PairInv, NEW a \in Arms, NEW t \in SupT, sup' = [sup EXCEPT ![a] = t],
         UNCHANGED <<run, todo, hand, rel, clock>>, trouble' \in 0..MaxTrouble,
         \A k \in Pairs : \/ t.ex[k] = sup[a].ex[k]
                          \/ t.ex[k] \notin Live /\ sup[a].ex[k] # "NONE",
         Elems(t.ops) \subseteq Elems(sup[a].ops) \cup {OpOf("lost", 0)}
  PROVE  PairStep
<1>1. ASSUME sup'[a] = t PROVE ExMoves(a)
  <2>1. 1 \in Pairs
    BY PairAssumption DEF Pairs
  <2>2. \A k \in Pairs : sup[a].ex[k] # "NONE" => k <= run.k
    BY StagedBefore
  <2> QED
    BY <1>1, <2>1, <2>2 DEF ExMoves, ExFalls
<1>2. ASSUME sup'[a] = t PROVE OpsMove(a)
  <2>1. run.k \in 0..MaxPair /\ OpOf("lost", 0).op = "lost" /\ OpOf("lost", 0).k = 0
    BY DEF PairInv, Types, RunT, OpOf
  <2> QED
    BY <1>2, <2>1 DEF OpsMove
<1> QED
  BY <1>1, <1>2, OneSupervisor DEF PairInv, Types, RelMoves, Free

\* A supervisor in which whatever may play has ended so.
LEMMA AllLiveDoes ==
  ASSUME NEW s \in SupT, NEW end \in Ended
  PROVE  /\ AllLive(s, end) \in SupT /\ AllLive(s, end).ops = s.ops
         /\ \A k \in Pairs : \/ AllLive(s, end).ex[k] = s.ex[k]
                             \/ AllLive(s, end).ex[k] \notin Live /\ s.ex[k] # "NONE"
<1> DEFINE E == [k \in Pairs |-> IF s.ex[k] \in Live THEN end ELSE s.ex[k]]
<1>1. E \in [Pairs -> Statuses]
  BY DEF SupT, Statuses
<1>2. \A k \in Pairs : E[k] = s.ex[k] \/ (E[k] \notin Live /\ s.ex[k] # "NONE")
  BY DEF Live, Ended
<1>3. AllLive(s, end) = [s EXCEPT !.ex = E]
  BY DEF AllLive
<1> HIDE DEF E
<1>4. AllLive(s, end) \in SupT /\ AllLive(s, end).ops = s.ops /\ AllLive(s, end).ex = E
  BY <1>1, <1>3 DEF SupT
<1> QED
  BY <1>2, <1>4

(* A session ends, an arm faults, is disarmed or armed again.              *)
LEMMA AloneKeeps ==
  ASSUME PairInv, NEW a \in Arms, SessionEnds(a) \/ Faults(a) \/ Disarms(a) \/ Rearms(a)
  PROVE  PairStep
<1>0. sup[a] \in SupT /\ trouble \in 0..MaxTrouble /\ MaxTrouble \in Nat
  BY PairAssumption DEF PairInv, Types
<1>1. CASE SessionEnds(a)
  <2> DEFINE t == [sup[a] EXCEPT !.ops = <<OpOf("lost", 0)>>]
  <2>1. /\ sup' = [sup EXCEPT ![a] = t]
        /\ UNCHANGED <<run, todo, hand, rel, clock, trouble>>
    BY <1>1 DEF SessionEnds
  <2>2. <<OpOf("lost", 0)>> \in Seq(CallT)
    BY DEF CallT
  <2>3. t \in SupT /\ t.ex = sup[a].ex /\ t.ops = <<OpOf("lost", 0)>>
    BY <1>0, <2>2 DEF SupT
  <2>4. Elems(t.ops) = {OpOf("lost", 0)}
    BY <2>3, ElemsShort
  <2> HIDE DEF t
  <2> QED
    BY <1>0, <2>1, <2>3, <2>4, FallsKeep
<1>2. CASE Faults(a)
  <2> DEFINE s == AllLive(sup[a], "FAULTED")
             t == [s EXCEPT !.armed = FALSE, !.fault = TRUE]
  <2>1. /\ sup' = [sup EXCEPT ![a] = t]
        /\ UNCHANGED <<run, todo, hand, rel, clock>> /\ trouble' \in 0..MaxTrouble
    BY <1>0, <1>2 DEF Faults
  <2>2. /\ s \in SupT /\ s.ops = sup[a].ops
        /\ \A k \in Pairs : s.ex[k] = sup[a].ex[k] \/ (s.ex[k] \notin Live /\ sup[a].ex[k] # "NONE")
    BY <1>0, AllLiveDoes DEF Ended
  <2> HIDE DEF s
  <2>3. t \in SupT /\ t.ex = s.ex /\ t.ops = s.ops
    BY <2>2 DEF SupT
  <2> HIDE DEF t
  <2>4. \A k \in Pairs : t.ex[k] = sup[a].ex[k] \/ (t.ex[k] \notin Live /\ sup[a].ex[k] # "NONE")
    BY <2>2, <2>3
  <2>5. Elems(t.ops) \subseteq Elems(sup[a].ops) \cup {OpOf("lost", 0)}
    BY <2>2, <2>3
  <2> QED
    BY <2>1, <2>3, <2>4, <2>5, FallsKeep
<1>3. CASE Disarms(a)
  <2> DEFINE s == AllLive(sup[a], "CANCELLED")
             t == [s EXCEPT !.armed = FALSE]
  <2>1. /\ sup' = [sup EXCEPT ![a] = t]
        /\ UNCHANGED <<run, todo, hand, rel, clock>> /\ trouble' \in 0..MaxTrouble
    BY <1>0, <1>3 DEF Disarms
  <2>2. /\ s \in SupT /\ s.ops = sup[a].ops
        /\ \A k \in Pairs : s.ex[k] = sup[a].ex[k] \/ (s.ex[k] \notin Live /\ sup[a].ex[k] # "NONE")
    BY <1>0, AllLiveDoes DEF Ended
  <2> HIDE DEF s
  <2>3. t \in SupT /\ t.ex = s.ex /\ t.ops = s.ops
    BY <2>2 DEF SupT
  <2> HIDE DEF t
  <2>4. \A k \in Pairs : t.ex[k] = sup[a].ex[k] \/ (t.ex[k] \notin Live /\ sup[a].ex[k] # "NONE")
    BY <2>2, <2>3
  <2>5. Elems(t.ops) \subseteq Elems(sup[a].ops) \cup {OpOf("lost", 0)}
    BY <2>2, <2>3
  <2> QED
    BY <2>1, <2>3, <2>4, <2>5, FallsKeep
<1>4. CASE Rearms(a)
  <2> DEFINE t == [sup[a] EXCEPT !.armed = TRUE, !.fault = FALSE]
  <2>1. sup' = [sup EXCEPT ![a].armed = TRUE, ![a].fault = FALSE]
        /\ UNCHANGED <<run, todo, hand, rel, clock, trouble>>
    BY <1>4 DEF Rearms
  <2>2. sup' = [sup EXCEPT ![a] = t]
    BY <1>0, <2>1 DEF PairInv, Types, SupT
  <2>3. t \in SupT /\ t.ex = sup[a].ex /\ t.ops = sup[a].ops
    BY <1>0 DEF SupT
  <2> HIDE DEF t
  <2> QED
    BY <1>0, <2>1, <2>2, <2>3, FallsKeep
<1> QED
  BY <1>1, <1>2, <1>3, <1>4

\* One execution of one supervisor takes another status.
LEMMA ExSet ==
  ASSUME NEW s \in SupT, NEW k \in Pairs, NEW e \in Statuses
  PROVE  /\ [s EXCEPT !.ex[k] = e] \in SupT /\ [s EXCEPT !.ex[k] = e].ops = s.ops
         /\ [s EXCEPT !.ex[k] = e].ex = [s.ex EXCEPT ![k] = e]
BY DEF SupT

(* A leg starts, finishes, or is forgotten.                                *)
LEMMA LegKeeps ==
  ASSUME PairInv, NEW a \in Arms, NEW k \in Pairs, Starts(a, k) \/ Finishes(a, k) \/ Prunes(a, k)
  PROVE  PairStep
<1>0. /\ sup[a] \in SupT /\ sup[a].ex \in [Pairs -> Statuses] /\ trouble \in 0..MaxTrouble
      /\ MaxTrouble \in Nat
  BY PairAssumption DEF PairInv, Types, SupT
<1>1. CASE Starts(a, k)
  <2> DEFINE t == [sup[a] EXCEPT !.ex[k] = "RUNNING"]
  <2>1. /\ sup' = [sup EXCEPT ![a] = t] /\ sup[a].ex[k] = "SELECTED" /\ clock = "passed"
        /\ UNCHANGED <<run, todo, hand, rel, clock, trouble>>
    BY <1>1 DEF Starts
  <2>2. t \in SupT /\ t.ops = sup[a].ops /\ t.ex = [sup[a].ex EXCEPT ![k] = "RUNNING"]
    BY <1>0, ExSet DEF Statuses, Live
  <2> HIDE DEF t
  <2>3. ASSUME sup'[a] = t PROVE ExMoves(a) /\ OpsMove(a)
    BY <1>0, <2>1, <2>2, <2>3 DEF ExMoves, OpsMove, ExFalls, ExRises
  <2> QED
    BY <1>0, <2>1, <2>2, <2>3, OneSupervisor DEF PairInv, Types, RelMoves, Free
<1>2. ASSUME NEW e \in Statuses \ Live, sup' = [sup EXCEPT ![a].ex[k] = e], sup[a].ex[k] # "NONE",
             UNCHANGED <<run, todo, hand, rel, clock>>, trouble' \in 0..MaxTrouble
      PROVE  PairStep
  <2> DEFINE t == [sup[a] EXCEPT !.ex[k] = e]
  <2>1. sup' = [sup EXCEPT ![a] = t]
    BY <1>2
  <2>2. t \in SupT /\ t.ops = sup[a].ops /\ t.ex = [sup[a].ex EXCEPT ![k] = e]
    BY <1>0, ExSet
  <2> HIDE DEF t
  <2>3. \A j \in Pairs : t.ex[j] = sup[a].ex[j] \/ (t.ex[j] \notin Live /\ sup[a].ex[j] # "NONE")
    BY <1>0, <1>2, <2>2
  <2>4. Elems(t.ops) \subseteq Elems(sup[a].ops) \cup {OpOf("lost", 0)}
    BY <2>2
  <2> QED
    BY <1>2, <2>1, <2>2, <2>3, <2>4, FallsKeep
<1>3. CASE Finishes(a, k)
  BY <1>0, <1>2, <1>3 DEF Finishes, Statuses, Live, Ended
<1>4. CASE Prunes(a, k)
  <2>1. trouble' \in 0..MaxTrouble
    BY <1>0, <1>4 DEF Prunes
  <2> QED
    BY <1>2, <1>4, <2>1 DEF Prunes, Statuses, Live, Ended, Unknown
<1> QED
  BY <1>1, <1>3, <1>4

(* A worker sends its release, or reads the answer; the stamp comes near.  *)
LEMMA WorkerKeeps ==
  ASSUME PairInv, NEW a \in Arms, Worker(a)
  PROVE  PairStep
<1>0. /\ sup[a] \in SupT /\ trouble \in 0..MaxTrouble /\ run.k \in 0..MaxPair
      /\ rel \in [Arms -> {"no", "deferred", "sent", "took", "refused", "ok", "bad"}]
      /\ clock \in {"none", "lead", "late", "passed"}
  BY DEF PairInv, Types, RunT
<1>1. CASE ReleaseSent(a)
  <2> DEFINE x == OpOf("release", run.k)
  <2>0. rel[a] = "sent" /\ run.k \in Pairs
    BY <1>1 DEF ReleaseSent, PairInv, Ready
  <2>1. x \in CallT /\ x.op = "release" /\ x.k = run.k
    BY <2>0 DEF CallT, OpOf
  <2>2. PICK o \in Calls(a, x) :
          /\ Applied(a, o)
          /\ rel' = [rel EXCEPT ![a] = IF ~o.ok THEN "bad"
                                       ELSE IF o.s.ex[run.k] = "SELECTED" THEN "took"
                                       ELSE "refused"]
    BY <1>1 DEF ReleaseSent
  <2>3. UNCHANGED <<run, todo, hand, clock>>
    BY <1>1 DEF ReleaseSent
  <2> HIDE DEF x
  <2>4. /\ o.s \in SupT /\ o.ok \in BOOLEAN /\ trouble + o.cost \in 0..MaxTrouble
        /\ o.ok => o.s \in Perform(sup[a], x) /\ sup[a].ops = <<>> /\ o.s.ops = <<>>
        /\ ~o.ok => o.s.ex = sup[a].ex /\ Elems(o.s.ops) \subseteq Elems(sup[a].ops) \cup {x}
    BY <2>1, <2>2, CallDoes DEF PairInv
  <2>5. sup' = [sup EXCEPT ![a] = o.s] /\ trouble' \in 0..MaxTrouble
    BY <2>2, <2>4 DEF Applied
  <2>6. RelMoves /\ rel' \in [Arms -> {"no", "deferred", "sent", "took", "refused", "ok", "bad"}]
    BY <1>0, <2>0, <2>2, <2>3 DEF RelMoves, Free
  <2>7. ASSUME sup'[a] = o.s PROVE ExMoves(a)
    <3>1. CASE ~o.ok
      BY <2>0, <2>4, <2>7, <3>1 DEF ExMoves, ExFalls
    <3>2. CASE o.ok
      <4>1. /\ \A j \in Pairs : j # x.k => o.s.ex[j] = sup[a].ex[j]
            /\ \/ o.s.ex[x.k] = sup[a].ex[x.k]
               \/ o.s.ex[x.k] = "REJECTED"
               \/ o.s.ex[x.k] = "SELECTED" /\ sup[a].ex[x.k] = "ADMITTED" /\ clock = "lead"
        BY <1>0, <2>1, <2>4, <3>2, PerformDoes
      <4> QED
        BY <1>0, <2>0, <2>1, <2>7, <4>1 DEF ExMoves, ExFalls, ExRises, Live
    <3> QED
      BY <3>1, <3>2
  <2>8. ASSUME sup'[a] = o.s PROVE OpsMove(a)
    BY <2>0, <2>1, <2>4, <2>8, ElemsShort DEF OpsMove
  <2> QED
    BY <1>0, <2>3, <2>4, <2>5, <2>6, <2>7, <2>8, OneSupervisor
<1>2. CASE ReplyRead(a)
  <2>1. UNCHANGED <<run, todo, hand, sup, clock, trouble>>
    BY <1>2 DEF ReplyRead
  <2>2. rel' = [rel EXCEPT ![a] = IF rel[a] = "took" THEN "ok" ELSE "bad"]
    BY <1>2 DEF ReplyRead
  <2>3. RelMoves /\ rel' \in [Arms -> {"no", "deferred", "sent", "took", "refused", "ok", "bad"}]
    BY <1>0, <2>1, <2>2 DEF RelMoves, Free
  <2>4. sup' = [sup EXCEPT ![a] = sup[a]]
    BY <2>1 DEF PairInv, Types
  <2>5. ExMoves(a) /\ OpsMove(a)
    BY <2>1, PairAssumption DEF ExMoves, OpsMove, ExFalls, Pairs
  <2> QED
    BY <1>0, <2>1, <2>3, <2>4, <2>5, OneSupervisor
<1> QED
  BY <1>1, <1>2 DEF Worker

(* The stamp comes near, and passes.                                       *)
LEMMA TimeKeeps == ASSUME PairInv, LeadPasses PROVE PairStep
<1>1. /\ UNCHANGED <<run, todo, hand, sup, rel, trouble>> /\ clock' \in {"late", "passed"}
  BY DEF LeadPasses
<1>2. Left \in Arms /\ sup[Left] \in SupT /\ sup' = [sup EXCEPT ![Left] = sup[Left]]
  BY <1>1 DEF PairInv, Types, Arms
<1>3. ExMoves(Left) /\ OpsMove(Left)
  BY <1>1, PairAssumption DEF ExMoves, OpsMove, ExFalls, Pairs
<1>4. RelMoves
  BY <1>1 DEF RelMoves, Free
<1> QED
  BY <1>1, <1>2, <1>3, <1>4, OneSupervisor DEF PairInv, Types

-----------------------------------------------------------------------------
(* The coordinator's thread.                                               *)

RelT == {"no", "deferred", "sent", "took", "refused", "ok", "bad"}
ClockT == {"none", "lead", "late", "passed"}

NewEvent(a, e) ==
  \/ e.k <= run.k /\ e.kind \notin {"staged", "cleared"}
  \/ /\ e.kind = "cleared" /\ e.k = run.k /\ run.cancelling
     /\ e.ok => sup'[a].ex[run.k] \notin Live /\ run.k \notin hand'[a].unknown
NewStep(a, x) ==
  /\ x.do \notin {"stage", "send"}
  /\ x.do \in {"cancel", "cancelFound"} => run'.cancelling
  /\ x.ev = NoEvent \/ (x.arm = a /\ (Coming(a, x.ev) \/ NewEvent(a, x.ev)))

(* A step of the thread that concerns one arm.                             *)
LEMMA ThreadKeeps ==
  ASSUME PairInv, ~Due("stage"), NEW a \in Arms, NEW t \in SupT, NEW h \in HandT,
         sup' = [sup EXCEPT ![a] = t], hand' = [hand EXCEPT ![a] = h],
         run' \in RunT, todo' \in Seq(StepT), rel' \in [Arms -> RelT], clock' \in ClockT,
         trouble' \in 0..MaxTrouble, RunMoves, RelMoves, SendLast(todo'), run.k \in Pairs,
         sup'[a] = t /\ hand'[a] = h =>
           /\ ExMoves(a) /\ OpsMove(a) /\ HandMoves(a)
           /\ \A e \in Elems(h.events) : Coming(a, e) \/ NewEvent(a, e)
           /\ \A x \in Elems(todo') : x \in Elems(todo) \/ NewStep(a, x)
  PROVE  PairStep
<1>1. /\ sup' \in [Arms -> SupT] /\ sup'[a] = t /\ \A b \in Arms : b # a => sup'[b] = sup[b]
      /\ hand' \in [Arms -> HandT] /\ hand'[a] = h /\ \A b \in Arms : b # a => hand'[b] = hand[b]
      /\ 1 \in Pairs
  BY PairAssumption DEF PairInv, Types, Pairs
<1>2. Types'
  BY <1>1 DEF PairInv, Types, RelT, ClockT
<1>3. \A b \in Arms : ExMoves(b) /\ OpsMove(b) /\ HandMoves(b)
  <2> SUFFICES ASSUME NEW b \in Arms, b # a PROVE ExMoves(b) /\ OpsMove(b) /\ HandMoves(b)
    BY <1>1
  <2> QED
    BY <1>1 DEF ExMoves, OpsMove, ExFalls, HandMoves
<1>4. /\ \A e \in Elems(h.events) : Coming(a, e) \/ NewEvent(a, e)
      /\ \A x \in Elems(todo') : x \in Elems(todo) \/ NewStep(a, x)
  BY <1>1
<1>5. EventMoves
  <2> SUFFICES ASSUME NEW b \in Arms, NEW e \in Event, Comes(b, e)
               PROVE  Coming(b, e) \/ NewEvent(b, e)
    BY DEF EventMoves, NewEvent
  <2>0. NoEvent.k <= run.k /\ NoEvent.kind \notin {"staged", "cleared"}
    BY DEF NoEvent, Ev, PairInv, Types, RunT
  <2>1. CASE e \in Elems(hand'[b].events)
    BY <1>1, <1>4, <2>1 DEF Coming
  <2>2. CASE \E x \in Elems(todo') : x.arm = b /\ x.ev = e
    <3>1. PICK x \in Elems(todo') : x.arm = b /\ x.ev = e
      BY <2>2
    <3>2. CASE x \in Elems(todo)
      BY <3>1, <3>2 DEF Coming
    <3>3. CASE x.ev = NoEvent
      BY <2>0, <3>1, <3>3 DEF NewEvent
    <3> QED
      BY <1>4, <3>1, <3>2, <3>3 DEF NewStep
  <2> QED
    BY <2>1, <2>2 DEF Comes
<1>6. TodoKeeps /\ TodoMoves
  <2>1. ~WillDo("stage") /\ (WillDo("send") => Due("send"))
    BY <1>4 DEF WillDo, Due, NewStep
  <2>2. ASSUME WillDo("cancel") \/ WillDo("cancelFound") PROVE run'.cancelling
    <3>1. Due("cancel") \/ Due("cancelFound") => run'.cancelling
      BY DEF PairInv, Cancelling, RunMoves
    <3> QED
      BY <1>4, <2>2, <3>1 DEF WillDo, Due, NewStep
  <2> QED
    BY <2>1, <2>2 DEF TodoKeeps, TodoMoves
<1> QED
  BY <1>2, <1>3, <1>5, <1>6, MovesKeep DEF MildStep, CoreStep

(* The thread takes the next step; staging comes before all others.        *)
LEMMA RestDoes ==
  ASSUME PairInv, todo # <<>>
  PROVE  /\ Rest \in Seq(StepT) /\ Elems(Rest) \subseteq Elems(todo) /\ SendLast(Rest)
         /\ Head(todo) \in Elems(todo) /\ Head(todo) \in StepT
         /\ Head(todo).do # "stage" => ~Due("stage")
         /\ Head(todo).do = "send" => Rest = <<>>
         /\ run.k \in Pairs
<1>1. todo \in Seq(StepT) /\ SendLast(todo) /\ run.k \in Pairs
  BY DEF PairInv, Types, Ready
<1>2. ASSUME Due("stage") PROVE Head(todo).do = "stage"
  <2>1. todo \in {<<Do("stage", Left), Do("stage", Right)>>, <<Do("stage", Right)>>}
    BY <1>2 DEF PairInv, Staging
  <2> QED
    BY <2>1 DEF Do
<1> QED
  BY <1>1, <1>2, ElemsTail, SendStaysLast DEF Rest

(* A supervisor as it is, but for its channel.                             *)
LEMMA SupSame ==
  ASSUME NEW a \in Arms, sup'[a].ex = sup[a].ex, sup'[a].ops = sup[a].ops
  PROVE  ExMoves(a) /\ OpsMove(a)
<1>1. 1 \in Pairs
  BY PairAssumption DEF Pairs
<1> QED
  BY <1>1 DEF ExMoves, ExFalls, OpsMove

(* The run as it is.                                                       *)
LEMMA RunSame == ASSUME PairInv, UNCHANGED run PROVE RunMoves /\ run' \in RunT
BY DEF PairInv, Types, RunMoves, Cancelling, Held

\* A step without an event.
LEMMA StepMade ==
  ASSUME NEW step \in Steps, NEW a \in Arms
  PROVE  /\ Do(step, a) \in StepT /\ Do(step, a).do = step /\ Do(step, a).arm = a
         /\ Do(step, a).ev = NoEvent
BY PairAssumption DEF Do, StepT, NoEvent, Ev, Event

(* The same step on some arms.                                             *)
LEMMA ForEachDoes ==
  ASSUME NEW step \in Steps, NEW As \in SUBSET Arms, NEW s \in Orders
  PROVE  /\ ForEach(step, As, s) \in Seq(StepT)
         /\ \A x \in Elems(ForEach(step, As, s)) : x.do = step /\ x.ev = NoEvent
<1> DEFINE l == Do(step, s[1])
           r == Do(step, s[2])
           p == IF s[1] \in As THEN <<l>> ELSE <<>>
           q == IF s[2] \in As THEN <<r>> ELSE <<>>
<1>1. /\ l \in StepT /\ l.do = step /\ l.ev = NoEvent
      /\ r \in StepT /\ r.do = step /\ r.ev = NoEvent
  <2>1. s[1] \in Arms /\ s[2] \in Arms
    BY DEF Orders, Arms
  <2> QED
    BY <2>1, StepMade
<1>2. ForEach(step, As, s) = p \o q
  BY DEF ForEach
<1> HIDE DEF l, r
<1>3. p \in Seq(StepT) /\ q \in Seq(StepT) /\ Elems(p) \subseteq {l} /\ Elems(q) \subseteq {r}
  <2>1. <<l>> \in Seq(StepT) /\ <<r>> \in Seq(StepT) /\ <<>> \in Seq(StepT)
    BY <1>1
  <2>2. Elems(<<l>>) = {l} /\ Elems(<<r>>) = {r} /\ Elems(<<>>) = {}
    BY ElemsShort
  <2>3. (p = <<l>> \/ p = <<>>) /\ (q = <<r>> \/ q = <<>>)
    OBVIOUS
  <2> HIDE DEF p, q
  <2> QED
    BY <2>1, <2>2, <2>3
<1> HIDE DEF p, q
<1>4. p \o q \in Seq(StepT) /\ Elems(p \o q) = Elems(p) \cup Elems(q)
  BY <1>3, ElemsCat
<1> QED
  BY <1>1, <1>2, <1>3, <1>4

(* An abort asks both arms to cancel, once.                                *)
LEMMA AbortDoes ==
  ASSUME PairInv, NEW life \in Lives \ Active, NEW rest \in Seq(StepT), SendLast(rest),
         Abort(life, rest)
  PROVE  /\ run' \in RunT /\ RunMoves /\ todo' \in Seq(StepT) /\ SendLast(todo')
         /\ \A x \in Elems(todo') :
              \/ x \in Elems(rest)
              \/ x.do = "cancel" /\ x.ev = NoEvent /\ run'.cancelling
<1>0. run \in RunT
  BY DEF PairInv, Types
<1>1. CASE run.life \in Active
  <2>1. run' = [run EXCEPT !.life = life, !.cancelling = TRUE, !.pending = Arms]
    BY <1>1 DEF Abort
  <2>2. /\ run' \in RunT /\ run'.k = run.k /\ run'.life = life /\ run'.cancelling = TRUE
        /\ run'.pending = Arms /\ run'.acks = run.acks
    BY <1>0, <2>1 DEF RunT
  <2>3. run.k \in Pairs
    BY <1>1 DEF PairInv, Held
  <2>4. RunMoves
    BY <2>2, <2>3 DEF RunMoves, Active
  <2>5. PICK s \in Orders : todo' = ForEach("cancel", Arms, s) \o rest
    BY <1>1 DEF Abort
  <2> DEFINE p == ForEach("cancel", Arms, s)
  <2>7. p \in Seq(StepT) /\ \A x \in Elems(p) : x.do = "cancel" /\ x.ev = NoEvent
    <3>1. "cancel" \in Steps /\ Arms \in SUBSET Arms
      BY DEF Steps
    <3> QED
      BY <3>1, ForEachDoes, Zenon
  <2> HIDE DEF p
  <2>8. p \o rest \in Seq(StepT) /\ Elems(p \o rest) = Elems(p) \cup Elems(rest)
    BY <2>7, ElemsCat
  <2>9. SendLast(p \o rest)
    BY <2>7, SendStaysLast
  <2> QED
    BY <2>2, <2>4, <2>5, <2>7, <2>8, <2>9 DEF p
<1>2. CASE run.life \notin Active
  BY <1>2, RunSame DEF Abort
<1> QED
  BY <1>1, <1>2

(* A leg that a handle reports is of a pair staged.                        *)
LEMMA LegIsNew ==
  ASSUME PairInv, NEW a \in Arms, NEW e, LegOf(hand[a], e)
  PROVE  NewEvent(a, e)
<1>1. PICK k \in Pairs : hand[a].plans[k] = "released" /\ e.k = k
  BY DEF LegOf
<1>2. k <= run.k
  BY <1>1, PairAssumption DEF PairInv, Fresh, Types, RunT, Pairs
<1> QED
  BY <1>1, <1>2 DEF NewEvent, LegOf

(* A poll: what was told and what has ended is on its way.                 *)
LEMMA PollKeeps == ASSUME PairInv, NEW a \in Arms, Poll(a) PROVE PairStep
<1>0. /\ sup[a] \in SupT /\ hand[a] \in HandT /\ hand[a].events \in Seq(Event) /\ Types
      /\ rel \in [Arms -> RelT] /\ clock \in ClockT
  BY DEF PairInv, Types, HandT, RelT, ClockT
<1>1. todo # <<>> /\ Head(todo).do = "poll"
  BY DEF Poll, At
<1>2. /\ Rest \in Seq(StepT) /\ Elems(Rest) \subseteq Elems(todo) /\ SendLast(Rest)
      /\ ~Due("stage") /\ run.k \in Pairs
  BY <1>1, RestDoes
<1>3. PICK o \in Reads(a) :
        /\ Applied(a, o)
        /\ IF o.ok
           THEN /\ hand' = [hand EXCEPT ![a] = Polled(@, o.s)]
                /\ todo' = Deliveries(a, hand[a].events \o LegEvents(hand[a], o.s)
                                           \o FaultEvents(hand[a], o.s)) \o Rest
           ELSE /\ hand' = [hand EXCEPT ![a].events = <<>>]
                /\ todo' = Deliveries(a, hand[a].events) \o Rest
  BY DEF Poll
<1>4. UNCHANGED <<run, rel, clock>>
  BY DEF Poll
<1>5. /\ o.s \in SupT /\ o.s.ex = sup[a].ex /\ o.s.ops = sup[a].ops /\ o.ok \in BOOLEAN
      /\ trouble + o.cost \in 0..MaxTrouble
  BY <1>0, ReadDoes
<1>6. PICK h \in HandT, es \in Seq(Event) :
        /\ hand' = [hand EXCEPT ![a] = h] /\ todo' = Deliveries(a, es) \o Rest
        /\ h.events = <<>> /\ h.unknown = hand[a].unknown
        /\ \A k \in Pairs : \/ h.plans[k] = hand[a].plans[k]
                            \/ hand[a].plans[k] # "none" /\ o.s.ex[k] \notin Live
        /\ \A e \in Elems(es) : e \in Elems(hand[a].events) \/ LegOf(hand[a], e) \/ e = NoEvent
  <2>1. CASE o.ok
    <3> DEFINE h == Polled(hand[a], o.s)
               es == hand[a].events \o LegEvents(hand[a], o.s) \o FaultEvents(hand[a], o.s)
    <3>1. /\ h \in HandT /\ h.unknown = hand[a].unknown /\ h.events = <<>>
          /\ \A k \in Pairs : \/ h.plans[k] = hand[a].plans[k]
                              \/ hand[a].plans[k] # "none" /\ o.s.ex[k] \notin Live
      BY <1>0, <1>5, PolledDoes
    <3>2. es \in Seq(Event) /\ \A e \in Elems(es) : e \in Elems(hand[a].events) \/ LegOf(hand[a], e) \/ e = NoEvent
      BY <1>0, <1>5, ReportsMade
    <3>3. hand' = [hand EXCEPT ![a] = h] /\ todo' = Deliveries(a, es) \o Rest
      BY <1>3, <2>1
    <3> HIDE DEF h, es
    <3> QED
      BY <3>1, <3>2, <3>3
  <2>2. CASE ~o.ok
    <3> DEFINE h == [hand[a] EXCEPT !.events = <<>>]
    <3>1. h \in HandT /\ h.unknown = hand[a].unknown /\ h.events = <<>> /\ h.plans = hand[a].plans
      <4>1. <<>> \in Seq(Event)
        OBVIOUS
      <4> QED
        BY <1>0, <4>1 DEF HandT
    <3>2. hand' = [hand EXCEPT ![a] = h] /\ todo' = Deliveries(a, hand[a].events) \o Rest
      BY <1>3, <2>2
    <3> HIDE DEF h
    <3> QED
      BY <1>0, <3>1, <3>2
  <2> QED
    BY <1>5, <2>1, <2>2
<1>7. /\ Deliveries(a, es) \in Seq(StepT)
      /\ \A x \in Elems(Deliveries(a, es)) : x.do = "event" /\ x.arm = a /\ x.ev \in Elems(es)
  BY DeliveriesMade
<1>8. /\ todo' \in Seq(StepT) /\ SendLast(todo')
      /\ Elems(todo') = Elems(Deliveries(a, es)) \cup Elems(Rest)
  BY <1>2, <1>6, <1>7, ElemsCat, SendStaysLast
<1>9. ASSUME sup'[a] = o.s, hand'[a] = h
      PROVE  /\ ExMoves(a) /\ OpsMove(a) /\ HandMoves(a)
             /\ \A e \in Elems(h.events) : Coming(a, e) \/ NewEvent(a, e)
             /\ \A x \in Elems(todo') : x \in Elems(todo) \/ NewStep(a, x)
  <2>1. ExMoves(a) /\ OpsMove(a)
    BY <1>5, <1>9, SupSame
  <2>2. HandMoves(a)
    BY <1>5, <1>6, <1>9 DEF HandMoves
  <2>3. Elems(h.events) = {}
    BY <1>6, ElemsShort
  <2>4. ASSUME NEW x \in Elems(Deliveries(a, es)) PROVE NewStep(a, x)
    <3>1. x.do = "event" /\ x.arm = a /\ x.ev \in Elems(es)
      BY <1>7, <2>4
    <3>2. CASE x.ev \in Elems(hand[a].events)
      BY <3>1, <3>2 DEF NewStep, Coming
    <3>3. CASE LegOf(hand[a], x.ev)
      BY <3>1, <3>3, LegIsNew DEF NewStep
    <3>4. CASE x.ev = NoEvent
      BY <3>1, <3>4 DEF NewStep
    <3> QED
      BY <1>6, <3>1, <3>2, <3>3, <3>4
  <2> QED
    BY <1>2, <1>8, <2>1, <2>2, <2>3, <2>4
<1>10. RunMoves /\ run' \in RunT /\ RelMoves /\ trouble' \in 0..MaxTrouble
       /\ sup' = [sup EXCEPT ![a] = o.s] /\ rel' \in [Arms -> RelT] /\ clock' \in ClockT
  BY <1>0, <1>3, <1>4, <1>5, RunSame DEF RelMoves, Free, Applied
<1> QED
  BY <1>2, <1>5, <1>6, <1>8, <1>9, <1>10, ThreadKeeps

(* A look at an arm's state drops what is over, and may abort.             *)
LEMMA LookKeeps == ASSUME PairInv, NEW a \in Arms, Look(a) PROVE PairStep
<1>0. /\ sup[a] \in SupT /\ hand[a] \in HandT /\ Types /\ rel \in [Arms -> RelT] /\ clock \in ClockT
      /\ hand = [hand EXCEPT ![a] = hand[a]]
  BY DEF PairInv, Types, RelT, ClockT
<1>1. todo # <<>> /\ Head(todo).do = "look"
  BY DEF Look, At
<1>2. /\ Rest \in Seq(StepT) /\ Elems(Rest) \subseteq Elems(todo) /\ SendLast(Rest)
      /\ ~Due("stage") /\ run.k \in Pairs
  BY <1>1, RestDoes
<1>3. PICK o \in Reads(a) :
        /\ Applied(a, o)
        /\ hand' = IF o.ok THEN [hand EXCEPT ![a] = Pruned(@, o.s)] ELSE hand
        /\ \/ Abort("FAULTED", Rest) \/ Abort("REJECTED", Rest) \/ (run' = run /\ todo' = Rest)
  BY DEF Look
<1>4. UNCHANGED <<rel, clock>>
  BY DEF Look
<1>5. /\ o.s \in SupT /\ o.s.ex = sup[a].ex /\ o.s.ops = sup[a].ops /\ o.ok \in BOOLEAN
      /\ trouble + o.cost \in 0..MaxTrouble
  BY <1>0, ReadDoes
<1>6. PICK h \in HandT :
        /\ hand' = [hand EXCEPT ![a] = h] /\ h.unknown = hand[a].unknown
        /\ \A k \in Pairs : \/ h.plans[k] = hand[a].plans[k]
                            \/ h.plans[k] = "none" /\ o.s.ex[k] \notin Live
        /\ \A e \in Elems(h.events) : e \in Elems(hand[a].events) \/ LegOf(hand[a], e)
  <2>1. CASE o.ok
    <3> DEFINE h == Pruned(hand[a], o.s)
    <3>1. /\ h \in HandT /\ h.unknown = hand[a].unknown
          /\ \A k \in Pairs : \/ h.plans[k] = hand[a].plans[k]
                              \/ h.plans[k] = "none" /\ o.s.ex[k] \notin Live
          /\ \A e \in Elems(h.events) : e \in Elems(hand[a].events) \/ LegOf(hand[a], e)
      BY <1>0, <1>5, PrunedDoes
    <3>2. hand' = [hand EXCEPT ![a] = h]
      BY <1>3, <2>1
    <3> HIDE DEF h
    <3> QED
      BY <3>1, <3>2
  <2>2. CASE ~o.ok
    BY <1>0, <1>3, <2>2
  <2> QED
    BY <1>5, <2>1, <2>2
<1>7. /\ run' \in RunT /\ RunMoves /\ todo' \in Seq(StepT) /\ SendLast(todo')
      /\ \A x \in Elems(todo') : x \in Elems(Rest) \/ (x.do = "cancel" /\ x.ev = NoEvent /\ run'.cancelling)
  <2>1. "FAULTED" \in Lives \ Active /\ "REJECTED" \in Lives \ Active
    BY DEF Lives, Active
  <2> QED
    BY <1>2, <1>3, <2>1, AbortDoes, RunSame
<1>8. ASSUME sup'[a] = o.s, hand'[a] = h
      PROVE  /\ ExMoves(a) /\ OpsMove(a) /\ HandMoves(a)
             /\ \A e \in Elems(h.events) : Coming(a, e) \/ NewEvent(a, e)
             /\ \A x \in Elems(todo') : x \in Elems(todo) \/ NewStep(a, x)
  <2>1. ExMoves(a) /\ OpsMove(a)
    BY <1>5, <1>8, SupSame
  <2>2. HandMoves(a)
    BY <1>5, <1>6, <1>8 DEF HandMoves
  <2>3. ASSUME NEW e \in Elems(h.events) PROVE Coming(a, e) \/ NewEvent(a, e)
    BY <1>6, <2>3, LegIsNew DEF Coming
  <2>4. \A x \in Elems(todo') : x \in Elems(todo) \/ NewStep(a, x)
    BY <1>2, <1>7 DEF NewStep
  <2> QED
    BY <2>1, <2>2, <2>3, <2>4
<1>9. RelMoves /\ trouble' \in 0..MaxTrouble /\ sup' = [sup EXCEPT ![a] = o.s]
      /\ rel' \in [Arms -> RelT] /\ clock' \in ClockT
  BY <1>0, <1>3, <1>4, <1>5 DEF RelMoves, Free, Applied
<1> QED
  BY <1>2, <1>5, <1>6, <1>7, <1>8, <1>9, ThreadKeeps

(* A handle that tells of something.                                       *)
LEMMA ToldDoes ==
  ASSUME NEW h \in HandT, NEW e \in Event
  PROVE  /\ Told(h, e) \in HandT /\ Told(h, e).plans = h.plans /\ Told(h, e).unknown = h.unknown
         /\ Elems(Told(h, e).events) = Elems(h.events) \cup {e}
<1>1. /\ h.events \in Seq(Event) /\ Append(h.events, e) \in Seq(Event)
      /\ Elems(Append(h.events, e)) = Elems(h.events) \cup {e}
  BY ElemsAppend DEF HandT
<1>2. Told(h, e) = [h EXCEPT !.events = Append(h.events, e)]
  BY DEF Told
<1>3. /\ Told(h, e) \in HandT /\ Told(h, e).plans = h.plans /\ Told(h, e).unknown = h.unknown
      /\ Told(h, e).events = Append(h.events, e)
  BY <1>1, <1>2 DEF HandT
<1> QED
  BY <1>1, <1>3

(* A step of the thread that answers a cancel on one arm: it has nothing   *)
(* to cancel any more, or it tells that it has not cleared the arm.        *)
LEMMA AnswerKeeps ==
  ASSUME PairInv, NEW a \in Arms, todo # <<>>, Head(todo).do \in {"cancel", "cancelFound"},
         NEW t \in SupT, NEW g \in HandT, NEW ok \in BOOLEAN,
         sup' = [sup EXCEPT ![a] = t],
         hand' = [hand EXCEPT ![a] = Told(g, Ev("cleared", run.k, ok))], todo' = Rest,
         UNCHANGED <<run, rel, clock>>, trouble' \in 0..MaxTrouble,
         \A e \in Elems(g.events) : e \in Elems(hand[a].events) \/ LegOf(hand[a], e),
         sup'[a] = t => ExMoves(a),
         sup'[a] = t => OpsMove(a),
         \A k \in Pairs : \/ g.plans[k] = hand[a].plans[k]
                          \/ hand[a].plans[k] # "none" /\ (g.plans[k] # "none" \/ t.ex[k] \notin Live),
         \A k \in Pairs : k \in g.unknown => k \in hand[a].unknown,
         \A k \in Pairs : k \in hand[a].unknown /\ k \notin g.unknown =>
            t.ex[k] \notin Live /\ OpOf("submit", k) \notin Elems(t.ops),
         ok => t.ex[run.k] \notin Live /\ run.k \notin g.unknown
  PROVE  PairStep
<1> DEFINE e0 == Ev("cleared", run.k, ok)
           h == Told(g, e0)
<1>1. /\ Rest \in Seq(StepT) /\ Elems(Rest) \subseteq Elems(todo) /\ SendLast(Rest)
      /\ ~Due("stage") /\ Head(todo) \in Elems(todo) /\ run.k \in Pairs
  BY RestDoes
<1>2. run.cancelling
  BY <1>1 DEF PairInv, Cancelling, Due
<1>3. run.k \in 0..MaxPair /\ rel \in [Arms -> RelT] /\ clock \in ClockT
  BY DEF PairInv, Types, RunT, RelT, ClockT
<1>4. e0 \in Event /\ e0.kind = "cleared" /\ e0.k = run.k /\ e0.ok = ok
  BY <1>3 DEF Ev, Event
<1> HIDE DEF e0
<1>5. /\ h \in HandT /\ h.plans = g.plans /\ h.unknown = g.unknown
      /\ Elems(h.events) = Elems(g.events) \cup {e0}
  BY <1>4, ToldDoes
<1>6. hand' = [hand EXCEPT ![a] = h]
  BY DEF e0
<1> HIDE DEF h
<1>7. ASSUME sup'[a] = t, hand'[a] = h
      PROVE  /\ ExMoves(a) /\ OpsMove(a) /\ HandMoves(a)
             /\ \A e \in Elems(h.events) : Coming(a, e) \/ NewEvent(a, e)
             /\ \A x \in Elems(todo') : x \in Elems(todo) \/ NewStep(a, x)
  <2>1. HandMoves(a)
    BY <1>5, <1>7 DEF HandMoves
  <2>2. NewEvent(a, e0)
    BY <1>2, <1>4, <1>5, <1>7 DEF NewEvent
  <2>3. \A e \in Elems(h.events) : Coming(a, e) \/ NewEvent(a, e)
    BY <1>5, <2>2, LegIsNew DEF Coming
  <2> QED
    BY <1>1, <1>7, <2>1, <2>3
<1>8. RunMoves /\ run' \in RunT /\ RelMoves /\ rel' \in [Arms -> RelT] /\ clock' \in ClockT
  BY <1>3, RunSame DEF RelMoves, Free
<1>9. todo' \in Seq(StepT) /\ SendLast(todo')
  BY <1>1
<1> QED
  BY <1>1, <1>5, <1>6, <1>7, <1>8, <1>9, ThreadKeeps

\* What a cancel step may rely on.
LEMMA CancelDue ==
  ASSUME PairInv, NEW a \in Arms, todo # <<>>, Head(todo).do \in {"cancel", "cancelFound"}
  PROVE  run.cancelling /\ run.k \in Pairs
<1>1. Head(todo) \in Elems(todo)
  BY RestDoes
<1> QED
  BY <1>1 DEF PairInv, Cancelling, Due

\* An arm with no record of the pair's plan and no staging of unknown outcome
\* holds no execution of it.
LEMMA NothingHeld ==
  ASSUME PairInv, NEW a \in Arms, NEW k \in Pairs, hand[a].plans[k] = "none",
         k \notin hand[a].unknown
  PROVE  sup[a].ex[k] \notin Live
BY DEF PairInv, Known

(* A cancel with nothing to cancel.                                        *)
LEMMA CancelNothingKeeps == ASSUME PairInv, NEW a \in Arms, CancelNothing(a) PROVE PairStep
<1>0. /\ sup[a] \in SupT /\ hand[a] \in HandT /\ Types
  BY DEF PairInv, Types
<1>1. todo # <<>> /\ Head(todo).do = "cancel"
  BY DEF CancelNothing, At
<1>2. run.k \in Pairs /\ sup[a].ex[run.k] \notin Live /\ run.k \notin hand[a].unknown
  BY <1>1, CancelDue, NothingHeld DEF CancelNothing
<1>3. PICK o \in Reads(a) :
        /\ Applied(a, o)
        /\ hand' = [hand EXCEPT ![a] =
             IF o.ok THEN Told(Pruned(@, o.s), Ev("cleared", run.k, Loaded(@, o.s) = {}))
             ELSE Told(@, Ev("cleared", run.k, \A k \in Pairs : @.plans[k] = "none"))]
  BY DEF CancelNothing
<1>4. todo' = Rest /\ UNCHANGED <<run, rel, clock>>
  BY DEF CancelNothing
<1>5. /\ o.s \in SupT /\ o.s.ex = sup[a].ex /\ o.s.ops = sup[a].ops /\ o.ok \in BOOLEAN
      /\ trouble + o.cost \in 0..MaxTrouble
  BY <1>0, ReadDoes
<1>6. sup' = [sup EXCEPT ![a] = o.s] /\ trouble' \in 0..MaxTrouble
  BY <1>3, <1>5 DEF Applied
<1>7. ASSUME sup'[a] = o.s PROVE ExMoves(a) /\ OpsMove(a)
  BY <1>5, <1>7, SupSame
<1>8. CASE o.ok
  <2> DEFINE g == Pruned(hand[a], o.s)
             ok == Loaded(hand[a], o.s) = {}
  <2>1. /\ g \in HandT /\ g.unknown = hand[a].unknown
        /\ \A k \in Pairs : g.plans[k] = hand[a].plans[k] \/ (g.plans[k] = "none" /\ o.s.ex[k] \notin Live)
        /\ \A e \in Elems(g.events) : e \in Elems(hand[a].events) \/ LegOf(hand[a], e)
    BY <1>0, <1>5, PrunedDoes
  <2>2. hand' = [hand EXCEPT ![a] = Told(g, Ev("cleared", run.k, ok))] /\ ok \in BOOLEAN
    BY <1>3, <1>8
  <2> HIDE DEF g, ok
  <2>3. \A k \in Pairs : \/ g.plans[k] = hand[a].plans[k]
                         \/ hand[a].plans[k] # "none" /\ (g.plans[k] # "none" \/ o.s.ex[k] \notin Live)
    BY <2>1
  <2> QED
    BY <1>1, <1>2, <1>4, <1>5, <1>6, <1>7, <2>1, <2>2, <2>3, AnswerKeeps
<1>9. CASE ~o.ok
  <2> DEFINE ok == \A k \in Pairs : hand[a].plans[k] = "none"
  <2>1. hand' = [hand EXCEPT ![a] = Told(hand[a], Ev("cleared", run.k, ok))] /\ ok \in BOOLEAN
    BY <1>3, <1>9
  <2> HIDE DEF ok
  <2> QED
    BY <1>0, <1>1, <1>2, <1>4, <1>5, <1>6, <1>7, <2>1, AnswerKeeps
<1> QED
  BY <1>5, <1>8, <1>9

\* What a cancel call leaves of an arm.
LEMMA CancelCall ==
  ASSUME PairInv, NEW a \in Arms, run.k \in Pairs, NEW o \in Calls(a, OpOf("cancel", run.k)), Applied(a, o)
  PROVE  /\ o.s \in SupT /\ o.ok \in BOOLEAN /\ trouble' \in 0..MaxTrouble
         /\ sup' = [sup EXCEPT ![a] = o.s]
         /\ o.ok => o.s.ex[run.k] \notin Live /\ Elems(o.s.ops) = {}
         /\ sup'[a] = o.s => ExMoves(a)
         /\ sup'[a] = o.s => OpsMove(a)
<1> DEFINE x == OpOf("cancel", run.k)
<1>0. sup[a] \in SupT /\ Types /\ run.k \in 0..MaxPair
  BY DEF PairInv, Types, RunT
<1>1. x \in CallT /\ x.op = "cancel" /\ x.k = run.k
  BY DEF CallT, OpOf
<1> HIDE DEF x
<1>2. /\ o.s \in SupT /\ o.ok \in BOOLEAN /\ trouble + o.cost \in 0..MaxTrouble
      /\ o.ok => o.s \in Perform(sup[a], x) /\ sup[a].ops = <<>> /\ o.s.ops = <<>>
      /\ ~o.ok => o.s.ex = sup[a].ex /\ Elems(o.s.ops) \subseteq Elems(sup[a].ops) \cup {x}
  BY <1>0, <1>1, CallDoes DEF x
<1>3. o.ok => /\ o.s.ex[run.k] \notin Live
              /\ \A j \in Pairs : \/ o.s.ex[j] = sup[a].ex[j]
                                  \/ sup[a].ex[j] \in Live /\ o.s.ex[j] = "CANCELLED"
  BY <1>0, <1>1, <1>2, PerformDoes
<1>4. \A j \in Pairs : sup[a].ex[j] \in Live => j <= run.k
  BY StagedBefore DEF Live
<1>5. ASSUME sup'[a] = o.s PROVE ExMoves(a)
  BY <1>2, <1>3, <1>4, <1>5 DEF ExMoves, ExFalls, Live
<1>6. ASSUME sup'[a] = o.s PROVE OpsMove(a)
  BY <1>0, <1>1, <1>2, <1>6, ElemsShort DEF OpsMove
<1> QED
  BY <1>2, <1>3, <1>5, <1>6, ElemsShort DEF Applied

(* A cancel of a plan the handle has a record of.                          *)
LEMMA CancelRecordedKeeps == ASSUME PairInv, NEW a \in Arms, CancelRecorded(a) PROVE PairStep
<1>0. /\ sup[a] \in SupT /\ hand[a] \in HandT
  BY DEF PairInv, Types
<1>1. todo # <<>> /\ Head(todo).do = "cancel" /\ hand[a].plans[run.k] # "none"
  BY DEF CancelRecorded, At
<1>2. run.k \in Pairs /\ run.k \notin hand[a].unknown
  BY <1>1, CancelDue DEF PairInv, Known
<1>3. PICK o \in Calls(a, OpOf("cancel", run.k)) :
        /\ Applied(a, o)
        /\ hand' = [hand EXCEPT ![a] =
             IF o.ok /\ o.s.ex[run.k] \notin Unknown
             THEN Told([@ EXCEPT !.plans[run.k] = "reported"], Ev("cleared", run.k, TRUE))
             ELSE Told(@, Ev("cleared", run.k, FALSE))]
  BY DEF CancelRecorded
<1>4. todo' = Rest /\ UNCHANGED <<run, rel, clock>>
  BY DEF CancelRecorded
<1>5. /\ o.s \in SupT /\ o.ok \in BOOLEAN /\ trouble' \in 0..MaxTrouble
      /\ sup' = [sup EXCEPT ![a] = o.s]
      /\ o.ok => o.s.ex[run.k] \notin Live /\ Elems(o.s.ops) = {}
      /\ sup'[a] = o.s => ExMoves(a)
      /\ sup'[a] = o.s => OpsMove(a)
  BY <1>2, <1>3, CancelCall
<1>6. CASE o.ok /\ o.s.ex[run.k] \notin Unknown
  <2> DEFINE g == [hand[a] EXCEPT !.plans[run.k] = "reported"]
  <2>1. /\ g \in HandT /\ g.unknown = hand[a].unknown /\ g.events = hand[a].events
        /\ g.plans = [hand[a].plans EXCEPT ![run.k] = "reported"]
        /\ hand[a].plans \in [Pairs -> {"none", "held", "released", "reported"}]
    BY <1>0, <1>2 DEF HandT
  <2>2. hand' = [hand EXCEPT ![a] = Told(g, Ev("cleared", run.k, TRUE))]
    BY <1>3, <1>6
  <2> HIDE DEF g
  <2>3. \A k \in Pairs : \/ g.plans[k] = hand[a].plans[k]
                         \/ hand[a].plans[k] # "none" /\ (g.plans[k] # "none" \/ o.s.ex[k] \notin Live)
    BY <1>1, <1>2, <2>1
  <2> QED
    BY <1>1, <1>2, <1>4, <1>5, <1>6, <2>1, <2>2, <2>3, AnswerKeeps
<1>7. CASE ~(o.ok /\ o.s.ex[run.k] \notin Unknown)
  <2>1. hand' = [hand EXCEPT ![a] = Told(hand[a], Ev("cleared", run.k, FALSE))]
    BY <1>3, <1>7
  <2> QED
    BY <1>0, <1>1, <1>4, <1>5, <2>1, AnswerKeeps
<1> QED
  BY <1>6, <1>7

(* What an answered call about a staging of unknown outcome settles.       *)
LEMMA SettledDoes ==
  ASSUME NEW h \in HandT, NEW k \in Pairs, NEW ok \in BOOLEAN
  PROVE  LET g == Settled(h, k, ok)
         IN  /\ g \in HandT /\ g.plans = h.plans /\ g.events = h.events
             /\ \A j \in Pairs : j \in g.unknown => j \in h.unknown
             /\ \A j \in Pairs : j \in h.unknown /\ j \notin g.unknown => ok /\ j = k
             /\ ok => k \notin g.unknown
<1> DEFINE u == IF ok THEN h.unknown \ {k} ELSE h.unknown
<1>1. u \in SUBSET Pairs
  BY DEF HandT
<1>2. Settled(h, k, ok) = [h EXCEPT !.unknown = u]
  BY DEF Settled
<1>3. /\ \A j \in Pairs : j \in u => j \in h.unknown
      /\ \A j \in Pairs : j \in h.unknown /\ j \notin u => ok /\ j = k
      /\ ok => k \notin u
  OBVIOUS
<1> HIDE DEF u
<1>4. LET g == Settled(h, k, ok)
      IN  g \in HandT /\ g.plans = h.plans /\ g.events = h.events /\ g.unknown = u
  BY <1>1, <1>2 DEF HandT
<1> QED
  BY <1>3, <1>4

(* A staging found again is cancelled.                                     *)
LEMMA CancelFoundKeeps == ASSUME PairInv, NEW a \in Arms, CancelFound(a) PROVE PairStep
<1>0. /\ sup[a] \in SupT /\ hand[a] \in HandT /\ hand[a].unknown \in SUBSET Pairs
  BY DEF PairInv, Types, HandT
<1>1. todo # <<>> /\ Head(todo).do = "cancelFound"
  BY DEF CancelFound, At
<1>2. run.k \in Pairs
  BY <1>1, CancelDue
<1>3. PICK o \in Calls(a, OpOf("cancel", run.k)) :
        /\ Applied(a, o)
        /\ hand' = [hand EXCEPT ![a] = Told(Settled(@, run.k, o.ok), Ev("cleared", run.k, o.ok))]
  BY DEF CancelFound
<1>4. todo' = Rest /\ UNCHANGED <<run, rel, clock>>
  BY DEF CancelFound
<1>5. /\ o.s \in SupT /\ o.ok \in BOOLEAN /\ trouble' \in 0..MaxTrouble
      /\ sup' = [sup EXCEPT ![a] = o.s]
      /\ o.ok => o.s.ex[run.k] \notin Live /\ Elems(o.s.ops) = {}
      /\ sup'[a] = o.s => ExMoves(a)
      /\ sup'[a] = o.s => OpsMove(a)
  BY <1>2, <1>3, CancelCall
<1> DEFINE g == Settled(hand[a], run.k, o.ok)
<1>6. hand' = [hand EXCEPT ![a] = Told(g, Ev("cleared", run.k, o.ok))]
  BY <1>3
<1>7. /\ g \in HandT /\ g.plans = hand[a].plans /\ g.events = hand[a].events
      /\ \A j \in Pairs : j \in g.unknown => j \in hand[a].unknown
      /\ \A j \in Pairs : j \in hand[a].unknown /\ j \notin g.unknown => o.ok /\ j = run.k
      /\ o.ok => run.k \notin g.unknown
  BY <1>0, <1>2, <1>5, SettledDoes
<1> HIDE DEF g
<1> QED
  BY <1>1, <1>4, <1>5, <1>6, <1>7, AnswerKeeps

(* A staging of unknown outcome is looked for, and settled.                *)
LEMMA CancelUnknownKeeps == ASSUME PairInv, NEW a \in Arms, CancelUnknown(a) PROVE PairStep
<1> DEFINE x == OpOf("submit", run.k)
<1>0. /\ sup[a] \in SupT /\ hand[a] \in HandT /\ hand[a].unknown \in SUBSET Pairs /\ Types
      /\ run.k \in 0..MaxPair /\ rel \in [Arms -> RelT] /\ clock \in ClockT
      /\ hand = [hand EXCEPT ![a] = hand[a]]
  BY DEF PairInv, Types, HandT, RunT, RelT, ClockT
<1>1. todo # <<>> /\ Head(todo).do = "cancel" /\ run.k \in hand[a].unknown
  BY DEF CancelUnknown, At
<1>2. run.k \in Pairs /\ run.cancelling
  BY <1>1, CancelDue
<1>3. PICK o \in Calls(a, x) :
        /\ Applied(a, o)
        /\ \/ /\ o.ok /\ o.s.ex[run.k] \in Live
              /\ hand' = hand
              /\ todo' = <<Do("cancelFound", a)>> \o Rest
           \/ /\ ~(o.ok /\ o.s.ex[run.k] \in Live)
              /\ hand' = [hand EXCEPT ![a] = Told(Settled(@, run.k, o.ok), Ev("cleared", run.k, o.ok))]
              /\ todo' = Rest
  BY DEF CancelUnknown
<1>4. UNCHANGED <<run, rel, clock>>
  BY DEF CancelUnknown
<1>5. x \in CallT /\ x.op = "submit" /\ x.k = run.k
  BY <1>2 DEF CallT, OpOf
<1> HIDE DEF x
<1>6. /\ o.s \in SupT /\ o.ok \in BOOLEAN /\ trouble + o.cost \in 0..MaxTrouble
      /\ o.ok => o.s \in Perform(sup[a], x) /\ sup[a].ops = <<>> /\ o.s.ops = <<>>
      /\ ~o.ok => o.s.ex = sup[a].ex /\ Elems(o.s.ops) \subseteq Elems(sup[a].ops) \cup {x}
  BY <1>0, <1>5, CallDoes
<1>7. sup' = [sup EXCEPT ![a] = o.s] /\ trouble' \in 0..MaxTrouble
  BY <1>3, <1>6 DEF Applied
<1>8. o.ok => /\ \A j \in Pairs : j # x.k => o.s.ex[j] = sup[a].ex[j]
              /\ \/ o.s.ex[x.k] = sup[a].ex[x.k]
                 \/ o.s.ex[x.k] = "REJECTED"
                 \/ o.s.ex[x.k] = "ADMITTED" /\ \A j \in Pairs : sup[a].ex[j] \notin Live
  BY <1>0, <1>5, <1>6, PerformDoes
<1>9. CASE o.ok /\ o.s.ex[run.k] \in Live
  <2>1. hand' = hand /\ todo' = <<Do("cancelFound", a)>> \o Rest
    BY <1>3, <1>9
  <2>2. /\ Rest \in Seq(StepT) /\ Elems(Rest) \subseteq Elems(todo) /\ SendLast(Rest) /\ ~Due("stage")
    BY <1>1, RestDoes
  <2> DEFINE y == Do("cancelFound", a)
  <2>3. y \in StepT /\ y.do = "cancelFound" /\ y.ev = NoEvent
    BY StepMade DEF Steps
  <2> HIDE DEF y
  <2> DEFINE p == <<y>>
  <2>4. p \in Seq(StepT) /\ Elems(p) = {y}
    BY <2>3, ElemsShort
  <2>5. /\ todo' \in Seq(StepT) /\ Elems(todo') = {y} \cup Elems(Rest) /\ SendLast(todo')
    <3>1. todo' = p \o Rest
      BY <2>1 DEF y
    <3> HIDE DEF p
    <3>2. p \o Rest \in Seq(StepT) /\ Elems(p \o Rest) = Elems(p) \cup Elems(Rest)
      BY <2>2, <2>4, ElemsCat
    <3>3. \A z \in Elems(p) : z.do # "send"
      BY <2>3, <2>4
    <3>4. SendLast(p \o Rest)
      BY <2>2, <2>4, <3>3, SendStaysLast
    <3> QED
      BY <2>4, <3>1, <3>2, <3>4
  <2>6. ASSUME sup'[a] = o.s, hand'[a] = hand[a]
        PROVE  /\ ExMoves(a) /\ OpsMove(a) /\ HandMoves(a)
               /\ \A e \in Elems(hand[a].events) : Coming(a, e) \/ NewEvent(a, e)
               /\ \A z \in Elems(todo') : z \in Elems(todo) \/ NewStep(a, z)
    <3>1. ExMoves(a)
      BY <1>0, <1>1, <1>2, <1>5, <1>8, <1>9, <2>6 DEF ExMoves, ExFalls, ExRises, Live
    <3>2. OpsMove(a)
      BY <1>6, <1>9, <2>6, ElemsShort DEF OpsMove
    <3>3. HandMoves(a)
      BY <2>6 DEF HandMoves
    <3>4. NewStep(a, y)
      BY <1>2, <1>4, <2>3 DEF NewStep
    <3> QED
      BY <2>2, <2>5, <3>1, <3>2, <3>3, <3>4 DEF Coming
  <2>7. hand' = [hand EXCEPT ![a] = hand[a]] /\ RunMoves /\ run' \in RunT /\ RelMoves
        /\ rel' \in [Arms -> RelT] /\ clock' \in ClockT
    BY <1>0, <1>4, <2>1, RunSame DEF RelMoves, Free
  <2> QED
    BY <1>0, <1>2, <1>6, <1>7, <2>2, <2>5, <2>6, <2>7, ThreadKeeps
<1>10. CASE ~(o.ok /\ o.s.ex[run.k] \in Live)
  <2> DEFINE g == Settled(hand[a], run.k, o.ok)
  <2>1. hand' = [hand EXCEPT ![a] = Told(g, Ev("cleared", run.k, o.ok))]
    BY <1>3, <1>10
  <2>2. todo' = Rest
    BY <1>3, <1>10
  <2>4. /\ g \in HandT /\ g.plans = hand[a].plans /\ g.events = hand[a].events
        /\ \A j \in Pairs : j \in g.unknown => j \in hand[a].unknown
        /\ \A j \in Pairs : j \in hand[a].unknown /\ j \notin g.unknown => o.ok /\ j = run.k
        /\ o.ok => run.k \notin g.unknown
    BY <1>0, <1>2, <1>6, SettledDoes
  <2>5. ~o.ok => run.k \in g.unknown
    BY <1>1, <1>2, <2>4
  <2> HIDE DEF g
  <2>6. o.ok => o.s.ex[run.k] \notin Live /\ Elems(o.s.ops) = {}
    BY <1>6, <1>10, ElemsShort
  <2>7. ASSUME sup'[a] = o.s PROVE ExMoves(a)
    BY <1>0, <1>2, <1>5, <1>6, <1>8, <1>10, <2>7 DEF ExMoves, ExFalls
  <2>8. hand'[a] = Told(g, Ev("cleared", run.k, o.ok)) /\ hand'[a].unknown = g.unknown
    <3>1. Ev("cleared", run.k, o.ok) \in Event
      BY <1>0, <1>6 DEF Ev, Event
    <3>2. Told(g, Ev("cleared", run.k, o.ok)).unknown = g.unknown
      BY <2>4, <3>1, ToldDoes
    <3> QED
      BY <1>0, <2>1, <3>2 DEF Types
  <2>9. ASSUME sup'[a] = o.s PROVE OpsMove(a)
    BY <1>1, <1>5, <1>6, <2>5, <2>8, <2>9, ElemsShort DEF OpsMove
  <2> QED
    <3>1. \A e \in Elems(g.events) : e \in Elems(hand[a].events) \/ LegOf(hand[a], e)
      BY <2>4
    <3>2. \A k \in Pairs : k \in hand[a].unknown /\ k \notin g.unknown =>
            o.s.ex[k] \notin Live /\ OpOf("submit", k) \notin Elems(o.s.ops)
      BY <2>4, <2>6
    <3> QED
      BY <1>1, <1>4, <1>6, <1>7, <2>1, <2>2, <2>4, <2>6, <2>7, <2>9, <3>1, <3>2, AnswerKeeps
<1> QED
  BY <1>9, <1>10


(* A step of the thread that changes no handle and at most reads.          *)
QuietStep(x) ==
  /\ x.do \notin {"stage", "send"} /\ x.ev = NoEvent
  /\ x.do \in {"cancel", "cancelFound"} => run'.cancelling

(* Such a step, and which of the moves it makes.                           *)
LEMMA QuietMoves ==
  ASSUME PairInv, ~Due("stage"), UNCHANGED hand,
         \A a \in Arms : sup'[a].ex = sup[a].ex /\ sup'[a].ops = sup[a].ops, RunMoves,
         \A x \in Elems(todo') : x \in Elems(todo) \/ QuietStep(x) \/ x = Do("send", Left)
  PROVE  CoreStep
<1>1. \A a \in Arms : ExMoves(a) /\ OpsMove(a) /\ HandMoves(a)
  BY SupSame DEF HandMoves
<1>2. EventMoves
  <2> SUFFICES ASSUME NEW b \in Arms, NEW e \in Event, Comes(b, e)
               PROVE  Coming(b, e) \/ NewEvent(b, e)
    BY DEF EventMoves, NewEvent
  <2>0. NoEvent.k <= run.k /\ NoEvent.kind \notin {"staged", "cleared"}
    BY DEF NoEvent, Ev, PairInv, Types, RunT
  <2>1. CASE e \in Elems(hand'[b].events)
    BY <2>1 DEF Coming
  <2>2. CASE \E x \in Elems(todo') : x.arm = b /\ x.ev = e
    <3>1. PICK x \in Elems(todo') : x.arm = b /\ x.ev = e
      BY <2>2
    <3>2. CASE x \in Elems(todo)
      BY <3>1, <3>2 DEF Coming
    <3>3. CASE x.ev = NoEvent
      BY <2>0, <3>1, <3>3 DEF NewEvent
    <3> QED
      BY <3>1, <3>2, <3>3 DEF QuietStep, Do
  <2> QED
    BY <2>1, <2>2 DEF Comes
<1>3. TodoKeeps
  <2>1. ~WillDo("stage")
    BY DEF WillDo, Due, QuietStep, Do
  <2>2. ASSUME WillDo("cancel") \/ WillDo("cancelFound") PROVE run'.cancelling
    <3>1. Due("cancel") \/ Due("cancelFound") => run'.cancelling
      BY DEF PairInv, Cancelling, RunMoves
    <3> QED
      BY <2>2, <3>1 DEF WillDo, Due, QuietStep, Do
  <2> QED
    BY <2>1, <2>2 DEF TodoKeeps
<1> QED
  BY <1>1, <1>2, <1>3 DEF CoreStep

(* Such a step keeps the invariant, if it sends nothing.                   *)
LEMMA QuietKeeps ==
  ASSUME PairInv, ~Due("stage"), UNCHANGED hand, sup' \in [Arms -> SupT],
         \A a \in Arms : sup'[a].ex = sup[a].ex /\ sup'[a].ops = sup[a].ops,
         run' \in RunT, RunMoves, todo' \in Seq(StepT), SendLast(todo'),
         rel' \in [Arms -> RelT], clock' \in ClockT, RelMoves, trouble' \in 0..MaxTrouble,
         run.k \in Pairs, \A x \in Elems(todo') : x \in Elems(todo) \/ QuietStep(x)
  PROVE  PairStep
<1>1. Types'
  BY DEF PairInv, Types, RelT, ClockT
<1>2. TodoMoves
  <2>1. WillDo("send") => Due("send")
    BY DEF WillDo, Due, QuietStep
  <2> QED
    BY <2>1 DEF TodoMoves
<1> QED
  BY <1>1, <1>2, QuietMoves, MovesKeep DEF MildStep

(* The accepted member is cancelled.                                       *)
LEMMA UndoKeeps == ASSUME PairInv, NEW a \in Arms, Undo(a) PROVE PairStep
<1>0. /\ hand[a] \in HandT /\ rel \in [Arms -> RelT] /\ clock \in ClockT
      /\ hand = [hand EXCEPT ![a] = hand[a]]
  BY DEF PairInv, Types, RelT, ClockT
<1>1. todo # <<>> /\ Head(todo).do = "undo"
  BY DEF Undo, At
<1>2. /\ Rest \in Seq(StepT) /\ Elems(Rest) \subseteq Elems(todo) /\ SendLast(Rest)
      /\ ~Due("stage") /\ run.k \in Pairs
  BY <1>1, RestDoes
<1>3. PICK o \in Calls(a, OpOf("cancel", run.k)) : Applied(a, o)
  BY DEF Undo
<1>4. todo' = Rest /\ UNCHANGED <<run, hand, rel, clock>>
  BY DEF Undo
<1>5. /\ o.s \in SupT /\ o.ok \in BOOLEAN /\ trouble' \in 0..MaxTrouble
      /\ sup' = [sup EXCEPT ![a] = o.s]
      /\ sup'[a] = o.s => ExMoves(a)
      /\ sup'[a] = o.s => OpsMove(a)
  BY <1>2, <1>3, CancelCall
<1>6. ASSUME sup'[a] = o.s, hand'[a] = hand[a]
      PROVE  /\ ExMoves(a) /\ OpsMove(a) /\ HandMoves(a)
             /\ \A e \in Elems(hand[a].events) : Coming(a, e) \/ NewEvent(a, e)
             /\ \A z \in Elems(todo') : z \in Elems(todo) \/ NewStep(a, z)
  <2>1. HandMoves(a)
    BY <1>4 DEF HandMoves
  <2> QED
    BY <1>2, <1>4, <1>5, <1>6, <2>1 DEF Coming
<1>7. hand' = [hand EXCEPT ![a] = hand[a]] /\ RunMoves /\ run' \in RunT /\ RelMoves
      /\ rel' \in [Arms -> RelT] /\ clock' \in ClockT /\ todo' \in Seq(StepT) /\ SendLast(todo')
  BY <1>0, <1>2, <1>4, RunSame DEF RelMoves, Free
<1> QED
  BY <1>0, <1>2, <1>5, <1>6, <1>7, ThreadKeeps

(* Quiet steps put before what is still to do.                             *)
LEMMA PutBefore ==
  ASSUME NEW p \in Seq(StepT), NEW s \in Seq(StepT), SendLast(s), \A x \in Elems(p) : QuietStep(x)
  PROVE  /\ p \o s \in Seq(StepT) /\ SendLast(p \o s)
         /\ \A x \in Elems(p \o s) : x \in Elems(s) \/ QuietStep(x)
<1>1. p \o s \in Seq(StepT) /\ Elems(p \o s) = Elems(p) \cup Elems(s)
  BY ElemsCat
<1>2. SendLast(p \o s)
  BY SendStaysLast DEF QuietStep
<1> QED
  BY <1>1, <1>2

(* The wait for both answers ends.                                         *)
LEMMA AwaitKeeps == ASSUME PairInv, Await PROVE PairStep
<1>0. rel \in [Arms -> RelT] /\ clock \in ClockT /\ sup \in [Arms -> SupT] /\ trouble \in 0..MaxTrouble
  BY DEF PairInv, Types, RelT, ClockT
<1>1. todo # <<>> /\ Head(todo).do = "await" /\ UNCHANGED <<run, hand, sup, rel, clock, trouble>>
  BY DEF Await, At
<1>2. /\ Rest \in Seq(StepT) /\ Elems(Rest) \subseteq Elems(todo) /\ SendLast(Rest)
      /\ ~Due("stage") /\ run.k \in Pairs
  BY <1>1, RestDoes
<1>3. todo' \in Seq(StepT) /\ SendLast(todo') /\ \A x \in Elems(todo') : x \in Elems(Rest) \/ QuietStep(x)
  <2>1. CASE Confirmed
    BY <1>2, <2>1 DEF Await
  <2>2. CASE ~Confirmed
    <3> DEFINE p == ForEach("undo", {a \in Arms : rel[a] = "ok"}, <<Left, Right>>)
               y == Do("failed", Left)
               q == <<y>>
    <3>1. todo' = p \o q \o Rest
      BY <2>2 DEF Await
    <3>2. p \in Seq(StepT) /\ \A x \in Elems(p) : x.do = "undo" /\ x.ev = NoEvent
      <4>1. <<Left, Right>> \in Orders /\ {a \in Arms : rel[a] = "ok"} \in SUBSET Arms /\ "undo" \in Steps
        BY DEF Orders, Steps
      <4> QED
        BY <4>1, ForEachDoes
    <3>3. y \in StepT /\ y.do = "failed" /\ y.ev = NoEvent
      BY StepMade DEF Steps, Arms
    <3> HIDE DEF p, y
    <3>4. q \in Seq(StepT) /\ Elems(q) = {y}
      BY <3>3, ElemsShort
    <3> HIDE DEF q
    <3>5. p \o q \in Seq(StepT) /\ Elems(p \o q) = Elems(p) \cup Elems(q)
      BY <3>2, <3>4, ElemsCat
    <3>6. \A x \in Elems(p \o q) : QuietStep(x)
      BY <3>2, <3>3, <3>4, <3>5 DEF QuietStep
    <3> QED
      BY <1>2, <3>1, <3>5, <3>6, PutBefore
  <2> QED
    BY <2>1, <2>2
<1>4. RunMoves /\ run' \in RunT /\ RelMoves
  BY <1>1, RunSame DEF RelMoves, Free
<1> QED
  BY <1>0, <1>1, <1>2, <1>3, <1>4, QuietKeeps

(* A release that failed aborts the pair.                                  *)
LEMMA ReleaseFailedKeeps == ASSUME PairInv, ReleaseFailed PROVE PairStep
<1>0. rel \in [Arms -> RelT] /\ clock \in ClockT /\ sup \in [Arms -> SupT] /\ trouble \in 0..MaxTrouble
  BY DEF PairInv, Types, RelT, ClockT
<1>1. todo # <<>> /\ Head(todo).do = "failed" /\ UNCHANGED <<hand, sup, rel, clock, trouble>>
  BY DEF ReleaseFailed, At
<1>2. /\ Rest \in Seq(StepT) /\ Elems(Rest) \subseteq Elems(todo) /\ SendLast(Rest)
      /\ ~Due("stage") /\ run.k \in Pairs
  BY <1>1, RestDoes
<1>3. "FAULTED" \in Lives \ Active /\ Abort("FAULTED", Rest)
  BY DEF Lives, Active, ReleaseFailed
<1>4. /\ run' \in RunT /\ RunMoves /\ todo' \in Seq(StepT) /\ SendLast(todo')
      /\ \A x \in Elems(todo') : x \in Elems(Rest) \/ QuietStep(x)
  BY <1>2, <1>3, AbortDoes DEF QuietStep
<1>5. RelMoves
  BY <1>1 DEF RelMoves, Free
<1> QED
  BY <1>0, <1>1, <1>2, <1>4, <1>5, QuietKeeps

(* An event is taken in: a report that the arm is cleared ends the wait    *)
(* for it, and an acknowledgement is one the handle told of.               *)
LEMMA DeliveredKeeps == ASSUME PairInv, NEW a \in Arms, Delivered(a) PROVE PairStep
<1> DEFINE e == Head(todo).ev
<1>0. /\ rel \in [Arms -> RelT] /\ clock \in ClockT /\ sup \in [Arms -> SupT]
      /\ trouble \in 0..MaxTrouble /\ run \in RunT
  BY DEF PairInv, Types, RelT, ClockT
<1>1. /\ todo # <<>> /\ Head(todo).do = "event" /\ Head(todo).arm = a
      /\ UNCHANGED <<hand, sup, rel, clock, trouble>>
  BY DEF Delivered, At
<1>2. /\ Rest \in Seq(StepT) /\ Elems(Rest) \subseteq Elems(todo) /\ SendLast(Rest)
      /\ ~Due("stage") /\ run.k \in Pairs /\ Head(todo) \in Elems(todo) /\ Head(todo) \in StepT
  BY <1>1, RestDoes
<1>3. e \in Event /\ Coming(a, e)
  BY <1>1, <1>2 DEF StepT, Coming
<1>4. OnMemberEvent(a, e)
  BY DEF Delivered
<1> HIDE DEF e
<1>5. e.ok \in BOOLEAN /\ e = Ev(e.kind, e.k, e.ok)
  BY <1>3 DEF Event, Ev
<1>6. "FAULTED" \in Lives \ Active /\ "REJECTED" \in Lives \ Active
  BY DEF Lives, Active
<1>7. /\ run.pending # {} => run.cancelling
      /\ run.cancelling => run.k \in Pairs
      /\ run.life = "READY" => run.acks = Arms
  BY DEF PairInv, Cancelling, Held
<1>8. /\ run' \in RunT /\ RunMoves /\ todo' \in Seq(StepT) /\ SendLast(todo')
      /\ \A x \in Elems(todo') : x \in Elems(Rest) \/ QuietStep(x)
  <2>1. ASSUME Abort("FAULTED", Rest) \/ Abort("REJECTED", Rest)
        PROVE  /\ run' \in RunT /\ RunMoves /\ todo' \in Seq(StepT) /\ SendLast(todo')
               /\ \A x \in Elems(todo') : x \in Elems(Rest) \/ QuietStep(x)
    BY <1>2, <1>6, <2>1, AbortDoes DEF QuietStep
  <2>2. CASE /\ e.k = run.k /\ e.kind = "cleared" /\ run.cancelling /\ e.ok
             /\ run' = [run EXCEPT !.pending = @ \ {a}] /\ todo' = Rest
    <3>1. Coming(a, Ev("cleared", run.k, TRUE))
      BY <1>3, <1>5, <2>2
    <3>2. /\ run' \in RunT /\ run'.k = run.k /\ run'.life = run.life /\ run'.acks = run.acks
          /\ run'.cancelling = run.cancelling /\ run'.pending = run.pending \ {a}
      BY <1>0, <2>2 DEF RunT
    <3>3. RunMoves
      BY <1>7, <3>1, <3>2 DEF RunMoves
    <3> QED
      BY <1>2, <2>2, <3>2, <3>3
  <2>3. CASE /\ e.k = run.k /\ e.kind = "staged" /\ run.life = "STAGING" /\ e.ok
             /\ run' = [run EXCEPT !.acks = @ \cup {a},
                            !.life = IF run.acks \cup {a} = Arms THEN "READY" ELSE @]
             /\ todo' = Rest
    <3>1. Coming(a, Ev("staged", run.k, TRUE))
      BY <1>3, <1>5, <2>3
    <3> DEFINE n == IF run.acks \cup {a} = Arms THEN "READY" ELSE run.life
               s == run.acks \cup {a}
    <3>0. run' = [run EXCEPT !.acks = s, !.life = n]
      BY <2>3
    <3>n. n \in Lives /\ s \in SUBSET Arms
      BY <1>0, <2>3 DEF RunT, Lives, Active
    <3>2. /\ run' \in RunT /\ run'.k = run.k /\ run'.acks = run.acks \cup {a}
          /\ run'.cancelling = run.cancelling /\ run'.pending = run.pending
          /\ run'.life = IF run.acks \cup {a} = Arms THEN "READY" ELSE run.life
      <4> HIDE DEF n, s
      <4>1. /\ run' \in RunT /\ run'.k = run.k /\ run'.acks = s /\ run'.life = n
            /\ run'.cancelling = run.cancelling /\ run'.pending = run.pending
        BY <1>0, <3>0, <3>n DEF RunT
      <4> QED
        BY <4>1 DEF n, s
    <3>3. RunMoves
      BY <1>7, <2>3, <3>1, <3>2 DEF RunMoves, Active
    <3> QED
      BY <1>2, <2>3, <3>2, <3>3
  <2>4. CASE /\ run.life = "EXECUTING" /\ todo' = Rest
             /\ run' = [run EXCEPT !.results = @ \cup {a},
                            !.life = IF AllDone(run.results \cup {a}) THEN "COMPLETE" ELSE @]
    <3>1. /\ run' \in RunT /\ run'.k = run.k /\ run'.acks = run.acks
          /\ run'.cancelling = run.cancelling /\ run'.pending = run.pending
          /\ run'.life \in {"EXECUTING", "COMPLETE"}
      BY <1>0, <2>4 DEF RunT, Lives, Active
    <3>2. RunMoves
      BY <1>7, <2>4, <3>1 DEF RunMoves, Active
    <3> QED
      BY <1>2, <2>4, <3>1, <3>2
  <2>5. CASE run' = run /\ todo' = Rest
    BY <1>2, <2>5, RunSame
  <2> QED
    BY <1>4, <1>5, <2>1, <2>2, <2>3, <2>4, <2>5 DEF OnMemberEvent, ForThisPair
<1>9. RelMoves
  BY <1>1 DEF RelMoves, Free
<1> QED
  BY <1>0, <1>1, <1>2, <1>8, <1>9, QuietKeeps

(* A console tick is begun.                                                *)
LEMMA PumpKeeps == ASSUME PairInv, Pump PROVE PairStep
<1>0. rel \in [Arms -> RelT] /\ clock \in ClockT /\ sup \in [Arms -> SupT] /\ trouble \in 0..MaxTrouble
  BY DEF PairInv, Types, RelT, ClockT
<1>1. /\ todo = <<>> /\ UNCHANGED <<run, hand, sup, rel, clock, trouble>>
      /\ todo' = <<Do("poll", Left), Do("poll", Right), Do("look", Left), Do("look", Right)>>
  BY DEF Pump
<1>2. ~Due("stage")
  BY <1>1, ElemsShort DEF Due
<1>3. run.k \in Pairs
  BY PairAssumption DEF Pump, Pairs, PairInv, Types, RunT
<1>4. \A step \in {"poll", "look"} : \A a \in Arms :
        Do(step, a) \in StepT /\ QuietStep(Do(step, a)) /\ Do(step, a).do # "send"
  BY StepMade DEF Steps, QuietStep
<1>5. todo' \in Seq(StepT) /\ \A i \in DOMAIN todo' : todo'[i] \in StepT /\ QuietStep(todo'[i]) /\ todo'[i].do # "send"
  <2> DEFINE a1 == Do("poll", Left)
             a2 == Do("poll", Right)
             a3 == Do("look", Left)
             a4 == Do("look", Right)
  <2>1. \A x \in {a1, a2, a3, a4} : x \in StepT /\ QuietStep(x) /\ x.do # "send"
    BY <1>4 DEF Arms
  <2>2. todo' = <<a1, a2, a3, a4>>
    BY <1>1
  <2> HIDE DEF a1, a2, a3, a4
  <2> QED
    BY <2>1, <2>2
<1>6. SendLast(todo') /\ \A x \in Elems(todo') : QuietStep(x)
  BY <1>5 DEF SendLast, Elems
<1>7. RunMoves /\ run' \in RunT /\ RelMoves
  BY <1>1, RunSame DEF RelMoves, Free
<1> QED
  BY <1>0, <1>1, <1>2, <1>3, <1>5, <1>6, <1>7, QuietKeeps

(* The operator cancels, or asks again for what was not confirmed.         *)
LEMMA CancelPairKeeps == ASSUME PairInv, CancelPair PROVE PairStep
<1>0. /\ rel \in [Arms -> RelT] /\ clock \in ClockT /\ sup \in [Arms -> SupT]
      /\ trouble \in 0..MaxTrouble /\ run.pending \in SUBSET Arms
  BY DEF PairInv, Types, RelT, ClockT, RunT
<1>1. todo = <<>> /\ UNCHANGED <<hand, sup, rel, clock, trouble>>
  BY DEF CancelPair
<1>2. ~Due("stage") /\ todo \in Seq(StepT) /\ SendLast(todo)
  BY <1>1, ElemsShort DEF Due, PairInv, Ready, Types
<1>3. run.k \in Pairs
  BY PairAssumption DEF CancelPair, Pairs, PairInv, Types, RunT
<1>4. /\ run' \in RunT /\ RunMoves /\ todo' \in Seq(StepT) /\ SendLast(todo')
      /\ \A x \in Elems(todo') : x \in Elems(todo) \/ QuietStep(x)
  <2>1. CASE Abort("CANCELLED", <<>>)
    <3>1. "CANCELLED" \in Lives \ Active /\ Abort("CANCELLED", todo)
      BY <1>1, <2>1 DEF Lives, Active
    <3> QED
      BY <1>2, <3>1, AbortDoes DEF QuietStep
  <2>2. CASE run.pending # {} /\ (\E s \in Orders : todo' = ForEach("cancel", run.pending, s)) /\ run' = run
    <3>1. run'.cancelling
      BY <2>2 DEF PairInv, Cancelling
    <3>2. todo' \in Seq(StepT) /\ \A x \in Elems(todo') : x.do = "cancel" /\ x.ev = NoEvent
      <4>1. PICK s \in Orders : todo' = ForEach("cancel", run.pending, s)
        BY <2>2
      <4>2. "cancel" \in Steps
        BY DEF Steps
      <4>3. run.pending \in SUBSET Arms
        BY <1>0
      <4>4. /\ ForEach("cancel", run.pending, s) \in Seq(StepT)
            /\ \A x \in Elems(ForEach("cancel", run.pending, s)) : x.do = "cancel" /\ x.ev = NoEvent
        BY <4>2, <4>3, ForEachDoes, Zenon
      <4> QED
        BY <4>1, <4>4
    <3>3. SendLast(todo')
      BY <3>2 DEF SendLast, Elems
    <3>4. run' \in RunT /\ RunMoves
      BY <2>2, RunSame
    <3> QED
      BY <3>1, <3>2, <3>3, <3>4 DEF QuietStep
  <2> QED
    BY <2>1, <2>2 DEF CancelPair
<1>5. RelMoves
  BY <1>1 DEF RelMoves, Free
<1> QED
  BY <1>0, <1>1, <1>2, <1>3, <1>4, <1>5, QuietKeeps

(* One turn of the release loop.                                           *)
LEMMA CollectKeeps == ASSUME PairInv, NEW a \in Arms, Collect(a) PROVE PairStep
<1>0. /\ rel \in [Arms -> RelT] /\ clock \in ClockT /\ sup \in [Arms -> SupT] /\ sup[a] \in SupT
      /\ trouble \in 0..MaxTrouble /\ hand[a] \in HandT /\ sup = [sup EXCEPT ![a] = sup[a]]
  BY DEF PairInv, Types, RelT, ClockT
<1>1. todo # <<>> /\ Head(todo).do = "collect" /\ UNCHANGED <<sup, clock, trouble>>
  BY DEF Collect, At
<1>2. /\ Rest \in Seq(StepT) /\ Elems(Rest) \subseteq Elems(todo) /\ SendLast(Rest)
      /\ ~Due("stage") /\ run.k \in Pairs
  BY <1>1, RestDoes
<1>3. CASE todo' = Rest /\ UNCHANGED <<run, hand, rel>>
  <2>1. RunMoves /\ run' \in RunT /\ RelMoves
    BY <1>1, <1>3, RunSame DEF RelMoves, Free
  <2> QED
    BY <1>0, <1>1, <1>2, <1>3, <2>1, QuietKeeps
<1>4. CASE /\ Abort("FAULTED", <<>>) /\ UNCHANGED hand
           /\ rel' = [b \in Arms |-> IF rel[b] = "deferred" THEN "no" ELSE rel[b]]
  <2>1. "FAULTED" \in Lives \ Active /\ <<>> \in Seq(StepT) /\ SendLast(<<>>) /\ Elems(<<>>) = {}
    BY ElemsShort DEF Lives, Active, SendLast
  <2>2. /\ run' \in RunT /\ RunMoves /\ todo' \in Seq(StepT) /\ SendLast(todo')
        /\ \A x \in Elems(todo') : QuietStep(x)
    BY <1>4, <2>1, AbortDoes DEF QuietStep
  <2>3. RelMoves /\ rel' \in [Arms -> RelT]
    BY <1>0, <1>1, <1>4 DEF RelMoves, Free, RelT
  <2> QED
    BY <1>0, <1>1, <1>2, <1>4, <2>2, <2>3, QuietKeeps
<1>5. CASE /\ hand[a].plans[run.k] # "none"
           /\ hand' = [hand EXCEPT ![a].plans[run.k] = "released"]
           /\ rel' = [rel EXCEPT ![a] = "deferred"]
           /\ todo' = <<Do("poll", a)>> \o Rest /\ UNCHANGED run
  <2> DEFINE h == [hand[a] EXCEPT !.plans[run.k] = "released"]
             y == Do("poll", a)
             p == <<y>>
  <2>1. /\ h \in HandT /\ h.unknown = hand[a].unknown /\ h.events = hand[a].events
        /\ h.plans = [hand[a].plans EXCEPT ![run.k] = "released"]
        /\ hand[a].plans \in [Pairs -> {"none", "held", "released", "reported"}]
    BY <1>0, <1>2 DEF HandT
  <2>2. hand' = [hand EXCEPT ![a] = h]
    BY <1>5
  <2>3. y \in StepT /\ y.do = "poll" /\ y.ev = NoEvent
    BY StepMade DEF Steps
  <2>4. todo' = p \o Rest
    BY <1>5
  <2> HIDE DEF h, y
  <2>5. p \in Seq(StepT) /\ Elems(p) = {y} /\ QuietStep(y)
    BY <2>3, ElemsShort DEF QuietStep
  <2> HIDE DEF p
  <2>6. todo' \in Seq(StepT) /\ SendLast(todo') /\ \A x \in Elems(todo') : x \in Elems(Rest) \/ QuietStep(x)
    BY <1>2, <2>4, <2>5, PutBefore
  <2>7. ASSUME sup'[a] = sup[a], hand'[a] = h
        PROVE  /\ ExMoves(a) /\ OpsMove(a) /\ HandMoves(a)
               /\ \A e \in Elems(h.events) : Coming(a, e) \/ NewEvent(a, e)
               /\ \A z \in Elems(todo') : z \in Elems(todo) \/ NewStep(a, z)
    <3>1. HandMoves(a)
      BY <1>2, <1>5, <2>1, <2>7 DEF HandMoves
    <3>2. ExMoves(a) /\ OpsMove(a)
      BY <2>7, SupSame
    <3>3. \A z \in Elems(todo') : z \in Elems(todo) \/ NewStep(a, z)
      BY <1>2, <2>6 DEF QuietStep, NewStep
    <3> QED
      BY <2>1, <3>1, <3>2, <3>3 DEF Coming
  <2>8. RunMoves /\ run' \in RunT /\ RelMoves /\ rel' \in [Arms -> RelT] /\ clock' \in ClockT
        /\ trouble' \in 0..MaxTrouble /\ sup' = [sup EXCEPT ![a] = sup[a]]
    BY <1>0, <1>1, <1>5, RunSame DEF RelMoves, Free, RelT
  <2> QED
    BY <1>0, <1>2, <2>1, <2>2, <2>6, <2>7, <2>8, ThreadKeeps
<1> QED
  BY <1>3, <1>4, <1>5 DEF Collect

(* Both releases are sent, or none: nothing plays when they are.           *)
LEMMA SendKeeps == ASSUME PairInv, Send PROVE PairStep
<1>0. /\ rel \in [Arms -> RelT] /\ clock \in ClockT /\ sup \in [Arms -> SupT] /\ Types
      /\ trouble \in 0..MaxTrouble /\ Left \in Arms /\ hand \in [Arms -> HandT] /\ run \in RunT
  BY DEF PairInv, Types, RelT, ClockT, Arms
<1>1. todo # <<>> /\ Head(todo).do = "send" /\ UNCHANGED hand
  BY DEF Send, At
<1>2. /\ Rest \in Seq(StepT) /\ Elems(Rest) \subseteq Elems(todo) /\ SendLast(Rest) /\ Rest = <<>>
      /\ ~Due("stage") /\ run.k \in Pairs /\ Head(todo) \in Elems(todo)
  BY <1>1, RestDoes
<1>3. Due("send")
  BY <1>1, <1>2 DEF Due
<1>4. CASE /\ rel' = [a \in Arms |-> IF rel[a] = "deferred" THEN "no" ELSE rel[a]]
           /\ todo' = Rest /\ UNCHANGED <<run, sup, clock, trouble>>
  <2>1. RunMoves /\ run' \in RunT /\ RelMoves /\ rel' \in [Arms -> RelT]
    BY <1>0, <1>4, RunSame DEF RelMoves, Free, RelT
  <2> QED
    BY <1>0, <1>1, <1>2, <1>4, <2>1, QuietKeeps
<1>5. ASSUME NEW o \in Reads(Left), Applied(Left, o)
      PROVE  /\ sup' \in [Arms -> SupT] /\ trouble' \in 0..MaxTrouble
             /\ \A a \in Arms : sup'[a].ex = sup[a].ex /\ sup'[a].ops = sup[a].ops
  <2>1. /\ o.s \in SupT /\ o.s.ex = sup[Left].ex /\ o.s.ops = sup[Left].ops
        /\ trouble + o.cost \in 0..MaxTrouble
    BY <1>0, ReadDoes
  <2> QED
    BY <1>0, <1>5, <2>1 DEF Applied
<1>6. ASSUME NEW o \in Reads(Left), Applied(Left, o), rel' = [a \in Arms |-> "no"], clock' = clock,
             Abort("FAULTED", Rest)
      PROVE  PairStep
  <2>1. "FAULTED" \in Lives \ Active
    BY DEF Lives, Active
  <2>2. /\ run' \in RunT /\ RunMoves /\ todo' \in Seq(StepT) /\ SendLast(todo')
        /\ \A x \in Elems(todo') : x \in Elems(Rest) \/ QuietStep(x)
    BY <1>2, <1>6, <2>1, AbortDoes DEF QuietStep
  <2>3. RelMoves /\ rel' \in [Arms -> RelT] /\ clock' \in ClockT
    BY <1>0, <1>6 DEF RelMoves, Free, RelT
  <2> QED
    BY <1>1, <1>2, <1>5, <1>6, <2>2, <2>3, QuietKeeps
<1>7. ASSUME NEW o \in Reads(Left), Applied(Left, o), rel' = [a \in Arms |-> "sent"], clock' = "lead",
             todo' = <<Do("await", Left)>> \o Rest, run' = run
      PROVE  PairStep
  <2> DEFINE y == Do("await", Left)
             p == <<y>>
  <2>1. y \in StepT /\ y.do = "await" /\ y.ev = NoEvent
    BY <1>0, StepMade DEF Steps
  <2>2. todo' = p \o Rest
    BY <1>7
  <2> HIDE DEF y
  <2>3. p \in Seq(StepT) /\ Elems(p) = {y} /\ QuietStep(y)
    BY <2>1, ElemsShort DEF QuietStep
  <2> HIDE DEF p
  <2>4. todo' \in Seq(StepT) /\ SendLast(todo') /\ \A x \in Elems(todo') : QuietStep(x)
    <3>1. Elems(Rest) = {}
      BY <1>2, ElemsShort
    <3> QED
      BY <1>2, <2>2, <2>3, <3>1, PutBefore
  <2>5. Types'
    BY <1>0, <1>1, <1>5, <1>7, <2>4 DEF Types, RelT, ClockT
  <2>6. Fresh' /\ Known' /\ OneLive' /\ Staging' /\ Cancelling' /\ Truth'
    BY <1>1, <1>2, <1>5, <1>7, <2>4, RunSame, QuietMoves, CoreKeeps
  <2>7. Held'
    <3>1. run.life \notin {"STAGING", "READY"} /\ (run.life \in Active => run.k \in Pairs)
      BY <1>3 DEF PairInv, Held
    <3> QED
      BY <1>7, <3>1 DEF Held
  <2>8. Ready'
    <3>1. \A a \in Arms : \A k \in Pairs : sup'[a].ex[k] # "RUNNING"
      BY <1>3, <1>5, <1>7 DEF PairInv, Ready, Played
    <3>2. ~Due("send")'
      BY <2>4 DEF Due, QuietStep
    <3>3. run'.k \in Pairs
      BY <1>2, <1>7
    <3> QED
      BY <2>4, <3>1, <3>2, <3>3 DEF Ready
  <2>9. SelectsAhead
    BY <1>5, <1>7 DEF SelectsAhead
  <2> QED
    BY <2>5, <2>6, <2>7, <2>8, <2>9 DEF PairInv, PairStep
<1> QED
  BY <1>4, <1>6, <1>7 DEF Send

(* The pair is executed: both members are held and none plays when the     *)
(* sending of their releases is put last.                                  *)
LEMMA ExecutePairKeeps == ASSUME PairInv, ExecutePair PROVE PairStep
<1>0. /\ rel \in [Arms -> RelT] /\ clock \in ClockT /\ sup \in [Arms -> SupT] /\ Types
      /\ trouble \in 0..MaxTrouble /\ Left \in Arms /\ Right \in Arms /\ hand \in [Arms -> HandT]
      /\ run \in RunT /\ Arms = {Left, Right} /\ Left # Right
  BY PairAssumption DEF PairInv, Types, RelT, ClockT, Arms
<1>1. todo = <<>> /\ run.life = "READY" /\ UNCHANGED <<hand, rel, clock>>
  BY DEF ExecutePair
<1>2. ~Due("stage") /\ todo \in Seq(StepT) /\ SendLast(todo) /\ Elems(todo) = {}
  BY <1>0, <1>1, ElemsShort DEF Due, PairInv, Ready, Types
<1>3. run.k \in Pairs
  BY <1>1 DEF PairInv, Held, Active
<1>4. PICK l \in Reads(Left), r \in Reads(Right) :
        /\ trouble + l.cost + r.cost <= MaxTrouble
        /\ sup' = [sup EXCEPT ![Left] = l.s, ![Right] = r.s]
        /\ trouble' = trouble + l.cost + r.cost
        /\ IF l.ok /\ r.ok /\ \A a \in Arms : Fit(sup[a]) /\ Loaded(hand[a], sup[a]) = {run.k}
           THEN /\ run' = [run EXCEPT !.life = "EXECUTING"]
                /\ todo' = <<Do("collect", Left), Do("collect", Right), Do("send", Left)>>
           ELSE Abort("REJECTED", <<>>)
  BY DEF ExecutePair
<1>5. /\ l.s \in SupT /\ l.s.ex = sup[Left].ex /\ l.s.ops = sup[Left].ops /\ l.cost \in {0, 1}
      /\ r.s \in SupT /\ r.s.ex = sup[Right].ex /\ r.s.ops = sup[Right].ops /\ r.cost \in {0, 1}
  BY <1>0, ReadDoes
<1>6. /\ sup' \in [Arms -> SupT] /\ trouble' \in 0..MaxTrouble
      /\ \A a \in Arms : sup'[a].ex = sup[a].ex /\ sup'[a].ops = sup[a].ops
  <2>1. sup' \in [Arms -> SupT] /\ sup'[Left] = l.s /\ sup'[Right] = r.s
    BY <1>0, <1>4, <1>5
  <2>2. trouble' \in 0..MaxTrouble
    BY <1>0, <1>4, <1>5, PairAssumption
  <2> QED
    BY <1>0, <1>5, <2>1, <2>2
<1>7. RelMoves
  BY <1>1 DEF RelMoves, Free
<1>8. CASE Abort("REJECTED", <<>>)
  <2>1. "REJECTED" \in Lives \ Active /\ Abort("REJECTED", todo)
    BY <1>1, <1>8 DEF Lives, Active
  <2>2. /\ run' \in RunT /\ RunMoves /\ todo' \in Seq(StepT) /\ SendLast(todo')
        /\ \A x \in Elems(todo') : QuietStep(x)
    BY <1>2, <2>1, AbortDoes DEF QuietStep
  <2> QED
    BY <1>0, <1>1, <1>2, <1>3, <1>6, <1>7, <2>2, QuietKeeps
<1>9. CASE /\ \A a \in Arms : Loaded(hand[a], sup[a]) = {run.k}
           /\ run' = [run EXCEPT !.life = "EXECUTING"]
           /\ todo' = <<Do("collect", Left), Do("collect", Right), Do("send", Left)>>
  <2> DEFINE c1 == Do("collect", Left)
             c2 == Do("collect", Right)
             sd == Do("send", Left)
  <2>1. /\ c1 \in StepT /\ c1.do = "collect" /\ c1.ev = NoEvent
        /\ c2 \in StepT /\ c2.do = "collect" /\ c2.ev = NoEvent
        /\ sd \in StepT /\ sd.do = "send"
    BY <1>0, StepMade DEF Steps
  <2>2. todo' = <<c1, c2, sd>>
    BY <1>9
  <2>3. sd = Do("send", Left)
    OBVIOUS
  <2> HIDE DEF c1, c2, sd
  <2>4. todo' \in Seq(StepT) /\ Elems(todo') = {c1, c2, sd} /\ SendLast(todo')
    <3>1. /\ DOMAIN todo' = 1..3 /\ Len(todo') = 3 /\ todo' \in Seq(StepT)
          /\ todo'[1] = c1 /\ todo'[2] = c2 /\ todo'[3] = sd
      BY <2>1, <2>2
    <3>2. \A i \in 1..3 : i = 1 \/ i = 2 \/ i = 3
      OBVIOUS
    <3>3. {1, 2, 3} \subseteq 1..3
      OBVIOUS
    <3> QED
      BY <2>1, <3>1, <3>2, <3>3 DEF Elems, SendLast
  <2>5. \A x \in Elems(todo') : QuietStep(x) \/ x = Do("send", Left)
    BY <2>1, <2>3, <2>4 DEF QuietStep
  <2>6. /\ run' \in RunT /\ run'.k = run.k /\ run'.life = "EXECUTING" /\ run'.acks = run.acks
        /\ run'.pending = run.pending /\ run'.cancelling = run.cancelling
    BY <1>0, <1>9 DEF RunT, Lives, Active
  <2>7. RunMoves
    <3>1. /\ run.pending # {} => run.cancelling
          /\ run.cancelling => run.k \in Pairs
      BY DEF PairInv, Cancelling
    <3> QED
      BY <1>1, <2>6, <3>1 DEF RunMoves, Active
  <2>8. Types'
    BY <1>0, <1>1, <1>6, <2>4, <2>6 DEF Types
  <2>9. Fresh' /\ Known' /\ OneLive' /\ Staging' /\ Cancelling' /\ Truth'
    BY <1>1, <1>2, <1>6, <2>5, <2>7, QuietMoves, CoreKeeps
  <2>10. Held'
    BY <1>3, <2>6 DEF Held
  <2>11. Ready'
    <3>1. ASSUME NEW a \in Arms
          PROVE  rel[a] # "sent" /\ NoRelease(a) /\ \A k \in Pairs : sup[a].ex[k] \notin Played
      <4>1. Free(a) /\ sup[a].ex[run.k] \notin Played /\ a \in run.acks /\ NoRelease(a)
        BY <1>1 DEF PairInv, Held
      <4>2. sup[a].ex[run.k] \in Live
        <5>1. run.k \in Loaded(hand[a], sup[a])
          BY <1>9
        <5> QED
          BY <5>1 DEF Loaded, Over
      <4>3. \A k \in Pairs : k # run.k => sup[a].ex[k] \notin Live
        BY <1>3, <4>2 DEF PairInv, OneLive
      <4> QED
        BY <4>1, <4>3 DEF Free, Played, Live
    <3>2. \A a \in Arms : NoRelease(a)' /\ rel'[a] # "sent" /\ \A k \in Pairs : sup'[a].ex[k] \notin Played
      BY <1>1, <1>6, <3>1 DEF NoRelease
    <3> QED
      BY <1>3, <2>4, <2>6, <3>2 DEF Ready, Played
  <2>12. SelectsAhead
    BY <1>6 DEF SelectsAhead
  <2> QED
    BY <2>8, <2>9, <2>10, <2>11, <2>12 DEF PairInv, PairStep
<1> QED
  BY <1>4, <1>8, <1>9

(* A pair is staged: nothing is known of it yet, and nothing of the pairs  *)
(* before it is still to be cancelled.                                     *)
LEMMA StagePairKeeps == ASSUME PairInv, StagePair PROVE PairStep
<1>0. /\ Types /\ Fresh /\ Known /\ OneLive /\ Ready /\ Left \in Arms /\ Right \in Arms
      /\ MaxPair \in Nat /\ run.k \in 0..MaxPair /\ Arms = {Left, Right}
      /\ hand \in [Arms -> HandT] /\ sup \in [Arms -> SupT]
  BY PairAssumption DEF PairInv, Types, RunT, Arms
<1>1. /\ todo = <<>> /\ run.k < MaxPair /\ \A a \in Arms : Free(a)
      /\ run' = Run(run.k + 1, "STAGING")
      /\ todo' = <<Do("stage", Left), Do("stage", Right)>>
      /\ hand' = [a \in Arms |-> Pruned(hand[a], sup[a])]
      /\ UNCHANGED <<sup, rel, clock, trouble>>
  BY DEF StagePair
<1>n. PICK n \in Pairs : n = run.k + 1
  BY <1>0, <1>1 DEF Pairs
<1>2. /\ n \in Pairs /\ n \in 0..MaxPair /\ run.k < n /\ \A k \in Pairs : k \in Nat
      /\ \A k \in Nat : ~(k > run.k) => k <= run.k
      /\ \A k \in Nat : k <= run.k => k <= n /\ k # n
      /\ \A k \in Nat : k > n => k > run.k
  BY <1>0, <1>1, <1>n DEF Pairs
<1>3. /\ run' \in RunT /\ run'.k = n /\ run'.life = "STAGING" /\ run'.acks = {}
      /\ run'.pending = {} /\ run'.cancelling = FALSE
  BY <1>1, <1>n, <1>2 DEF Run, RunT, Lives, Active
<1>4. ASSUME NEW a \in Arms
      PROVE  /\ hand'[a] \in HandT /\ hand'[a].unknown = hand[a].unknown
             /\ \A k \in Pairs : \/ hand'[a].plans[k] = hand[a].plans[k]
                                 \/ hand'[a].plans[k] = "none" /\ sup[a].ex[k] \notin Live
             /\ \A e \in Elems(hand'[a].events) : e \in Elems(hand[a].events) \/ LegOf(hand[a], e)
  <2>1. hand[a] \in HandT /\ sup[a] \in SupT /\ hand'[a] = Pruned(hand[a], sup[a])
    BY <1>0, <1>1
  <2> QED
    BY <2>1, PrunedDoes
<1> DEFINE l == Do("stage", Left)
           r == Do("stage", Right)
<1>5. /\ l \in StepT /\ l.do = "stage" /\ l.ev = NoEvent /\ r \in StepT /\ r.do = "stage" /\ r.ev = NoEvent
  BY <1>0, StepMade DEF Steps
<1>6. todo' = <<l, r>>
  BY <1>1
<1> HIDE DEF l, r
<1>7. todo' \in Seq(StepT) /\ Elems(todo') = {l, r} /\ SendLast(todo')
  <2>1. todo' \in Seq(StepT) /\ Elems(todo') = {l, r}
    BY <1>5, <1>6, ElemsShort
  <2> QED
    BY <1>5, <2>1 DEF SendLast, Elems
<1>8. Types'
  <2>1. hand' \in [Arms -> HandT]
    BY <1>1, <1>4
  <2> QED
    BY <1>0, <1>1, <1>3, <1>7, <2>1 DEF Types
<1>9. ASSUME NEW a \in Arms, NEW e \in Event, Coming(a, e)' PROVE e.k \in Nat /\ e.k <= run.k
  <2>1. CASE e \in Elems(hand'[a].events)
    <3>1. CASE e \in Elems(hand[a].events)
      BY <1>0, <3>1 DEF Fresh, Coming, Event
    <3>2. CASE LegOf(hand[a], e)
      <4>1. PICK k \in Pairs : hand[a].plans[k] = "released" /\ e.k = k
        BY <3>2 DEF LegOf
      <4> QED
        BY <1>0, <1>2, <4>1 DEF Fresh
    <3> QED
      BY <1>4, <2>1, <3>1, <3>2
  <2>2. CASE e = NoEvent
    BY <1>0, <2>2 DEF NoEvent, Ev
  <2>3. (\E x \in Elems(todo') : x.arm = a /\ x.ev = e) => e = NoEvent
    BY <1>5, <1>7
  <2> QED
    BY <1>9, <2>1, <2>2, <2>3 DEF Coming
<1>10. ASSUME NEW a \in Arms, NEW kind \in {"staged", "cleared"}, NEW ok \in BOOLEAN
       PROVE  ~Coming(a, Ev(kind, n, ok))'
  <2> DEFINE e == Ev(kind, n, ok)
  <2>1. e \in Event /\ e.k = n
    BY <1>2 DEF Ev, Event
  <2> HIDE DEF e
  <2>2. ~Coming(a, e)'
    BY <1>0, <1>2, <1>9, <2>1
  <2> QED
    BY <2>2 DEF e
<1>11. Fresh'
  <2>1. ASSUME NEW a \in Arms, NEW k \in Pairs, k > n
        PROVE  hand'[a].plans[k] = "none" /\ k \notin hand'[a].unknown /\ sup'[a].ex[k] = "NONE"
    <3>1. k > run.k
      BY <1>2, <2>1
    <3> QED
      BY <1>0, <1>1, <1>4, <3>1 DEF Fresh
  <2>2. ASSUME NEW a \in Arms, NEW x \in Elems(sup'[a].ops) PROVE x.k <= n
    <3>1. x \in Elems(sup[a].ops) /\ x.k <= run.k
      BY <1>0, <1>1 DEF Fresh
    <3>2. x.k \in Nat
      <4>1. sup[a].ops \in Seq(CallT)
        BY <1>0 DEF SupT
      <4>2. x \in CallT
        BY <3>1, <4>1, ElemsIn
      <4>3. \/ x.k \in Pairs
            \/ x = OpOf("lost", 0)
        BY <4>2 DEF CallT
      <4>4. OpOf("lost", 0).k = 0 /\ 0 \in Nat
        BY DEF OpOf
      <4> QED
        BY <1>2, <4>3, <4>4
    <3> QED
      BY <1>2, <3>1, <3>2
  <2>3. ASSUME NEW a \in Arms, NEW e \in Event, Coming(a, e)' PROVE e.k <= n
    BY <1>2, <1>9, <2>3
  <2> QED
    BY <1>3, <2>1, <2>2, <2>3 DEF Fresh
<1>12. Known' /\ OneLive'
  <2>1. ASSUME NEW a \in Arms, NEW k \in Pairs
        PROVE  /\ sup'[a].ex[k] \in Live => hand'[a].plans[k] # "none" \/ k \in hand'[a].unknown
               /\ hand'[a].plans[k] # "none" => k \notin hand'[a].unknown
               /\ InOps(a, "submit", k)' => k \in hand'[a].unknown
    BY <1>0, <1>1, <1>4 DEF Known, InOps
  <2> QED
    BY <1>0, <1>1, <2>1 DEF Known, OneLive
<1>13. Staging'
  <2>1. \A a \in Arms : hand'[a].plans[n] = "none" /\ n \notin hand'[a].unknown
    BY <1>0, <1>2, <1>4 DEF Fresh
  <2> QED
    BY <1>1, <1>2, <1>3, <2>1 DEF Staging
<1>14. Cancelling' /\ Truth'
  <2>1. ~Due("cancel")' /\ ~Due("cancelFound")'
    BY <1>5, <1>7 DEF Due
  <2>2. \A a \in Arms : \A ok \in BOOLEAN : ~Coming(a, Ev("cleared", run.k, ok))'
    BY <1>3, <1>10 DEF Coming
  <2> QED
    BY <1>3, <2>1, <2>2 DEF Cancelling, Truth
<1>15. ~Due("send")'
  BY <1>5, <1>7 DEF Due
<1>16. Held'
  <2>1. ASSUME NEW a \in Arms
        PROVE  /\ Free(a)' /\ sup'[a].ex[n] \notin Played /\ ~InOps(a, "release", n)'
               /\ ~Coming(a, Ev("staged", run.k, TRUE))'
    <3>1. Free(a)' /\ sup'[a].ex[n] = "NONE"
      BY <1>0, <1>1, <1>2 DEF Free, Fresh
    <3>2. OpOf("release", n) \notin Elems(sup[a].ops)
      <4>1. OpOf("release", n).k = n /\ ~(n <= run.k)
        BY <1>0, <1>2 DEF OpOf
      <4> QED
        BY <1>0, <4>1 DEF Fresh
    <3>3. ~Coming(a, Ev("staged", run.k, TRUE))'
      BY <1>3, <1>10 DEF Coming
    <3> QED
      BY <1>1, <1>3, <3>1, <3>2, <3>3 DEF InOps, Played
  <2> QED
    BY <1>2, <1>3, <1>15, <2>1 DEF Held, InOps
<1>17. Ready'
  BY <1>0, <1>1, <1>2, <1>3, <1>7, <1>15 DEF Ready
<1>18. SelectsAhead
  BY <1>1 DEF SelectsAhead
<1> QED
  BY <1>8, <1>11, <1>12, <1>13, <1>14, <1>16, <1>17, <1>18 DEF PairInv, PairStep

(* A member is staged: its handle knows it, or knows that it may be there; *)
(* if it is acknowledged, the supervisor has performed all its calls.      *)
LEMMA StageMemberKeeps == ASSUME PairInv, NEW a \in Arms, StageMember(a) PROVE PairStep
<1>0. /\ Types /\ Fresh /\ Known /\ OneLive /\ Staging /\ Cancelling /\ Held /\ Ready
      /\ sup[a] \in SupT /\ hand[a] \in HandT /\ run.k \in 0..MaxPair
      /\ hand \in [Arms -> HandT] /\ sup \in [Arms -> SupT] /\ Left # Right
  BY PairAssumption DEF PairInv, Types, RunT
<1>1. /\ todo # <<>> /\ Head(todo).do = "stage" /\ Head(todo).arm = a
      /\ todo' = Rest /\ UNCHANGED <<run, rel, clock>>
  BY DEF StageMember, At
<1>2. /\ Rest \in Seq(StepT) /\ Elems(Rest) \subseteq Elems(todo) /\ SendLast(Rest)
      /\ Head(todo) \in Elems(todo) /\ run.k \in Pairs
  BY <1>1, RestDoes
<1>3. /\ Due("stage") /\ ~run.cancelling
      /\ todo \in {<<Do("stage", Left), Do("stage", Right)>>, <<Do("stage", Right)>>}
      /\ hand[a].plans[run.k] = "none" /\ run.k \notin hand[a].unknown
  <2>1. Due("stage")
    BY <1>1, <1>2 DEF Due
  <2> QED
    BY <1>0, <1>1, <1>2, <2>1 DEF Staging
<1>4. sup[a].ex[run.k] \notin Live
  BY <1>2, <1>3, NothingHeld
<1> DEFINE x == OpOf("submit", run.k)
<1>5. PICK o \in Calls(a, x) :
        /\ Applied(a, o)
        /\ hand' = [hand EXCEPT ![a] =
             IF ~o.ok THEN Told(Unsettled(@, run.k), Ev("staged", run.k, FALSE))
             ELSE IF o.s.ex[run.k] \in Live
                  THEN Told([@ EXCEPT !.plans[run.k] = "held"], Ev("staged", run.k, TRUE))
                  ELSE Told(@, Ev("staged", run.k, FALSE))]
  BY DEF StageMember
<1>6. x \in CallT /\ x.op = "submit" /\ x.k = run.k
  BY <1>2 DEF CallT, OpOf
<1> HIDE DEF x
<1>7. /\ o.s \in SupT /\ o.ok \in BOOLEAN /\ trouble + o.cost \in 0..MaxTrouble
      /\ o.ok => o.s \in Perform(sup[a], x) /\ sup[a].ops = <<>> /\ o.s.ops = <<>>
      /\ ~o.ok => o.s.ex = sup[a].ex /\ Elems(o.s.ops) \subseteq Elems(sup[a].ops) \cup {x}
  BY <1>0, <1>6, CallDoes
<1>8. o.ok => /\ \A j \in Pairs : j # x.k => o.s.ex[j] = sup[a].ex[j]
              /\ \/ o.s.ex[x.k] = sup[a].ex[x.k]
                 \/ o.s.ex[x.k] = "REJECTED"
                 \/ o.s.ex[x.k] = "ADMITTED" /\ \A j \in Pairs : sup[a].ex[j] \notin Live
  BY <1>0, <1>6, <1>7, PerformDoes
<1>9. sup' = [sup EXCEPT ![a] = o.s] /\ trouble' \in 0..MaxTrouble
  BY <1>5, <1>7 DEF Applied
<1>10. /\ \A j \in Pairs : j # run.k => o.s.ex[j] = sup[a].ex[j]
       /\ \/ o.s.ex[run.k] \notin Live
          \/ o.s.ex[run.k] = "ADMITTED" /\ o.ok /\ \A j \in Pairs : sup[a].ex[j] \notin Live
  BY <1>4, <1>6, <1>7, <1>8 DEF Live
<1>11. /\ \A z \in Elems(o.s.ops) : z \in Elems(sup[a].ops) \/ (z = x /\ ~o.ok)
       /\ o.ok => Elems(o.s.ops) = {}
  BY <1>7, ElemsShort
<1>12. PICK g \in HandT, ok \in BOOLEAN :
         /\ hand' = [hand EXCEPT ![a] = Told(g, Ev("staged", run.k, ok))]
         /\ g.events = hand[a].events
         /\ ok => o.ok
         /\ \A k \in Pairs : k # run.k => /\ g.plans[k] = hand[a].plans[k]
                                          /\ k \in g.unknown <=> k \in hand[a].unknown
         /\ ~o.ok => run.k \in g.unknown /\ g.plans[run.k] = "none"
         /\ o.ok => run.k \notin g.unknown
         /\ o.s.ex[run.k] \in Live => g.plans[run.k] # "none"
  <2>0. /\ hand[a].plans \in [Pairs -> {"none", "held", "released", "reported"}]
        /\ hand[a].unknown \in SUBSET Pairs
    BY <1>0 DEF HandT
  <2>1. CASE ~o.ok
    <3> DEFINE u == hand[a].unknown \cup {run.k}
               g == Unsettled(hand[a], run.k)
    <3>1. u \in SUBSET Pairs /\ run.k \in u /\ \A k \in Pairs : k # run.k => (k \in u <=> k \in hand[a].unknown)
      BY <1>2, <2>0
    <3>2. hand' = [hand EXCEPT ![a] = Told(g, Ev("staged", run.k, FALSE))]
      BY <1>5, <2>1
    <3>3. g \in HandT /\ g.unknown = u /\ g.events = hand[a].events /\ g.plans = hand[a].plans
      BY <1>0, <3>1 DEF HandT, Unsettled
    <3> HIDE DEF g, u
    <3>4. o.s.ex[run.k] \notin Live
      BY <1>10, <2>1
    <3> QED
      BY <1>3, <2>1, <3>1, <3>2, <3>3, <3>4
  <2>2. CASE o.ok /\ o.s.ex[run.k] \in Live
    <3> DEFINE g == [hand[a] EXCEPT !.plans[run.k] = "held"]
    <3>1. hand' = [hand EXCEPT ![a] = Told(g, Ev("staged", run.k, TRUE))]
      BY <1>5, <2>2
    <3>2. /\ g \in HandT /\ g.unknown = hand[a].unknown /\ g.events = hand[a].events
          /\ g.plans = [hand[a].plans EXCEPT ![run.k] = "held"]
      BY <1>0, <1>2, <2>0 DEF HandT
    <3> HIDE DEF g
    <3>3. g.plans[run.k] = "held" /\ \A k \in Pairs : k # run.k => g.plans[k] = hand[a].plans[k]
      BY <1>2, <2>0, <3>2
    <3> QED
      BY <1>3, <2>2, <3>1, <3>2, <3>3
  <2>3. CASE o.ok /\ o.s.ex[run.k] \notin Live
    <3>1. hand' = [hand EXCEPT ![a] = Told(hand[a], Ev("staged", run.k, FALSE))]
      BY <1>5, <2>3
    <3> QED
      BY <1>0, <1>3, <2>3, <3>1
  <2> QED
    BY <1>7, <2>1, <2>2, <2>3
<1>13. PICK e0 \in Event : e0 = Ev("staged", run.k, ok)
  BY <1>0 DEF Ev, Event
<1>14. e0.kind = "staged" /\ e0.k = run.k /\ e0.ok = ok
  BY <1>13 DEF Ev
<1>15. PICK h \in HandT : /\ h = Told(g, e0) /\ h.plans = g.plans /\ h.unknown = g.unknown
                          /\ Elems(h.events) = Elems(hand[a].events) \cup {e0}
  BY <1>12, ToldDoes
<1>16. hand' = [hand EXCEPT ![a] = h]
  BY <1>12, <1>13, <1>15
<1>17. /\ sup' \in [Arms -> SupT] /\ sup'[a] = o.s /\ \A b \in Arms : b # a => sup'[b] = sup[b]
       /\ hand' \in [Arms -> HandT] /\ hand'[a] = h /\ \A b \in Arms : b # a => hand'[b] = hand[b]
  BY <1>0, <1>7, <1>9, <1>16
<1>18. Types'
  BY <1>0, <1>1, <1>2, <1>9, <1>17 DEF Types
<1>19. ASSUME NEW b \in Arms, NEW e, Coming(b, e)' PROVE Coming(b, e) \/ (b = a /\ e = e0)
  BY <1>1, <1>2, <1>15, <1>17, <1>19 DEF Coming
<1>20. Fresh'
  <2>1. ASSUME NEW b \in Arms, NEW k \in Pairs, k > run.k
        PROVE  hand'[b].plans[k] = "none" /\ k \notin hand'[b].unknown /\ sup'[b].ex[k] = "NONE"
    <3>1. hand[b].plans[k] = "none" /\ k \notin hand[b].unknown /\ sup[b].ex[k] = "NONE"
      BY <1>0, <2>1 DEF Fresh
    <3>2. k # run.k
      BY <1>0, <2>1 DEF Pairs
    <3> QED
      BY <1>10, <1>12, <1>15, <1>17, <3>1, <3>2
  <2>2. ASSUME NEW b \in Arms, NEW z \in Elems(sup'[b].ops) PROVE z.k <= run.k
    BY <1>0, <1>6, <1>11, <1>17, <2>2 DEF Fresh
  <2>3. ASSUME NEW b \in Arms, NEW e \in Event, Coming(b, e)' PROVE e.k <= run.k
    BY <1>0, <1>14, <1>19, <2>3 DEF Fresh
  <2> QED
    BY <1>1, <2>1, <2>2, <2>3 DEF Fresh
<1>21. Known'
  <2>1. ASSUME NEW b \in Arms, NEW k \in Pairs
        PROVE  /\ sup'[b].ex[k] \in Live => hand'[b].plans[k] # "none" \/ k \in hand'[b].unknown
               /\ hand'[b].plans[k] # "none" => k \notin hand'[b].unknown
               /\ OpOf("submit", k) \in Elems(sup'[b].ops) => k \in hand'[b].unknown
    <3>0. /\ sup[b].ex[k] \in Live => hand[b].plans[k] # "none" \/ k \in hand[b].unknown
          /\ hand[b].plans[k] # "none" => k \notin hand[b].unknown
          /\ OpOf("submit", k) \in Elems(sup[b].ops) => k \in hand[b].unknown
      BY <1>0 DEF Known, InOps
    <3>1. CASE b # a
      BY <1>17, <3>0, <3>1
    <3>2. CASE b = a /\ k # run.k
      <4>1. OpOf("submit", k) # x
        BY <1>6, <3>2 DEF OpOf
      <4> QED
        BY <1>10, <1>11, <1>12, <1>15, <1>17, <3>0, <3>2, <4>1
    <3>3. CASE b = a /\ k = run.k
      BY <1>7, <1>10, <1>11, <1>12, <1>15, <1>17, <3>3
    <3> QED
      BY <3>1, <3>2, <3>3
  <2> QED
    BY <2>1 DEF Known, InOps
<1>22. OneLive'
  <2>1. ASSUME NEW b \in Arms, NEW j \in Pairs, NEW k \in Pairs, sup'[b].ex[j] \in Live, sup'[b].ex[k] \in Live
        PROVE  j = k
    BY <1>0, <1>10, <1>17, <2>1 DEF OneLive
  <2> QED
    BY <2>1 DEF OneLive
<1>23. ~Due("send")' /\ ~Due("cancel")' /\ ~Due("cancelFound")'
  <2>1. \A z \in Elems(todo) : z.do = "stage"
    BY <1>3, ElemsShort DEF Do
  <2> QED
    BY <1>1, <1>2, <2>1 DEF Due
<1>24. Staging'
  <2>1. CASE todo = <<Do("stage", Left), Do("stage", Right)>>
    <3>1. a = Left /\ todo' = <<Do("stage", Right)>>
      BY <1>1, <2>1 DEF Do, Rest
    <3>2. \A b \in Arms : (\E z \in Elems(todo') : z.arm = b) => b = Right
      BY <3>1, ElemsShort DEF Do
    <3>3. run.k \in Pairs /\ hand[Right].plans[run.k] = "none" /\ run.k \notin hand[Right].unknown
      <4>1. Do("stage", Right) \in Elems(todo) /\ Do("stage", Right).arm = Right /\ Right \in Arms
        BY <2>1, ElemsShort DEF Do, Arms
      <4> QED
        BY <1>0, <1>3, <4>1 DEF Staging
    <3>4. hand'[Right] = hand[Right]
      BY <1>0, <1>17, <3>1 DEF Arms
    <3> QED
      BY <1>1, <1>3, <3>1, <3>2, <3>3, <3>4 DEF Staging
  <2>2. CASE todo = <<Do("stage", Right)>>
    <3>1. todo' = <<>>
      BY <1>1, <2>2 DEF Rest
    <3> QED
      BY <3>1, ElemsShort DEF Staging, Due
  <2> QED
    BY <1>3, <2>1, <2>2
<1>25. \A b \in Arms : \A c \in BOOLEAN : ~Coming(b, Ev("cleared", run.k, c))'
  <2> SUFFICES ASSUME NEW b \in Arms, NEW c \in BOOLEAN, Coming(b, Ev("cleared", run.k, c))'
               PROVE  FALSE
    OBVIOUS
  <2>1. PICK e \in Event : e = Ev("cleared", run.k, c)
    BY <1>0 DEF Ev, Event
  <2>2. e.kind = "cleared" /\ Coming(b, e)'
    BY <1>1, <2>1 DEF Ev, Coming
  <2>3. Coming(b, e)
    BY <1>14, <1>19, <2>2
  <2> QED
    BY <1>0, <1>3, <2>1, <2>3 DEF Cancelling
<1>26. Cancelling' /\ Truth'
  BY <1>0, <1>1, <1>3, <1>23, <1>25 DEF Cancelling, Truth
<1>27. Held'
  <2>1. ASSUME run.life \in {"STAGING", "READY"}, NEW b \in Arms
        PROVE  /\ Free(b)' /\ sup'[b].ex[run.k] \notin Played
               /\ OpOf("release", run.k) \notin Elems(sup'[b].ops)
               /\ b \in run.acks \/ Coming(b, Ev("staged", run.k, TRUE))' => NoRelease(b)'
    <3>1. /\ Free(b) /\ sup[b].ex[run.k] \notin Played /\ OpOf("release", run.k) \notin Elems(sup[b].ops)
          /\ b \in run.acks \/ Coming(b, Ev("staged", run.k, TRUE)) => NoRelease(b)
      BY <1>0, <2>1 DEF Held, InOps
    <3>2. Free(b)'
      BY <1>1, <3>1 DEF Free
    <3>3. sup'[b].ex[run.k] \notin Played
      BY <1>10, <1>17, <3>1 DEF Played, Live
    <3>4. x # OpOf("release", run.k) /\ x.op # "release"
      BY <1>6 DEF OpOf
    <3>5. OpOf("release", run.k) \notin Elems(sup'[b].ops)
      BY <1>11, <1>17, <3>1, <3>4
    <3>6. ASSUME b \in run.acks \/ Coming(b, Ev("staged", run.k, TRUE))' PROVE NoRelease(b)'
      <4>1. \/ b \in run.acks \/ Coming(b, Ev("staged", run.k, TRUE))
            \/ b = a /\ ok
        <5>1. PICK e \in Event : e = Ev("staged", run.k, TRUE)
          BY <1>0 DEF Ev, Event
        <5>2. e.ok = TRUE /\ (Coming(b, e)' <=> Coming(b, Ev("staged", run.k, TRUE))')
          BY <1>1, <5>1 DEF Ev, Coming
        <5> QED
          BY <1>14, <1>19, <3>6, <5>1, <5>2
      <4>2. CASE b = a /\ ok
        BY <1>11, <1>12, <1>17, <4>2 DEF NoRelease
      <4>3. CASE b \in run.acks \/ Coming(b, Ev("staged", run.k, TRUE))
        BY <1>11, <1>17, <3>1, <3>4, <4>3 DEF NoRelease
      <4> QED
        BY <4>1, <4>2, <4>3
    <3> QED
      BY <3>2, <3>3, <3>5, <3>6
  <2> QED
    BY <1>0, <1>1, <1>23, <2>1 DEF Held, InOps
<1>28. Ready'
  <2>1. ASSUME clock = "lead", NEW b \in Arms, NEW k \in Pairs PROVE sup'[b].ex[k] # "RUNNING"
    BY <1>0, <1>10, <1>17, <2>1 DEF Ready, Live
  <2> QED
    BY <1>1, <1>2, <1>23, <2>1 DEF Ready
<1>29. SelectsAhead
  BY <1>10, <1>17 DEF SelectsAhead, Live
<1> QED
  BY <1>18, <1>20, <1>21, <1>22, <1>24, <1>26, <1>27, <1>28, <1>29 DEF PairInv, PairStep

-----------------------------------------------------------------------------
(* The theorems.                                                           *)

(* Every step keeps the invariant and selects only ahead of the stamp.     *)
LEMMA PairNext == ASSUME PairInv, [Next]_vars PROVE PairStep
<1>1. CASE UNCHANGED vars
  <2>1. /\ Left \in Arms /\ sup[Left] \in SupT /\ sup' = [sup EXCEPT ![Left] = sup[Left]]
        /\ UNCHANGED <<run, todo, hand, rel, clock, trouble>> /\ sup' = sup
    BY <1>1 DEF vars, PairInv, Types, Arms
  <2>2. ExMoves(Left) /\ OpsMove(Left) /\ RelMoves
    BY <2>1, SupSame DEF RelMoves, Free
  <2> QED
    BY <2>1, <2>2, OneSupervisor DEF PairInv, Types
<1>2. CASE StagePair
  BY <1>2, StagePairKeeps
<1>3. CASE ExecutePair
  BY <1>3, ExecutePairKeeps
<1>4. CASE CancelPair
  BY <1>4, CancelPairKeeps
<1>5. CASE Pump
  BY <1>5, PumpKeeps
<1>6. CASE Thread
  <2>1. CASE Send
    BY <2>1, SendKeeps
  <2>2. CASE Await
    BY <2>2, AwaitKeeps
  <2>3. CASE ReleaseFailed
    BY <2>3, ReleaseFailedKeeps
  <2>4. ASSUME NEW a \in Arms, StageMember(a) \/ Poll(a) \/ Collect(a) \/ Undo(a)
        PROVE  PairStep
    BY <2>4, StageMemberKeeps, PollKeeps, CollectKeeps, UndoKeeps
  <2>5. ASSUME NEW a \in Arms, Cancels(a) PROVE PairStep
    BY <2>5, CancelNothingKeeps, CancelRecordedKeeps, CancelUnknownKeeps, CancelFoundKeeps DEF Cancels
  <2>6. ASSUME NEW a \in Arms, Delivered(a) \/ Look(a) PROVE PairStep
    BY <2>6, DeliveredKeeps, LookKeeps
  <2> QED
    BY <1>6, <2>1, <2>2, <2>3, <2>4, <2>5, <2>6 DEF Thread
<1>7. CASE LeadPasses
  BY <1>7, TimeKeeps
<1>8. ASSUME NEW a \in Arms, Worker(a) PROVE PairStep
  BY <1>8, WorkerKeeps
<1>9. ASSUME NEW a \in Arms, LoopRuns(a) PROVE PairStep
  BY <1>9, LoopKeeps
<1>10. ASSUME NEW a \in Arms, SessionEnds(a) \/ Faults(a) \/ Disarms(a) \/ Rearms(a) PROVE PairStep
  BY <1>10, AloneKeeps
<1>11. ASSUME NEW a \in Arms, Moves(a) PROVE PairStep
  BY <1>11, LegKeeps DEF Moves
<1>12. ASSUME NEW a \in Arms, NEW k \in Pairs, Prunes(a, k) PROVE PairStep
  BY <1>12, LegKeeps
<1> QED
  BY <1>1, <1>2, <1>3, <1>4, <1>5, <1>6, <1>7, <1>8, <1>9, <1>10, <1>11, <1>12 DEF Next

(* The invariant holds, and so does what a step may do: for any number of  *)
(* pairs, calls, events and troubles.                                      *)
THEOREM PairSafe == Spec => []PairInv
<1>1. ASSUME PairInv, [Next]_vars PROVE PairInv'
  BY <1>1, PairNext DEF PairStep
<1> QED
  BY <1>1, PairStart, PTL DEF Spec

(* The types of coordinator, handles and supervisors.                      *)
THEOREM PairTypes == Spec => []TypeOK
<1>1. ASSUME Types PROVE TypeOK
  <2>1. CallT \subseteq Op
    BY PairAssumption DEF CallT, OpOf, Op, Pairs
  <2>2. \A s \in Seq(CallT) : s \in Seq(Op)
    BY <2>1
  <2>3. ASSUME NEW a \in Arms
        PROVE  sup[a] \in [ex : [Pairs -> Live \cup Ended \cup Unknown], armed : BOOLEAN,
                           fault : BOOLEAN, ops : Seq(Op), open : BOOLEAN, owned : BOOLEAN]
    <3>1. sup[a] \in SupT
      BY <1>1 DEF Types
    <3> HIDE DEF Op, CallT
    <3> QED
      BY <2>2, <3>1 DEF SupT, Statuses
  <2>4. sup = [a \in Arms |-> sup[a]]
    BY <1>1 DEF Types
  <2>5. sup \in [Arms -> [ex : [Pairs -> Live \cup Ended \cup Unknown], armed : BOOLEAN,
                          fault : BOOLEAN, ops : Seq(Op), open : BOOLEAN, owned : BOOLEAN]]
    BY <2>3, <2>4
  <2> QED
    BY <1>1, <2>5 DEF TypeOK, Types, RunT, Lives, StepT, HandT
<1> QED
  BY <1>1, PairSafe, PTL DEF PairInv

(* "cleared" is the truth: an arm whose cancel is taken as confirmed holds *)
(* no member of the pair and will not come to hold one.  What confirms it  *)
(* is in Truth; that no submission is still on its way is in Known: a      *)
(* queued submission is always a staging of unknown outcome.               *)
THEOREM PairClearedIsOver == Spec => []ClearedIsOver
<1>1. ASSUME PairInv PROVE ClearedIsOver
  <2> SUFFICES ASSUME run.cancelling, NEW a \in Arms, a \notin run.pending
               PROVE  ~CanRun(a, run.k)
    BY DEF ClearedIsOver
  <2>1. sup[a].ex[run.k] \notin Live /\ run.k \notin hand[a].unknown /\ run.k \in Pairs
    BY <1>1 DEF PairInv, Truth, Cancelling
  <2>2. ~InOps(a, "submit", run.k)
    BY <1>1, <2>1 DEF PairInv, Known
  <2> QED
    BY <2>1, <2>2 DEF CanRun, InOps, Elems
<1> QED
  BY <1>1, PairSafe, PTL

(* No late start: once an arm plays its member, no supervisor takes a      *)
(* release of the pair any more.  A release is taken only while the stamp  *)
(* is ahead, and nothing plays while one is.                               *)
THEOREM PairNoLateStart == Spec => NoLateStart
<1> DEFINE Late == \A a \in Arms, b \in Arms : \A k \in Pairs :
                     sup[a].ex[k] # "SELECTED" /\ sup'[a].ex[k] = "SELECTED" => sup[b].ex[k] # "RUNNING"
<1>1. ASSUME PairInv, [Next]_vars PROVE [Late]_vars
  <2>1. SelectsAhead
    BY <1>1, PairNext DEF PairStep
  <2>2. clock = "lead" => \A b \in Arms : \A k \in Pairs : sup[b].ex[k] # "RUNNING"
    BY <1>1 DEF PairInv, Ready
  <2> QED
    BY <2>1, <2>2 DEF SelectsAhead
<1>2. NoLateStart <=> [][Late]_vars
  BY DEF NoLateStart
<1> QED
  BY <1>1, <1>2, PairSafe, PTL DEF Spec
=============================================================================

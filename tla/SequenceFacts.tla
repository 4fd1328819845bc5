---------------------------- MODULE SequenceFacts ----------------------------
(***************************************************************************)
(* Facts about natural numbers and about sequences used as queues and as   *)
(* histories that the proofs of several components need.  The library's    *)
(* induction theorems take an operator; a well-founded relation does not,  *)
(* so what needs induction here is drawn from WFMin.                       *)
(***************************************************************************)
EXTENDS Integers, SequenceTheorems, FiniteSetTheorems, FunctionTheorems, WellFoundedInduction, TLAPS

In(q, x) == \E i \in 1 .. Len(q) : q[i] = x

Distinct(q) == \A i, j \in 1 .. Len(q) : q[i] = q[j] => i = j

\* A set of natural numbers has a least element.
LEMMA LeastNatural ==
  ASSUME NEW T \in SUBSET Nat, T # {} PROVE \E x \in T : \A y \in T : x <= y
<1>1. PICK x \in T : \A y \in T : ~(<<y, x>> \in OpToRel(<, Nat))
  BY NatLessThanWellFounded, WFMin
<1>2. \A y \in T : ~(y < x)
  BY <1>1 DEF OpToRel
<1>3. QED BY <1>2

\* A bounded one has a greatest.
LEMMA GreatestNatural ==
  ASSUME NEW n \in Nat, NEW T \in SUBSET (0 .. n), T # {} PROVE \E x \in T : \A y \in T : y <= x
<1> DEFINE U == {u \in 0 .. n : \A y \in T : y <= u}
<1>1. PICK x \in U : \A y \in U : x <= y
  <2>1. n \in U /\ U \in SUBSET Nat
    OBVIOUS
  <2>2. QED BY <2>1, LeastNatural
<1>2. x \in T
  <2>1. CASE x = 0
    <3>1. PICK y \in T : TRUE
      OBVIOUS
    <3>2. QED BY <2>1, <3>1, <1>1
  <2>2. CASE x # 0
    <3>1. x - 1 \notin U
      BY <1>1, <2>2
    <3>2. PICK y \in T : ~(y <= x - 1)
      BY <3>1, <2>2
    <3>3. QED BY <3>2, <1>1
  <2>3. QED BY <2>1, <2>2
<1>3. QED BY <1>1, <1>2

\* g is f, a function of the numbers up to n, with one more value.
OneMore(g, f, n, S, x) ==
  g \in [1 .. n + 1 -> S] /\ g[n + 1] = x /\ \A i \in 1 .. n : g[i] = f[i]

\* Append gives one more value.
LEMMA AppendIsOneMore ==
  ASSUME NEW n, NEW S, NEW f, NEW x, NEW g,
         n \in Nat, f \in [1 .. n -> S], x \in S, g = Append(f, x)
  PROVE  OneMore(g, f, n, S, x)
<1>1. f \in Seq(S)
  OBVIOUS
<1>2. Len(f) = n
  OBVIOUS
<1>3. Append(f, x) \in Seq(S) /\ Len(Append(f, x)) = n + 1
  BY <1>1, <1>2, AppendProperties
<1>4. Append(f, x) \in [1 .. n + 1 -> S]
  BY <1>3, LenProperties
<1>5. QED BY <1>1, <1>2, <1>4, AppendProperties DEF OneMore

\* Who is in a queue after an append, and after its head has left.
LEMMA InAppend ==
  ASSUME NEW S, NEW q \in Seq(S), NEW x \in S
  PROVE  /\ Append(q, x) \in Seq(S) /\ Append(q, x) # <<>> /\ In(Append(q, x), x)
         /\ \A y : In(q, y) => In(Append(q, x), y)
         /\ q # <<>> => Head(Append(q, x)) = Head(q)
<1>1. /\ Append(q, x) \in Seq(S) /\ Append(q, x) # <<>>
      /\ Len(Append(q, x)) = Len(q) + 1 /\ Len(q) \in Nat
      /\ \A i \in 1 .. Len(q) : Append(q, x)[i] = q[i]
      /\ Append(q, x)[Len(q) + 1] = x
  BY AppendProperties, LenProperties
<1>2. In(Append(q, x), x)
  BY <1>1 DEF In
<1>3. ASSUME NEW y, In(q, y) PROVE In(Append(q, x), y)
  BY <1>1, <1>3 DEF In
<1>4. q # <<>> => Head(Append(q, x)) = Head(q)
  BY HeadTailAppend
<1>5. QED BY <1>1, <1>2, <1>3, <1>4

\* Who is in a queue once its head has left; nobody is in an empty one.
LEMMA InTail ==
  ASSUME NEW S, NEW q \in Seq(S), NEW y, In(q, y)
  PROVE  /\ q # <<>> /\ Tail(q) \in Seq(S)
         /\ y # Head(q) => In(Tail(q), y)
<1>1. q # <<>>
  BY EmptySeq DEF In
<1>2. /\ Tail(q) \in Seq(S) /\ Len(Tail(q)) = Len(q) - 1 /\ Len(q) \in Nat
      /\ \A i \in 1 .. Len(Tail(q)) : Tail(q)[i] = q[i + 1]
      /\ Head(q) = q[1]
  BY <1>1, HeadTailProperties, LenProperties
<1>3. ASSUME y # Head(q) PROVE In(Tail(q), y)
  <2>1. PICK i \in 1 .. Len(q) : q[i] = y
    BY DEF In
  <2>2. i - 1 \in 1 .. Len(Tail(q)) /\ Tail(q)[i - 1] = y
    BY <1>2, <1>3, <2>1
  <2>3. QED BY <2>2 DEF In
<1>4. QED BY <1>1, <1>2, <1>3

\* What is left of a sequence behind its first k elements.
LEMMA DropFacts ==
  ASSUME NEW S, NEW q \in Seq(S), NEW k \in Nat, k <= Len(q)
  PROVE  LET r == SubSeq(q, k + 1, Len(q)) IN
         /\ r \in Seq(S) /\ Len(r) = Len(q) - k
         /\ \A i \in 1 .. Len(r) : r[i] = q[k + i]
<1> DEFINE r == SubSeq(q, k + 1, Len(q))
<1>1. Len(q) \in Nat /\ \A i \in k + 1 .. Len(q) : q[i] \in S
  BY LenProperties, ElementOfSeq
<1>2. /\ r \in Seq(S)
      /\ Len(r) = IF k + 1 <= Len(q) THEN Len(q) - (k + 1) + 1 ELSE 0
      /\ \A i \in 1 .. Len(q) - (k + 1) + 1 : r[i] = q[(k + 1) + i - 1]
  BY <1>1, SubSeqProperties
<1> HIDE DEF r
<1>3. Len(r) = Len(q) - k
  BY <1>1, <1>2
<1>4. ASSUME NEW i \in 1 .. Len(r) PROVE r[i] = q[k + i]
  <2>1. i \in 1 .. Len(q) - (k + 1) + 1 /\ (k + 1) + i - 1 = k + i
    BY <1>1, <1>3
  <2>2. QED BY <1>2, <2>1
<1>5. QED BY <1>2, <1>3, <1>4 DEF r

\* The first k elements of a sequence without repetitions are k.
LEMMA CountFirst ==
  ASSUME NEW S, NEW q \in Seq(S), Distinct(q), NEW k \in Nat, k <= Len(q),
         NEW T, T = {q[i] : i \in 1 .. k}
  PROVE  IsFiniteSet(T) /\ Cardinality(T) = k
<1> DEFINE f == [i \in 1 .. k |-> q[i]]
<1>1. f \in [1 .. k -> T]
  OBVIOUS
<1>2. \A i, j \in 1 .. k : f[i] = f[j] => i = j
  BY LenProperties DEF Distinct
<1>3. \A t \in T : \E i \in 1 .. k : f[i] = t
  OBVIOUS
<1>4. f \in Bijection(1 .. k, T)
  <2> HIDE DEF f
  <2>1. QED BY <1>1, <1>2, <1>3, Fun_IsBij
<1>5. ExistsBijection(1 .. k, T)
  BY <1>4 DEF ExistsBijection
<1>6. IsFiniteSet(1 .. k) /\ Cardinality(1 .. k) = k
  BY FS_Interval
<1>7. QED BY <1>5, <1>6, FS_Bijection
=============================================================================

-------------------------- MODULE FollowUp_proofs --------------------------
(***************************************************************************)
(* Proofs about FollowUp for any messages, senders and failing runs: its   *)
(* types, that unconsumed follow-ups resume in order and that none of them *)
(* misses the end of the one before it, that only a run that ends without  *)
(* done() leaves tickets behind, and the refinement of FollowUpQueue.      *)
(***************************************************************************)
EXTENDS FollowUp, TLAPS, FiniteSetTheorems, SequenceTheorems, WellFoundedInduction

-----------------------------------------------------------------------------
(* Least and greatest members, sequences without repetition, flattening *)

\* A set of naturals that is not empty has a least member.
LEMMA Least ==
  ASSUME NEW T \in SUBSET Nat, T # {}
  PROVE  Min(T) \in T /\ \A y \in T : Min(T) <= y
<1>1. PICK x \in T : \A y \in T : ~(<<y, x>> \in OpToRel(<, Nat))
  BY NatLessThanWellFounded, WFMin, Zenon
<1>2. ASSUME NEW y \in T PROVE x <= y
  <2>1. ~(<<y, x>> \in OpToRel(<, Nat))
    BY <1>1
  <2>2. x \in Nat /\ y \in Nat
    OBVIOUS
  <2>3. y < x => <<y, x>> \in OpToRel(<, Nat)
    BY <2>2 DEF OpToRel
  <2>4. ~(y < x)
    BY <2>1, <2>3, Zenon
  <2>5. QED BY <2>2, <2>4
<1>3. QED BY <1>1, <1>2 DEF Min

\* A finite set of naturals that is not empty has a greatest member.
LEMMA Greatest ==
  ASSUME NEW S \in SUBSET Nat, IsFiniteSet(S), S # {}
  PROVE  Max(S) \in S /\ \A y \in S : y <= Max(S)
<1> DEFINE HasMax(A) == \E x \in A : \A y \in A : y <= x
           T == {A \in SUBSET S : A # {} /\ ~HasMax(A)}
<1>1. IsWellFoundedOn(StrictSubsetOrdering(S), SUBSET S)
  BY FS_StrictSubsetOrderingWellFounded, FS_FiniteSubsetsOfFinite, Zenon
<1>2. ASSUME T # {} PROVE FALSE
  <2>1. T \subseteq SUBSET S
    OBVIOUS
  <2> HIDE DEF T
  <2>a. \E A \in T : \A B \in T : ~(<<B, A>> \in StrictSubsetOrdering(S))
    BY <1>1, <1>2, <2>1, WFMin, Zenon
  <2>2. PICK A \in T : \A B \in T : ~(<<B, A>> \in StrictSubsetOrdering(S))
    BY <2>a
  <2> USE DEF T
  <2>3. PICK x \in A : TRUE
    BY <2>2
  <2>4. A \ {x} # {}
    BY <2>2, <2>3
  <2>5. A \ {x} \notin T
    BY <2>2, <2>3 DEF StrictSubsetOrdering
  <2>6. PICK m \in A \ {x} : \A y \in A \ {x} : y <= m
    BY <2>2, <2>4, <2>5
  <2>7. A \subseteq Nat /\ x \in Nat /\ m \in Nat
    BY <2>2, <2>3, <2>6
  <2>8. CASE x <= m
    BY <2>2, <2>6, <2>7, <2>8
  <2>9. CASE m <= x
    BY <2>2, <2>3, <2>6, <2>7, <2>9
  <2>10. QED BY <2>7, <2>8, <2>9
<1>3. HasMax(S)
  BY <1>2
<1>4. QED BY <1>3 DEF Max

Injective(s) == \A i, j \in DOMAIN s : s[i] = s[j] => i = j
In(x, s) == \E i \in DOMAIN s : s[i] = x

LEMMA InConcat ==
  ASSUME NEW S, NEW v \in Seq(S), NEW w \in Seq(S)
  PROVE  /\ v \o w \in Seq(S)
         /\ \A x : In(x, v \o w) <=> In(x, v) \/ In(x, w)
<1>1. /\ v \o w \in Seq(S) /\ DOMAIN (v \o w) = 1 .. Len(v) + Len(w)
      /\ Len(v) \in Nat /\ Len(w) \in Nat /\ DOMAIN v = 1 .. Len(v) /\ DOMAIN w = 1 .. Len(w)
      /\ \A i \in 1 .. Len(v) + Len(w) : (v \o w)[i] = IF i <= Len(v) THEN v[i] ELSE w[i - Len(v)]
  BY ConcatProperties, LenProperties
<1>2. ASSUME NEW x, In(x, v \o w) PROVE In(x, v) \/ In(x, w)
  <2>1. PICK i \in 1 .. Len(v) + Len(w) : (v \o w)[i] = x
    BY <1>1, <1>2 DEF In
  <2>2. CASE i <= Len(v)
    BY <1>1, <2>1, <2>2 DEF In
  <2>3. CASE i > Len(v)
    <3>1. i - Len(v) \in DOMAIN w /\ w[i - Len(v)] = x
      BY <1>1, <2>1, <2>3
    <3>2. QED BY <3>1 DEF In
  <2>4. QED BY <1>1, <2>1, <2>2, <2>3
<1>3. ASSUME NEW x, In(x, v) PROVE In(x, v \o w)
  <2>1. PICK i \in 1 .. Len(v) : v[i] = x
    BY <1>1, <1>3 DEF In
  <2>2. i \in DOMAIN (v \o w) /\ (v \o w)[i] = x
    BY <1>1, <2>1
  <2>3. QED BY <2>2 DEF In
<1>4. ASSUME NEW x, In(x, w) PROVE In(x, v \o w)
  <2>1. PICK i \in 1 .. Len(w) : w[i] = x
    BY <1>1, <1>4 DEF In
  <2>2. i + Len(v) \in DOMAIN (v \o w) /\ (v \o w)[i + Len(v)] = x
    BY <1>1, <2>1
  <2>3. QED BY <2>2 DEF In
<1>5. QED BY <1>1, <1>2, <1>3, <1>4

LEMMA InjectiveConcat ==
  ASSUME NEW S, NEW v \in Seq(S), NEW w \in Seq(S), Injective(v), Injective(w),
         \A x : ~(In(x, v) /\ In(x, w))
  PROVE  Injective(v \o w)
<1>1. /\ DOMAIN (v \o w) = 1 .. Len(v) + Len(w)
      /\ Len(v) \in Nat /\ Len(w) \in Nat /\ DOMAIN v = 1 .. Len(v) /\ DOMAIN w = 1 .. Len(w)
      /\ \A i \in 1 .. Len(v) + Len(w) : (v \o w)[i] = IF i <= Len(v) THEN v[i] ELSE w[i - Len(v)]
  BY ConcatProperties, LenProperties
<1>2. SUFFICES ASSUME NEW i \in 1 .. Len(v) + Len(w), NEW j \in 1 .. Len(v) + Len(w),
                      (v \o w)[i] = (v \o w)[j]
               PROVE  i = j
  BY <1>1 DEF Injective
<1>3. CASE i <= Len(v) /\ j <= Len(v)
  BY <1>1, <1>2, <1>3 DEF Injective
<1>4. CASE i > Len(v) /\ j > Len(v)
  <2>1. i - Len(v) \in DOMAIN w /\ j - Len(v) \in DOMAIN w /\ w[i - Len(v)] = w[j - Len(v)]
    BY <1>1, <1>2, <1>4
  <2>2. i - Len(v) = j - Len(v)
    BY <2>1 DEF Injective
  <2>3. QED BY <1>1, <2>2
<1>5. ASSUME NEW k \in 1 .. Len(v) + Len(w), NEW l \in 1 .. Len(v) + Len(w),
             k <= Len(v), l > Len(v), (v \o w)[k] = (v \o w)[l]
      PROVE  FALSE
  <2>1. k \in DOMAIN v /\ l - Len(v) \in DOMAIN w /\ v[k] = w[l - Len(v)]
    BY <1>1, <1>5
  <2>2. In(v[k], v) /\ In(v[k], w)
    BY <2>1 DEF In
  <2>3. QED BY <2>2
<1>6. CASE i <= Len(v) /\ j > Len(v)
  BY <1>2, <1>5, <1>6
<1>7. CASE j <= Len(v) /\ i > Len(v)
  BY <1>2, <1>5, <1>7
<1>8. QED BY <1>1, <1>3, <1>4, <1>6, <1>7

LEMMA InTail ==
  ASSUME NEW S, NEW s \in Seq(S), s # <<>>, Injective(s)
  PROVE  /\ Tail(s) \in Seq(S) /\ Injective(Tail(s)) /\ In(Head(s), s)
         /\ \A x : In(x, Tail(s)) <=> In(x, s) /\ x # Head(s)
<1>1. /\ Tail(s) \in Seq(S) /\ Len(s) \in Nat \ {0} /\ DOMAIN s = 1 .. Len(s)
      /\ DOMAIN Tail(s) = 1 .. Len(s) - 1 /\ Head(s) = s[1]
      /\ \A i \in 1 .. Len(s) - 1 : Tail(s)[i] = s[i + 1]
  BY HeadTailProperties, LenProperties, EmptySeq
<1>2. Injective(Tail(s))
  BY <1>1 DEF Injective
<1>3. In(Head(s), s)
  BY <1>1 DEF In
<1>4. ASSUME NEW x, In(x, Tail(s)) PROVE In(x, s) /\ x # Head(s)
  <2>1. PICK i \in 1 .. Len(s) - 1 : s[i + 1] = x
    BY <1>1, <1>4 DEF In
  <2>2. i + 1 \in DOMAIN s /\ i + 1 # 1
    BY <1>1, <2>1
  <2>3. QED BY <1>1, <2>1, <2>2 DEF In, Injective
<1>5. ASSUME NEW x, In(x, s), x # Head(s) PROVE In(x, Tail(s))
  <2>1. PICK i \in 1 .. Len(s) : s[i] = x
    BY <1>1, <1>5 DEF In
  <2>2. i - 1 \in 1 .. Len(s) - 1 /\ Tail(s)[i - 1] = x
    BY <1>1, <1>5, <2>1
  <2>3. QED BY <1>1, <2>2 DEF In
<1>6. QED BY <1>1, <1>2, <1>3, <1>4, <1>5

\* What FlattenSeq concatenates: the recursive function it is made of exists.
FlatUpTo(ss, n, f) == f = [i \in 1 .. n |-> IF i = 1 THEN ss[i] ELSE f[i - 1] \o ss[i]]

LEMMA FlatExists ==
  ASSUME NEW ss, NEW n \in Nat
  PROVE  \E f : FlatUpTo(ss, n, f)
<1> DEFINE T == {k \in Nat : ~\E f : FlatUpTo(ss, k, f)}
<1>1. ASSUME T # {} PROVE FALSE
  <2>1. Min(T) \in T /\ \A y \in T : Min(T) <= y
    BY <1>1, Least
  <2>2. FlatUpTo(ss, 0, [i \in 1 .. 0 |-> ss[i]])
    BY DEF FlatUpTo
  <2>3. Min(T) # 0
    BY <2>1, <2>2
  <2>4. Min(T) - 1 \in Nat /\ Min(T) - 1 \notin T
    BY <2>1, <2>3
  <2>5. PICK f : FlatUpTo(ss, Min(T) - 1, f)
    BY <2>4
  <2> DEFINE m == Min(T)
             g == [i \in 1 .. m |-> IF i = 1 THEN ss[i] ELSE f[i - 1] \o ss[i]]
  <2>6. m \in Nat \ {0}
    BY <2>1, <2>3
  <2> HIDE DEF m
  <2>7. \A i \in 1 .. m - 1 : f[i] = IF i = 1 THEN ss[i] ELSE f[i - 1] \o ss[i]
    BY <2>5 DEF FlatUpTo, m
  <2>8. \A i \in 1 .. m - 1 : g[i] = f[i]
    <3>1. \A i \in 1 .. m - 1 : i \in 1 .. m
      BY <2>6
    <3>2. QED BY <2>7, <3>1, Zenon
  <2>9. \A i \in 1 .. m : i # 1 => g[i - 1] = f[i - 1]
    <3>1. \A i \in 1 .. m : i # 1 => i - 1 \in 1 .. m - 1
      BY <2>6
    <3>2. QED BY <2>8, <3>1, Zenon
  <2>10. g = [i \in 1 .. m |-> IF i = 1 THEN ss[i] ELSE g[i - 1] \o ss[i]]
    BY <2>9
  <2>11. FlatUpTo(ss, m, g)
    BY <2>10 DEF FlatUpTo
  <2>12. QED BY <2>1, <2>11 DEF m
<1>2. QED BY <1>1

LEMMA FlattenIs ==
  ASSUME NEW ss, Len(ss) \in Nat, Len(ss) # 0
  PROVE  \E f : FlatUpTo(ss, Len(ss), f) /\ FlattenSeq(ss) = f[Len(ss)]
<1> DEFINE g == CHOOSE f : FlatUpTo(ss, Len(ss), f)
<1>1. FlattenSeq(ss) = g[Len(ss)]
  BY DEF FlattenSeq, FlatUpTo
<1>2. FlatUpTo(ss, Len(ss), g)
  BY FlatExists
<1>3. QED BY <1>1, <1>2

\* Flattened, sequences without repetition that share nothing have none either.
LEMMA Flattened ==
  ASSUME NEW S, NEW ss \in Seq(Seq(S)),
         \A i \in 1 .. Len(ss) : Injective(ss[i]),
         \A i, j \in 1 .. Len(ss) : \A x : In(x, ss[i]) /\ In(x, ss[j]) => i = j
  PROVE  /\ FlattenSeq(ss) \in Seq(S) /\ Injective(FlattenSeq(ss))
         /\ \A x : In(x, FlattenSeq(ss)) <=> \E i \in 1 .. Len(ss) : In(x, ss[i])
<1>1. Len(ss) \in Nat /\ DOMAIN ss = 1 .. Len(ss) /\ \A i \in 1 .. Len(ss) : ss[i] \in Seq(S)
  BY LenProperties, ElementOfSeq
<1>2. CASE Len(ss) = 0
  <2>1. FlattenSeq(ss) = ss /\ ss = <<>>
    BY <1>2, EmptySeq DEF FlattenSeq
  <2>2. DOMAIN ss = {} /\ ss \in Seq(S)
    BY <1>1, <1>2, <2>1, EmptySeq
  <2>3. QED BY <1>2, <2>1, <2>2 DEF In, Injective
<1>3. CASE Len(ss) # 0
  <2>1. PICK f : FlatUpTo(ss, Len(ss), f) /\ FlattenSeq(ss) = f[Len(ss)]
    BY <1>1, <1>3, FlattenIs
  <2>2. \A i \in 1 .. Len(ss) : f[i] = IF i = 1 THEN ss[i] ELSE f[i - 1] \o ss[i]
    BY <2>1, Zenon DEF FlatUpTo
  <2> DEFINE P(k) == /\ f[k] \in Seq(S) /\ Injective(f[k])
                     /\ \A x : In(x, f[k]) <=> \E i \in 1 .. k : In(x, ss[i])
             T == {k \in 1 .. Len(ss) : ~P(k)}
  <2>3. ASSUME T # {} PROVE FALSE
    <3> DEFINE m == Min(T)
    <3>1. m \in T /\ \A y \in T : m <= y
      <4>1. T \subseteq Nat
        BY <1>1
      <4>2. QED BY <2>3, <4>1, Least
    <3> HIDE DEF m
    <3>2. m \in 1 .. Len(ss) /\ ~P(m)
      BY <3>1
    <3>3. CASE m = 1
      <4>1. f[1] = ss[1]
        BY <2>2, <3>2, <3>3
      <4>2. ss[1] \in Seq(S) /\ Injective(ss[1])
        BY <1>1, <3>2, <3>3
      <4>3. \A x : In(x, ss[1]) <=> \E i \in 1 .. 1 : In(x, ss[i])
        OBVIOUS
      <4>4. QED BY <3>2, <3>3, <4>1, <4>2, <4>3
    <3>4. CASE m # 1
      <4>0. m - 1 \in 1 .. Len(ss)
        BY <1>1, <3>2, <3>4
      <4>1. m - 1 \in 1 .. Len(ss) /\ m - 1 \notin T
        <5> HIDE DEF T
        <5>1. ~(m <= m - 1)
          BY <1>1, <3>2
        <5>2. QED BY <3>1, <4>0, <5>1
      <4>2. P(m - 1)
        BY <4>1
      <4>3. f[m] = f[m - 1] \o ss[m] /\ ss[m] \in Seq(S) /\ Injective(ss[m])
        BY <1>1, <2>2, <3>2, <3>4
      <4>4. \A x : ~(In(x, f[m - 1]) /\ In(x, ss[m]))
        <5>1. \A i \in 1 .. m - 1 : i \in 1 .. Len(ss) /\ i # m
          BY <1>1, <3>2
        <5>2. QED BY <3>2, <4>2, <5>1
      <4>5. f[m] \in Seq(S) /\ \A x : In(x, f[m]) <=> In(x, f[m - 1]) \/ In(x, ss[m])
        <5> f[m - 1] \in Seq(S) /\ ss[m] \in Seq(S)
          BY <4>2, <4>3
        <5>1. /\ f[m - 1] \o ss[m] \in Seq(S)
              /\ \A x : In(x, f[m - 1] \o ss[m]) <=> In(x, f[m - 1]) \/ In(x, ss[m])
          BY InConcat
        <5>2. QED BY <4>3, <5>1
      <4>6. Injective(f[m])
        <5> f[m - 1] \in Seq(S) /\ ss[m] \in Seq(S) /\ Injective(f[m - 1]) /\ Injective(ss[m])
          BY <4>2, <4>3
        <5>1. Injective(f[m - 1] \o ss[m])
          BY <4>4, InjectiveConcat
        <5>2. QED BY <4>3, <5>1
      <4>7. \A x : In(x, f[m]) <=> \E i \in 1 .. m : In(x, ss[i])
        <5>1. \A i : i \in 1 .. m <=> i \in 1 .. m - 1 \/ i = m
          BY <1>1, <3>2
        <5>2. QED BY <4>2, <4>5, <5>1
      <4>8. QED BY <3>2, <4>5, <4>6, <4>7
    <3>5. QED BY <3>3, <3>4
  <2>4. Len(ss) \in 1 .. Len(ss)
    BY <1>1, <1>3
  <2>5. P(Len(ss))
    BY <2>3, <2>4
  <2>6. QED BY <2>1, <2>5
<1>4. QED BY <1>2, <1>3

-----------------------------------------------------------------------------
(* The ready queue *)

LEMMA TaskNames ==
  /\ \A e, f \in Event : (Main(e) = Main(f) <=> e = f) /\ (Mon(e) = Mon(f) <=> e = f)
  /\ \A e, f : Main(e) # Mon(f)
  /\ \A e \in Event : Main(e) \in Task /\ Mon(e) \in Task
BY DEF Main, Mon, Task

\* A sequence of tasks that are not ready yet, each once.
Fresh(w) == w \in Seq(Task) /\ Injective(w) /\ \A x : In(x, w) => ~InReady(x)

Before(a, b) == \E i \in DOMAIN ready : ready[i] = a /\ \A j \in DOMAIN ready : ready[j] = b => i < j

LEMMA ScheduleReady ==
  ASSUME ready \in Seq(Task), Injective(ready), ready # <<>>, NEW w, Fresh(w), Schedule(w)
  PROVE  /\ ready' \in Seq(Task) /\ Injective(ready)'
         /\ \A x : InReady(x)' <=> (InReady(x) /\ x # Head(ready)) \/ In(x, w)
<1>1. /\ Tail(ready) \in Seq(Task) /\ Injective(Tail(ready))
      /\ \A x : In(x, Tail(ready)) <=> In(x, ready) /\ x # Head(ready)
  BY InTail
<1>2. \A x : InReady(x) <=> In(x, ready)
  BY DEF InReady, In
<1>3. ready' = Tail(ready) \o w /\ w \in Seq(Task) /\ Injective(w)
  BY DEF Schedule, Fresh
<1>4. ready' \in Seq(Task) /\ \A x : In(x, ready') <=> In(x, Tail(ready)) \/ In(x, w)
  BY <1>1, <1>3, InConcat, Zenon
<1>5. Injective(ready')
  <2>1. \A x : ~(In(x, Tail(ready)) /\ In(x, w))
    BY <1>1, <1>2 DEF Fresh
  <2>2. QED BY <1>1, <1>3, <2>1, InjectiveConcat, Zenon
<1>6. \A x : InReady(x)' <=> In(x, ready')
  BY DEF InReady, In
<1>7. QED BY <1>1, <1>2, <1>4, <1>5, <1>6 DEF Injective

\* Who was before another in the queue is, until it runs.
LEMMA ScheduleBefore ==
  ASSUME ready \in Seq(Task), ready # <<>>, NEW w \in Seq(Task), Schedule(w), NEW a, NEW b,
         Before(a, b), Head(ready) # a
  PROVE  Before(a, b)'
<1>1. /\ Tail(ready) \in Seq(Task) /\ Len(ready) \in Nat \ {0} /\ DOMAIN ready = 1 .. Len(ready)
      /\ Len(Tail(ready)) = Len(ready) - 1 /\ Head(ready) = ready[1]
      /\ \A i \in 1 .. Len(ready) - 1 : Tail(ready)[i] = ready[i + 1]
  BY HeadTailProperties, LenProperties, EmptySeq
<1>2. /\ DOMAIN ready' = 1 .. Len(ready) - 1 + Len(w) /\ Len(w) \in Nat
      /\ \A i \in 1 .. Len(ready) - 1 + Len(w) :
           ready'[i] = IF i <= Len(ready) - 1 THEN ready[i + 1] ELSE w[i - (Len(ready) - 1)]
  BY <1>1, ConcatProperties, LenProperties DEF Schedule
<1>3. PICK i \in 1 .. Len(ready) : ready[i] = a /\ \A j \in 1 .. Len(ready) : ready[j] = b => i < j
  BY <1>1 DEF Before
<1>4. i # 1
  BY <1>1, <1>3
<1>5. i - 1 \in DOMAIN ready' /\ ready'[i - 1] = a
  BY <1>1, <1>2, <1>3, <1>4
<1>6. ASSUME NEW j \in DOMAIN ready', ready'[j] = b PROVE i - 1 < j
  <2>1. CASE j <= Len(ready) - 1
    <3>1. j + 1 \in 1 .. Len(ready) /\ ready[j + 1] = b
      BY <1>1, <1>2, <1>6, <2>1
    <3>2. QED BY <1>2, <1>3, <3>1
  <2>2. CASE j > Len(ready) - 1
    BY <1>1, <1>2, <1>3, <1>6, <2>2
  <2>3. QED BY <1>1, <1>2, <1>6, <2>1, <2>2
<1>7. QED BY <1>5, <1>6 DEF Before

\* The task at the head is before no other but itself, and after none.
LEMMA NotBeforeHead ==
  ASSUME ready \in Seq(Task), ready # <<>>, NEW a, Before(a, Head(ready))
  PROVE  FALSE
<1>1. Len(ready) \in Nat \ {0} /\ DOMAIN ready = 1 .. Len(ready) /\ Head(ready) = ready[1]
  BY HeadTailProperties, LenProperties, EmptySeq
<1>2. PICK i \in 1 .. Len(ready) : \A j \in 1 .. Len(ready) : ready[j] = ready[1] => i < j
  BY <1>1 DEF Before
<1>3. QED BY <1>1, <1>2

\* I/O that ends appends a task.
LEMMA AppendReady ==
  ASSUME ready \in Seq(Task), Injective(ready), NEW t \in Task, ~InReady(t), ready' = Append(ready, t)
  PROVE  /\ ready' \in Seq(Task) /\ Injective(ready)'
         /\ \A x : InReady(x)' <=> InReady(x) \/ x = t
         /\ \A a, b : Before(a, b) => Before(a, b)'
<1>1. /\ ready' \in Seq(Task) /\ Len(ready) \in Nat /\ DOMAIN ready = 1 .. Len(ready)
      /\ DOMAIN ready' = 1 .. Len(ready) + 1
      /\ \A i \in 1 .. Len(ready) + 1 : ready'[i] = IF i = Len(ready) + 1 THEN t ELSE ready[i]
  BY LenProperties
<1>2. Injective(ready)'
  BY <1>1 DEF Injective, InReady
<1>3. ASSUME NEW x PROVE InReady(x)' <=> InReady(x) \/ x = t
  <2>1. InReady(x)' <=> \E i \in 1 .. Len(ready) + 1 : ready'[i] = x
    BY <1>1 DEF InReady
  <2>2. InReady(x) <=> \E i \in 1 .. Len(ready) : ready[i] = x
    BY <1>1 DEF InReady
  <2>3. QED BY <1>1, <2>1, <2>2
<1>4. ASSUME NEW a, NEW b, Before(a, b) PROVE Before(a, b)'
  <2>1. PICK i \in 1 .. Len(ready) : ready[i] = a /\ \A j \in 1 .. Len(ready) : ready[j] = b => i < j
    BY <1>1, <1>4 DEF Before
  <2>2. i \in DOMAIN ready' /\ ready'[i] = a
    BY <1>1, <2>1
  <2>3. \A j \in DOMAIN ready' : ready'[j] = b => i < j
    BY <1>1, <2>1
  <2>4. QED BY <2>2, <2>3 DEF Before
<1>5. QED BY <1>1, <1>2, <1>3, <1>4

\* What an event that resolves its tickets wakes: each capture in the list once,
\* and its monitor if that waits.
LEMMA WakesOf ==
  ASSUME NEW q \in Seq(Event), Injective(q)
  PROVE  /\ ResolveWakes(q) \in Seq(Task) /\ Injective(ResolveWakes(q))
         /\ \A e \in Event : /\ In(Main(e), ResolveWakes(q)) <=> In(e, q)
                             /\ In(Mon(e), ResolveWakes(q)) <=> In(e, q) /\ mon[e] = "wait"
<1> DEFINE wake(e) == IF mon[e] = "wait" THEN <<Main(e), Mon(e)>> ELSE <<Main(e)>>
           ss == [i \in DOMAIN q |-> wake(q[i])]
<1>1. Len(q) \in Nat /\ DOMAIN q = 1 .. Len(q) /\ \A i \in 1 .. Len(q) : q[i] \in Event
  BY LenProperties, ElementOfSeq
<1>2. ASSUME NEW e \in Event
      PROVE  /\ wake(e) \in Seq(Task) /\ Injective(wake(e))
             /\ \A x : In(x, wake(e)) <=> x = Main(e) \/ (x = Mon(e) /\ mon[e] = "wait")
  <2>1. Main(e) \in Task /\ Mon(e) \in Task /\ Main(e) # Mon(e)
    BY TaskNames
  <2> HIDE DEF Main, Mon, Task
  <2>2. CASE mon[e] = "wait"
    <3>1. /\ wake(e) = <<Main(e), Mon(e)>> /\ DOMAIN wake(e) = {1, 2}
          /\ wake(e)[1] = Main(e) /\ wake(e)[2] = Mon(e)
      BY <2>2
    <3>2. wake(e) \in Seq(Task)
      BY <2>1, <3>1
    <3> HIDE DEF wake
    <3>3. QED BY <2>1, <2>2, <3>1, <3>2 DEF In, Injective
  <2>3. CASE mon[e] # "wait"
    <3>1. wake(e) = <<Main(e)>> /\ DOMAIN wake(e) = {1} /\ wake(e)[1] = Main(e)
      BY <2>3
    <3>2. wake(e) \in Seq(Task)
      BY <2>1, <3>1
    <3> HIDE DEF wake
    <3>3. QED BY <2>1, <2>3, <3>1, <3>2 DEF In, Injective
  <2>4. QED BY <2>2, <2>3
<1> HIDE DEF wake
<1>3. ss \in Seq(Seq(Task)) /\ Len(ss) = Len(q) /\ \A i \in 1 .. Len(q) : ss[i] = wake(q[i])
  BY <1>1, <1>2
<1>4. \A i \in 1 .. Len(ss) : Injective(ss[i])
  BY <1>1, <1>2, <1>3
<1>5. \A i, j \in 1 .. Len(ss) : \A x : In(x, ss[i]) /\ In(x, ss[j]) => i = j
  <2> SUFFICES ASSUME NEW i \in 1 .. Len(ss), NEW j \in 1 .. Len(ss), NEW x,
                      In(x, wake(q[i])), In(x, wake(q[j]))
               PROVE  i = j
    BY <1>3
  <2>1. q[i] \in Event /\ q[j] \in Event
    BY <1>1, <1>3
  <2>2. q[i] = q[j]
    BY <1>2, <2>1, TaskNames
  <2>3. QED BY <1>1, <1>3, <2>2 DEF Injective
<1>6. ResolveWakes(q) = FlattenSeq(ss)
  BY DEF ResolveWakes, wake
<1> HIDE DEF ss
<1>7. /\ FlattenSeq(ss) \in Seq(Task) /\ Injective(FlattenSeq(ss))
      /\ \A x : In(x, FlattenSeq(ss)) <=> \E i \in 1 .. Len(ss) : In(x, ss[i])
  BY <1>3, <1>4, <1>5, Flattened
<1>8. ASSUME NEW e \in Event
      PROVE  /\ In(Main(e), ResolveWakes(q)) <=> In(e, q)
             /\ In(Mon(e), ResolveWakes(q)) <=> In(e, q) /\ mon[e] = "wait"
  <2>1. In(e, q) <=> \E i \in 1 .. Len(q) : q[i] = e
    BY <1>1 DEF In
  <2>2. \A i \in 1 .. Len(q) : /\ In(Main(e), ss[i]) <=> q[i] = e
                               /\ In(Mon(e), ss[i]) <=> q[i] = e /\ mon[e] = "wait"
    BY <1>1, <1>2, <1>3, TaskNames
  <2>3. QED BY <1>3, <1>6, <1>7, <2>1, <2>2
<1>9. QED BY <1>6, <1>7, <1>8

LEMMA MainTasksOf ==
  ASSUME NEW q \in Seq(Event), Injective(q)
  PROVE  /\ MainTasks(q) \in Seq(Task) /\ Injective(MainTasks(q))
         /\ \A e \in Event : In(Main(e), MainTasks(q)) <=> In(e, q)
         /\ \A e \in Event : ~In(Mon(e), MainTasks(q))
<1>1. Len(q) \in Nat /\ DOMAIN q = 1 .. Len(q) /\ \A i \in 1 .. Len(q) : q[i] \in Event
  BY LenProperties, ElementOfSeq
<1>2. /\ DOMAIN MainTasks(q) = 1 .. Len(q)
      /\ \A i \in 1 .. Len(q) : MainTasks(q)[i] = Main(q[i]) /\ Main(q[i]) \in Task
  BY <1>1, TaskNames DEF MainTasks
<1>3. MainTasks(q) \in Seq(Task)
  BY <1>1, <1>2, TaskNames DEF MainTasks
<1> HIDE DEF MainTasks, Main, Mon, Task
<1>4. Injective(MainTasks(q))
  <2> SUFFICES ASSUME NEW i \in 1 .. Len(q), NEW j \in 1 .. Len(q), Main(q[i]) = Main(q[j]) PROVE i = j
    BY <1>2 DEF Injective
  <2>1. q[i] = q[j]
    BY <1>1, TaskNames
  <2>2. QED BY <1>1, <2>1 DEF Injective
<1>5. ASSUME NEW e \in Event
      PROVE  (In(Main(e), MainTasks(q)) <=> In(e, q)) /\ ~In(Mon(e), MainTasks(q))
  <2>1. \A i \in 1 .. Len(q) : (Main(q[i]) = Main(e) <=> q[i] = e) /\ Main(q[i]) # Mon(e)
    BY <1>1, TaskNames
  <2>2. QED BY <1>1, <1>2, <2>1 DEF In
<1>6. QED BY <1>3, <1>4, <1>5

-----------------------------------------------------------------------------
(* The inductive invariant: tasks, the lock and the ready queue *)

InLock == {"build", "run", "closing", "save"}

\* Where the task of an event stands agrees with its capture and its monitor.
Local(e) ==
  /\ mon[e] = "none" <=> ~Captured(e)
  /\ ticket[e] = "none" <=> ~Captured(e)
  /\ path[e] = "captured" <=> pc[e] = "resolve"
  /\ path[e] = "consumed" => ticket[e] = "consumed" /\ pc[e] \in {"join", "done"}
                             /\ mon[e] \in {"cancelled", "done"}
  /\ path[e] = "activated" => ticket[e] = "unconsumed" /\ pc[e] # "new"
  /\ pc[e] = "turn" => path[e] = "activated"
  /\ pc[e] = "join" => Captured(e) /\ mon[e] \in {"cancelled", "done"}
  /\ ticket[e] = "open" => pc[e] = "resolve"
  /\ mon[e] = "cancelled" => pc[e] = "join"

\* The session lock, and the runner of the event that has built its agent.
LockOK ==
  /\ \A e \in Event : pc[e] \in InLock <=> holder = e
  /\ \A e \in Event : pc[e] \in {"run", "closing", "save"} <=> runner = e
  /\ Injective(lockq) /\ \A e \in Event : In(e, lockq) => pc[e] = "lock"

\* A task that was suspended is ready only when what it waits for has come about.
Waking(e) ==
  /\ pc[e] # "done"
  /\ pc[e] = "resolve" => ticket[e] # "open"
  /\ pc[e] = "turn" => ~In(e, cwait)
  /\ pc[e] = "lock" => holder = None /\ lockq # <<>> /\ Head(lockq) = e
  /\ pc[e] = "join" => mon[e] = "done"

ReadyOK ==
  /\ Injective(ready)
  /\ \A e \in Event : InReady(Main(e)) => Waking(e)
  /\ \A e \in Event : InReady(Mon(e)) => mon[e] \in {"start", "woken", "cancelled"}

CwaitOK == Injective(cwait) /\ \A e \in Event : In(e, cwait) => pc[e] = "turn"

PendingOK ==
  \A r \in Event :
    /\ Injective(pending[r])
    /\ \A f \in Event : In(f, pending[r]) => ticket[f] = "open"
    /\ \A f, q \in Event : In(f, pending[r]) /\ In(f, pending[q]) => r = q

Types ==
  /\ ready \in Seq(Task)
  /\ pc \in [Event -> IO \cup Blocked \cup {"done"}]
  /\ mon \in [Event -> {"none", "start", "wait", "woken", "cancelled", "done"}]
  /\ path \in [Event -> {"none", "captured", "consumed", "activated"}]
  /\ holder \in Event \cup {None} /\ lockq \in Seq(Event) /\ runner \in Event \cup {None}
  /\ phase \in [Event -> {"none", "running", "ended"}] /\ stopped \in [Event -> BOOLEAN]
  /\ pending \in [Event -> Seq(Event)]
  /\ ticket \in [Event -> {"none", "open", "consumed", "unconsumed"}]
  /\ cwait \in Seq(Event) /\ slot \in [Event -> [gen : Nat, seq : Nat]]

TaskInv == /\ Types /\ LockOK /\ ReadyOK /\ CwaitOK /\ PendingOK
           /\ \A e \in Event : Local(e)

-----------------------------------------------------------------------------
(* How a step moves a task, the lock and the ready queue *)

LEMMA InAppend ==
  ASSUME NEW S, NEW s \in Seq(S), NEW y \in S
  PROVE  /\ Append(s, y) \in Seq(S)
         /\ \A x : In(x, Append(s, y)) <=> In(x, s) \/ x = y
         /\ Injective(s) /\ ~In(y, s) => Injective(Append(s, y))
         /\ s # <<>> => Append(s, y) # <<>> /\ Head(Append(s, y)) = Head(s)
<1>1. /\ Append(s, y) \in Seq(S) /\ Len(s) \in Nat /\ DOMAIN s = 1 .. Len(s)
      /\ Len(Append(s, y)) = Len(s) + 1 /\ DOMAIN Append(s, y) = 1 .. Len(s) + 1
      /\ \A i \in 1 .. Len(s) + 1 : Append(s, y)[i] = IF i = Len(s) + 1 THEN y ELSE s[i]
  BY LenProperties
<1>2. ASSUME NEW x PROVE In(x, Append(s, y)) <=> In(x, s) \/ x = y
  BY <1>1 DEF In
<1>3. Injective(s) /\ ~In(y, s) => Injective(Append(s, y))
  BY <1>1 DEF In, Injective
<1>4. s # <<>> => Append(s, y) # <<>> /\ Head(Append(s, y)) = Head(s)
  <2>1. s # <<>> => Len(s) > 0 /\ Head(s) = s[1]
    BY <1>1, EmptySeq
  <2>2. Append(s, y) # <<>> /\ Head(Append(s, y)) = Append(s, y)[1]
    BY <1>1, EmptySeq
  <2>3. QED BY <1>1, <2>1, <2>2
<1>5. QED BY <1>1, <1>2, <1>3, <1>4

\* Where a task stands with respect to the lock.
Class(l) == IF l \in {"run", "closing", "save"} THEN "runs"
            ELSE IF l = "build" THEN "builds" ELSE IF l = "lock" THEN "waits" ELSE "out"

LEMMA LockStays ==
  ASSUME Types, LockOK, UNCHANGED <<holder, lockq, runner>>,
         \A f \in Event : Class(pc'[f]) = Class(pc[f])
  PROVE  LockOK'
<1>1. \A f \in Event : /\ pc'[f] \in InLock <=> pc[f] \in InLock
                       /\ pc'[f] \in {"run", "closing", "save"} <=> pc[f] \in {"run", "closing", "save"}
                       /\ pc'[f] = "lock" <=> pc[f] = "lock"
  BY DEF Class, InLock
<1>2. QED BY <1>1 DEF LockOK

LEMMA LockEnters ==
  ASSUME Types, LockOK, NEW e \in Event, Class(pc[e]) = "out", EnterLock(e), runner' = runner
  PROVE  LockOK'
<1>1. pc[e] \notin InLock /\ pc[e] # "lock" /\ ~In(e, lockq)
  BY DEF Class, InLock, LockOK
<1>2. CASE holder = None /\ lockq = <<>>
  <2>1. holder' = e /\ pc' = [pc EXCEPT ![e] = "build"] /\ lockq' = lockq
    BY <1>2 DEF EnterLock
  <2>2. \A f \in Event \ {e} : pc'[f] = pc[f] /\ pc[f] \notin InLock
    BY <1>2, <2>1, EventAssumption DEF LockOK, Types
  <2>3. pc'[e] = "build"
    BY <2>1 DEF Types
  <2>4. QED BY <1>1, <2>1, <2>2, <2>3 DEF LockOK, InLock
<1>3. CASE ~(holder = None /\ lockq = <<>>)
  <2>1. lockq' = Append(lockq, e) /\ pc' = [pc EXCEPT ![e] = "lock"] /\ holder' = holder
    BY <1>3 DEF EnterLock
  <2>2. (\A x : In(x, lockq') <=> In(x, lockq) \/ x = e) /\ Injective(lockq')
    BY <1>1, <2>1, InAppend DEF Types, LockOK
  <2>3. pc'[e] = "lock" /\ \A f \in Event \ {e} : pc'[f] = pc[f]
    BY <2>1 DEF Types
  <2>4. QED BY <1>1, <2>1, <2>2, <2>3 DEF LockOK, InLock
<1>4. QED BY <1>2, <1>3

LEMMA LockReleased ==
  ASSUME Types, LockOK, NEW e \in Event, pc[e] \in InLock, NEW x, pc' = [pc EXCEPT ![e] = x],
         Class(x) = "out", holder' = None, lockq' = lockq,
         runner' = IF pc[e] \in {"run", "closing", "save"} THEN None ELSE runner
  PROVE  LockOK'
<1>1. holder = e /\ ~In(e, lockq) /\ (runner = e <=> pc[e] \in {"run", "closing", "save"})
  BY DEF LockOK, InLock
<1>2. pc'[e] = x /\ \A f \in Event \ {e} : pc'[f] = pc[f]
  BY DEF Types
<1>3. x \notin InLock /\ x # "lock" /\ x \notin {"run", "closing", "save"}
  BY DEF Class, InLock
<1>4. \A f \in Event : pc'[f] \in InLock <=> holder' = f
  BY <1>1, <1>2, <1>3, EventAssumption DEF LockOK
<1>5. \A f \in Event : pc'[f] \in {"run", "closing", "save"} <=> runner' = f
  BY <1>1, <1>2, <1>3, EventAssumption DEF LockOK, InLock
<1>6. QED BY <1>1, <1>2, <1>4, <1>5 DEF LockOK

\* The ready queue after a step of the task at its head that schedules w.
LEMMA ReadySteps ==
  ASSUME Types, ReadyOK, NEW t, Runs(t), NEW w, Fresh(w), Schedule(w),
         \A f \in Event : InReady(Main(f)) /\ Main(f) # t /\ Waking(f) => Waking(f)',
         \A f \in Event : In(Main(f), w) => Waking(f)',
         \A f \in Event : InReady(Mon(f)) /\ Mon(f) # t => mon'[f] \in {"start", "woken", "cancelled"},
         \A f \in Event : In(Mon(f), w) => mon'[f] \in {"start", "woken", "cancelled"}
  PROVE  ReadyOK' /\ ready' \in Seq(Task)
<1>1. /\ ready' \in Seq(Task) /\ Injective(ready)'
      /\ \A x : InReady(x)' <=> (InReady(x) /\ x # t) \/ In(x, w)
  BY ScheduleReady DEF Types, ReadyOK, Runs
<1>2. QED BY <1>1 DEF ReadyOK

\* A task that waits elsewhere stays woken when nobody is granted the lock.
LEMMA WakingStays ==
  ASSUME Types, NEW f \in Event, Waking(f), pc'[f] = pc[f], ticket'[f] = ticket[f],
         pc[f] = "join" => mon'[f] = mon[f],
         pc[f] = "turn" => (In(f, cwait') => In(f, cwait)),
         pc[f] = "lock" => /\ holder = None => holder' = None
                           /\ lockq' = lockq \/ \E g \in Event : lockq' = Append(lockq, g)
  PROVE  Waking(f)'
<1>1. ASSUME NEW g \in Event, lockq' = Append(lockq, g), lockq # <<>>
      PROVE  lockq' # <<>> /\ Head(lockq') = Head(lockq)
  BY <1>1, InAppend DEF Types
<1>2. pc[f] = "lock" => holder' = None /\ lockq' # <<>> /\ Head(lockq') = f
  BY <1>1 DEF Waking
<1>3. QED BY <1>2 DEF Waking

-----------------------------------------------------------------------------
(* What a step schedules *)

LEMMA IsTask ==
  ASSUME NEW x \in Task
  PROVE  \E f \in Event : x = Main(f) \/ x = Mon(f)
BY DEF Task, Main, Mon

LEMMA FreshIf ==
  ASSUME NEW w \in Seq(Task), Injective(w),
         \A f \in Event : (In(Main(f), w) => ~InReady(Main(f))) /\ (In(Mon(f), w) => ~InReady(Mon(f)))
  PROVE  Fresh(w)
<1>1. ASSUME NEW x, In(x, w) PROVE ~InReady(x)
  <2>1. x \in Task
    BY <1>1, LenProperties, ElementOfSeq DEF In
  <2>2. QED BY <1>1, <2>1, IsTask
<1>2. QED BY <1>1 DEF Fresh

LEMMA FreshEmpty == Fresh(<<>>) /\ \A x : ~In(x, <<>>)
BY EmptySeq DEF Fresh, In, Injective

LEMMA FreshOne ==
  ASSUME NEW t \in Task, ~InReady(t)
  PROVE  Fresh(<<t>>) /\ \A x : In(x, <<t>>) <=> x = t
<1>1. <<t>> \in Seq(Task) /\ DOMAIN <<t>> = {1} /\ <<t>>[1] = t
  OBVIOUS
<1>2. QED BY <1>1 DEF Fresh, In, Injective

LEMMA FreshConcat ==
  ASSUME NEW v, Fresh(v), NEW w, Fresh(w), \A x \in Task : ~(In(x, v) /\ In(x, w))
  PROVE  Fresh(v \o w) /\ \A x : In(x, v \o w) <=> In(x, v) \/ In(x, w)
<1>1. \A x : In(x, v) => x \in Task
  BY LenProperties, ElementOfSeq DEF In, Fresh
<1>2. /\ v \o w \in Seq(Task) /\ Injective(v \o w)
      /\ \A x : In(x, v \o w) <=> In(x, v) \/ In(x, w)
  BY <1>1, InConcat, InjectiveConcat DEF Fresh
<1>3. QED BY <1>2 DEF Fresh

LEMMA NotifiedFresh ==
  ASSUME TaskInv
  PROVE  /\ Fresh(Notified)
         /\ \A f \in Event : /\ In(Main(f), Notified) => In(f, cwait)
                             /\ order # NoOrder /\ In(f, cwait) => In(Main(f), Notified)
                             /\ ~In(Mon(f), Notified)
         /\ order = NoOrder => Notified = <<>>
         /\ order # NoOrder => Notified = MainTasks(cwait)
<1>1. /\ MainTasks(cwait) \in Seq(Task) /\ Injective(MainTasks(cwait))
      /\ \A e \in Event : In(Main(e), MainTasks(cwait)) <=> In(e, cwait)
      /\ \A e \in Event : ~In(Mon(e), MainTasks(cwait))
  BY MainTasksOf DEF TaskInv, Types, CwaitOK
<1>2. \A e \in Event : In(e, cwait) => ~InReady(Main(e))
  BY DEF TaskInv, CwaitOK, ReadyOK, Waking
<1>3. Fresh(MainTasks(cwait))
  BY <1>1, <1>2, FreshIf
<1>4. QED BY <1>1, <1>3, FreshEmpty DEF Notified

LEMMA LockWakesFresh ==
  ASSUME TaskInv, holder # None
  PROVE  /\ Fresh(LockWakes)
         /\ \A f \in Event : /\ In(Main(f), LockWakes) => pc[f] = "lock" /\ lockq # <<>> /\ Head(lockq) = f
                             /\ ~In(Mon(f), LockWakes)
<1>1. CASE lockq = <<>>
  BY <1>1, FreshEmpty DEF LockWakes
<1>2. CASE lockq # <<>>
  <2> DEFINE h == Head(lockq)
  <2>1. h \in Event /\ In(h, lockq)
    BY <1>2, HeadTailProperties, InTail DEF TaskInv, Types, LockOK
  <2>2. pc[h] = "lock" /\ ~InReady(Main(h))
    BY <2>1 DEF TaskInv, LockOK, ReadyOK, Waking
  <2>3. LockWakes = <<Main(h)>> /\ Main(h) \in Task
    BY <1>2, <2>1, TaskNames DEF LockWakes
  <2> HIDE DEF h
  <2>4. Fresh(LockWakes) /\ \A x : In(x, LockWakes) <=> x = Main(h)
    BY <2>2, <2>3, FreshOne
  <2>5. \A f \in Event : (Main(f) = Main(h) => f = h) /\ Mon(f) # Main(h)
    BY <2>1, TaskNames
  <2>6. QED BY <1>2, <2>2, <2>4, <2>5 DEF h
<1>3. QED BY <1>1, <1>2

-----------------------------------------------------------------------------
(* Leaving `process` *)

\* e moves to x, with v woken by the lock and w in all.
Leaving(e, x, v, w) ==
  /\ x \in {"typing", "join", "done"} /\ pc' = [pc EXCEPT ![e] = x]
  /\ mon' = IF x = "join" THEN [mon EXCEPT ![e] = "cancelled"] ELSE mon
  /\ x = "join" => Captured(e)
  /\ x = "done" /\ Captured(e) => mon[e] = "done"
  /\ Schedule(w) /\ Fresh(w)
  /\ \/ UNCHANGED <<order, cwait>>
     \/ cwait' = <<>> /\ \A f \in Event : In(f, cwait) => In(Main(f), w)
  /\ \A f \in Event : In(Main(f), w) => In(Main(f), v) \/ (In(f, cwait) /\ cwait' = <<>>)
  /\ \A f \in Event : In(Mon(f), w) => f = e /\ x = "join"

\* What a release of the lock wakes.
OnlyLock(v) ==
  /\ Fresh(v)
  /\ \A f \in Event : /\ In(Main(f), v) => pc[f] = "lock" /\ lockq # <<>> /\ Head(lockq) = f
                      /\ ~In(Mon(f), v)

LEMMA WithNotified ==
  ASSUME TaskInv, NEW v, OnlyLock(v)
  PROVE  /\ Fresh(v \o Notified)
         /\ \A x : In(x, v \o Notified) <=> In(x, v) \/ In(x, Notified)
<1>1. ASSUME NEW x \in Task, In(x, v), In(x, Notified) PROVE FALSE
  <2>1. PICK f \in Event : x = Main(f) \/ x = Mon(f)
    BY IsTask
  <2>2. pc[f] = "lock" /\ pc[f] = "turn"
    BY <1>1, <2>1, NotifiedFresh DEF OnlyLock, TaskInv, CwaitOK
  <2>3. QED BY <2>2
<1>2. QED BY <1>1, NotifiedFresh, FreshConcat DEF OnlyLock

LEMMA CancelMonitorIs ==
  ASSUME TaskInv, NEW e \in Event, NEW v, CancelMonitor(e, v), Fresh(v), ~In(Mon(e), v)
  PROVE  \E w : /\ Schedule(w) /\ Fresh(w)
                /\ \A x : In(x, v) => In(x, w)
                /\ \A x : In(x, w) => In(x, v) \/ x = Mon(e)
<1>1. CASE mon[e] = "wait"
  <2>1. ~InReady(Mon(e)) /\ Mon(e) \in Task
    BY <1>1, TaskNames DEF TaskInv, ReadyOK
  <2>2. Fresh(<<Mon(e)>>) /\ \A x : In(x, <<Mon(e)>>) <=> x = Mon(e)
    BY <2>1, FreshOne
  <2>3. Fresh(v \o <<Mon(e)>>) /\ \A x : In(x, v \o <<Mon(e)>>) <=> In(x, v) \/ In(x, <<Mon(e)>>)
    BY <2>2, FreshConcat
  <2>4. Schedule(v \o <<Mon(e)>>)
    BY <1>1 DEF CancelMonitor
  <2>5. QED BY <2>2, <2>3, <2>4
<1>2. CASE mon[e] # "wait"
  <2>1. Fresh(v \o <<>>) /\ \A x : In(x, v \o <<>>) <=> In(x, v) \/ In(x, <<>>)
    BY FreshEmpty, FreshConcat
  <2>2. Schedule(v \o <<>>)
    BY <1>2 DEF CancelMonitor
  <2>3. QED BY <2>1, <2>2, FreshEmpty
<1>3. QED BY <1>1, <1>2

LEMMA ConcludeIs ==
  ASSUME TaskInv, NEW e \in Event, NEW r, NEW v, OnlyLock(v), Conclude(e, r, v), UNCHANGED mon,
         Captured(e) => mon[e] = "done"
  PROVE  \E w : Leaving(e, "done", v, w)
<1>1. CASE path[e] \in {"none", "consumed"}
  <2>1. Schedule(v) /\ UNCHANGED <<order, cwait>> /\ pc' = [pc EXCEPT ![e] = "done"]
    BY <1>1 DEF Conclude
  <2>2. Leaving(e, "done", v, v)
    BY <2>1 DEF Leaving, OnlyLock
  <2>3. QED BY <2>2
<1>2. CASE path[e] \notin {"none", "consumed"}
  <2>1. /\ Schedule(v \o Notified) /\ pc' = [pc EXCEPT ![e] = "done"]
        /\ order = NoOrder => UNCHANGED <<order, cwait>>
        /\ order # NoOrder => cwait' = <<>>
    BY <1>2 DEF Conclude, Settle
  <2>2. \A f \in Event : In(Main(f), Notified) => In(f, cwait) /\ cwait' = <<>>
    BY <2>1, NotifiedFresh, FreshEmpty
  <2>3. Leaving(e, "done", v, v \o Notified)
    BY <2>1, <2>2, NotifiedFresh, WithNotified DEF Leaving, OnlyLock
  <2>4. QED BY <2>3
<1>3. QED BY <1>1, <1>2

LEMMA LeaveIs ==
  ASSUME TaskInv, NEW e \in Event, NEW r, NEW v, OnlyLock(v), Finalize(e, r, v) \/ Leave(e, r, v)
  PROVE  \E x, w : Leaving(e, x, v, w)
<1>1. CASE pc' = [pc EXCEPT ![e] = "typing"] /\ Schedule(v) /\ UNCHANGED <<mon, order, cwait>>
  <2>1. Leaving(e, "typing", v, v)
    BY <1>1 DEF Leaving, OnlyLock
  <2>2. QED BY <2>1
<1>2. CASE Captured(e) /\ CancelMonitor(e, v) /\ UNCHANGED <<order, cwait>>
  <2>1. PICK w : Schedule(w) /\ Fresh(w) /\ \A x : In(x, w) => In(x, v) \/ x = Mon(e)
    BY <1>2, CancelMonitorIs DEF OnlyLock
  <2>2. \A f \in Event : Main(f) # Mon(e) /\ (Mon(f) = Mon(e) => f = e)
    BY TaskNames
  <2>3. Leaving(e, "join", v, w)
    BY <1>2, <2>1, <2>2 DEF Leaving, OnlyLock, CancelMonitor
  <2>4. QED BY <2>3
<1>3. CASE (Captured(e) => mon[e] = "done") /\ Conclude(e, r, v) /\ UNCHANGED mon
  BY <1>3, ConcludeIs
<1>4. QED BY <1>1, <1>2, <1>3 DEF Finalize, Leave

-----------------------------------------------------------------------------
(* Each step preserves TaskInv *)

LEMMA LeavingStep ==
  ASSUME TaskInv, NEW e \in Event, Runs(Main(e)), NEW x, NEW v, NEW w, OnlyLock(v), Leaving(e, x, v, w),
         pc[e] \notin {"new", "turn", "lock", "done"}, pc[e] = "join" => x = "done",
         IF pc[e] = "resolve"
         THEN path' = [path EXCEPT ![e] = "consumed"] /\ ticket[e] = "consumed" /\ x # "typing"
         ELSE path' = path,
         UNCHANGED <<lockq, phase, stopped, pending, ticket, slot>>,
         holder' \in Event \cup {None}, runner' \in Event \cup {None}, LockOK',
         holder = None => holder' = None, (\E f \in Event : In(Main(f), v)) => holder' = None
  PROVE  TaskInv'
<1> USE DEF TaskInv
<1>1. /\ pc'[e] = x /\ \A f \in Event \ {e} : pc'[f] = pc[f]
      /\ mon'[e] = IF x = "join" THEN "cancelled" ELSE mon[e]
      /\ \A f \in Event \ {e} : mon'[f] = mon[f] /\ path'[f] = path[f]
      /\ path'[e] = IF pc[e] = "resolve" THEN "consumed" ELSE path[e]
  BY DEF Types, Leaving
<1>2. ASSUME NEW f \in Event PROVE Local(f)'
  <2>1. CASE f # e
    BY <1>1, <2>1 DEF Local, Captured
  <2>2. CASE f = e
    BY <1>1, <2>2 DEF Local, Captured, Leaving
  <2>3. QED BY <2>1, <2>2
<1>3. ReadyOK' /\ ready' \in Seq(Task)
  <2>1. ASSUME NEW f \in Event, Main(f) # Main(e), Waking(f) PROVE Waking(f)'
    <3>1. f # e /\ (In(f, cwait') => In(f, cwait))
      BY <2>1, FreshEmpty DEF Leaving, In
    <3>2. QED BY <1>1, <2>1, <3>1, WakingStays
  <2>2. ASSUME NEW f \in Event, In(Main(f), w) PROVE Waking(f)'
    <3>1. CASE In(Main(f), v)
      <4>1. pc[f] = "lock" /\ lockq # <<>> /\ Head(lockq) = f /\ f # e /\ holder' = None
        BY <3>1 DEF OnlyLock
      <4>2. QED BY <1>1, <4>1 DEF Waking
    <3>2. CASE In(f, cwait) /\ cwait' = <<>>
      <4>1. pc[f] = "turn" /\ f # e /\ ~In(f, cwait')
        BY <3>2, FreshEmpty DEF CwaitOK
      <4>2. QED BY <1>1, <4>1 DEF Waking
    <3>3. QED BY <2>2, <3>1, <3>2 DEF Leaving
  <2>3. \A f \in Event : InReady(Mon(f)) => mon'[f] \in {"start", "woken", "cancelled"}
    BY <1>1 DEF ReadyOK
  <2>4. \A f \in Event : In(Mon(f), w) => mon'[f] \in {"start", "woken", "cancelled"}
    BY <1>1 DEF Leaving
  <2>5. QED BY <2>1, <2>2, <2>3, <2>4, ReadySteps DEF Leaving
<1>4. CwaitOK'
  <2>1. Injective(cwait') /\ \A f \in Event : In(f, cwait') => In(f, cwait)
    BY FreshEmpty DEF Leaving, CwaitOK, Fresh
  <2>2. QED BY <1>1, <2>1 DEF CwaitOK
<1>5. PendingOK'
  BY DEF PendingOK
<1>6. Types'
  <2>1. pc' \in [Event -> IO \cup Blocked \cup {"done"}]
    BY DEF Types, Leaving, IO, Blocked
  <2>2. mon' \in [Event -> {"none", "start", "wait", "woken", "cancelled", "done"}]
    BY DEF Types, Leaving
  <2>3. path' \in [Event -> {"none", "captured", "consumed", "activated"}]
    BY DEF Types
  <2>4. cwait' \in Seq(Event)
    BY EmptySeq DEF Types, Leaving
  <2>5. QED BY <1>3, <2>1, <2>2, <2>3, <2>4 DEF Types
<1>7. QED BY <1>2, <1>3, <1>4, <1>5, <1>6

LEMMA OutStays ==
  ASSUME TaskInv, NEW e \in Event, NEW x, NEW v, NEW w, Leaving(e, x, v, w), Class(pc[e]) = "out",
         UNCHANGED <<holder, lockq, runner>>
  PROVE  LockOK'
<1>1. \A f \in Event : Class(pc'[f]) = Class(pc[f])
  BY DEF Leaving, TaskInv, Types, Class
<1>2. QED BY <1>1, LockStays DEF TaskInv

LEMMA NothingWoken == ASSUME TaskInv PROVE OnlyLock(<<>>)
BY FreshEmpty DEF OnlyLock

LEMMA LeavesTask ==
  ASSUME TaskInv, NEW e \in Event,
         TypingStopped(e) \/ (HookDone(e) /\ Leave(e, runner, <<>>) /\ UNCHANGED <<holder, lockq>>)
  PROVE  TaskInv'
<1>1. /\ Runs(Main(e)) /\ pc[e] \in {"typing", "hook"}
      /\ UNCHANGED <<path, holder, lockq, runner, phase, stopped, pending, ticket, slot>>
      /\ Finalize(e, runner, <<>>) \/ Leave(e, runner, <<>>)
  BY DEF TypingStopped, HookDone
<1>2. PICK x, w : Leaving(e, x, <<>>, w)
  BY <1>1, NothingWoken, LeaveIs
<1>3. LockOK'
  BY <1>1, <1>2, OutStays DEF Class
<1>4. holder' \in Event \cup {None} /\ runner' \in Event \cup {None}
  BY <1>1 DEF TaskInv, Types
<1>5. QED BY <1>1, <1>2, <1>3, <1>4, NothingWoken, FreshEmpty, LeavingStep

LEMMA JoinedTask ==
  ASSUME TaskInv, NEW e \in Event, Joined(e)
  PROVE  TaskInv'
<1>1. /\ Runs(Main(e)) /\ pc[e] = "join" /\ Conclude(e, runner, <<>>)
      /\ UNCHANGED <<mon, path, holder, lockq, runner, phase, stopped, pending, ticket, slot>>
  BY DEF Joined
<1>2. mon[e] = "done"
  <2>1. InReady(Main(e))
    BY <1>1, InTail DEF Runs, InReady, In, TaskInv, Types, ReadyOK
  <2>2. QED BY <1>1, <2>1 DEF TaskInv, ReadyOK, Waking
<1>3. PICK w : Leaving(e, "done", <<>>, w)
  BY <1>1, <1>2, NothingWoken, ConcludeIs
<1>4. LockOK'
  BY <1>1, <1>3, OutStays DEF Class
<1>5. holder' \in Event \cup {None} /\ runner' \in Event \cup {None}
  BY <1>1 DEF TaskInv, Types
<1>6. QED BY <1>1, <1>3, <1>4, <1>5, NothingWoken, FreshEmpty, LeavingStep

LEMMA ReleasesTask ==
  ASSUME TaskInv, NEW e \in Event, BuildFails(e) \/ EndProcess(e)
  PROVE  TaskInv'
<1>1. /\ Runs(Main(e)) /\ pc[e] \in {"build", "save"} /\ holder' = None /\ Leave(e, runner', LockWakes)
      /\ UNCHANGED <<path, lockq, phase, stopped, pending, ticket, slot>>
      /\ runner' = IF pc[e] \in {"run", "closing", "save"} THEN None ELSE runner
  BY DEF BuildFails, EndProcess, TaskInv, LockOK
<1>2. holder = e /\ holder # None
  BY <1>1, EventAssumption DEF TaskInv, LockOK, InLock
<1>3. OnlyLock(LockWakes)
  BY <1>2, LockWakesFresh DEF OnlyLock
<1>4. PICK x, w : Leaving(e, x, LockWakes, w)
  BY <1>1, <1>3, LeaveIs
<1>5. LockOK'
  <2>1. Class(x) = "out" /\ pc' = [pc EXCEPT ![e] = x]
    BY <1>4 DEF Leaving, Class
  <2>2. QED BY <1>1, <2>1, LockReleased DEF TaskInv, InLock
<1>6. holder' \in Event \cup {None} /\ runner' \in Event \cup {None}
  BY <1>1 DEF TaskInv, Types
<1>7. QED BY <1>1, <1>3, <1>4, <1>5, <1>6, LeavingStep

LEMMA ConsumedLeaves ==
  ASSUME TaskInv, NEW e \in Event, PreparedConsumed(e)
  PROVE  \E x, w : Leaving(e, x, <<>>, w) /\ x # "typing"
<1>1. /\ Runs(Main(e)) /\ pc[e] = "resolve" /\ ticket[e] = "consumed"
      /\ path' = [path EXCEPT ![e] = "consumed"]
      /\ Settle(MarkConsumed(order, slot[e].seq, runner))
      /\ UNCHANGED <<holder, lockq, runner, phase, stopped, pending, ticket, slot>>
  BY DEF PreparedConsumed
<1>2. /\ order = NoOrder => UNCHANGED <<order, cwait>>
      /\ order # NoOrder => cwait' = <<>> /\ \A f \in Event : In(f, cwait) => In(Main(f), Notified)
      /\ \A f \in Event : In(Main(f), Notified) => In(f, cwait) /\ cwait' = <<>>
  BY <1>1, NotifiedFresh, FreshEmpty DEF Settle
<1>3. Captured(e)
  BY <1>1 DEF TaskInv, Local, Captured
<1>4. CASE CancelMonitor(e, Notified)
  <2>1. PICK w : /\ Schedule(w) /\ Fresh(w)
                 /\ \A y : In(y, Notified) => In(y, w)
                 /\ \A y : In(y, w) => In(y, Notified) \/ y = Mon(e)
    BY <1>4, CancelMonitorIs, NotifiedFresh
  <2>2. \A f \in Event : Main(f) # Mon(e) /\ (Mon(f) = Mon(e) => f = e)
    BY TaskNames
  <2>3. Leaving(e, "join", <<>>, w)
    BY <1>2, <1>3, <1>4, <2>1, <2>2, NotifiedFresh DEF Leaving, CancelMonitor
  <2>4. QED BY <2>3
<1>5. CASE mon[e] = "done" /\ pc' = [pc EXCEPT ![e] = "done"] /\ Schedule(Notified) /\ UNCHANGED mon
  <2>1. Leaving(e, "done", <<>>, Notified)
    BY <1>2, <1>5, NotifiedFresh DEF Leaving
  <2>2. QED BY <2>1
<1>6. QED BY <1>4, <1>5 DEF PreparedConsumed

LEMMA ConsumedTask ==
  ASSUME TaskInv, NEW e \in Event, PreparedConsumed(e)
  PROVE  TaskInv'
<1>1. /\ Runs(Main(e)) /\ pc[e] = "resolve" /\ ticket[e] = "consumed"
      /\ path' = [path EXCEPT ![e] = "consumed"]
      /\ UNCHANGED <<holder, lockq, runner, phase, stopped, pending, ticket, slot>>
  BY DEF PreparedConsumed
<1>2. PICK x, w : Leaving(e, x, <<>>, w) /\ x # "typing"
  BY ConsumedLeaves
<1>3. LockOK'
  BY <1>1, <1>2, OutStays DEF Class
<1>4. holder' \in Event \cup {None} /\ runner' \in Event \cup {None}
  BY <1>1 DEF TaskInv, Types
<1>5. QED BY <1>1, <1>2, <1>3, <1>4, NothingWoken, FreshEmpty, LeavingStep

LEMMA HeadIsReady ==
  ASSUME Types, ReadyOK, NEW t, Runs(t)
  PROVE  InReady(t) /\ ready # <<>> /\ Head(ready) = t
BY InTail DEF Runs, InReady, In, Types, ReadyOK

LEMMA EntersStep ==
  ASSUME TaskInv, NEW e \in Event, Runs(Main(e)), pc[e] \in {"new", "resolve", "turn", "hook"},
         Schedule(<<>>),
         \/ pc' = [pc EXCEPT ![e] = "hook"] /\ UNCHANGED <<holder, lockq, cwait>>
         \/ EnterLock(e) /\ cwait' = cwait
         \/ /\ pc[e] \in {"resolve", "turn"} /\ pc' = [pc EXCEPT ![e] = "turn"]
            /\ cwait' = Append(cwait, e) /\ UNCHANGED <<holder, lockq>>,
         IF pc[e] = "resolve"
         THEN path' = [path EXCEPT ![e] = "activated"] /\ ticket[e] = "unconsumed"
         ELSE path' = path,
         UNCHANGED <<mon, runner, phase, stopped, pending, ticket, slot>>
  PROVE  TaskInv'
<1> USE DEF TaskInv
<1>1. Waking(e) /\ Class(pc[e]) = "out"
  BY HeadIsReady DEF ReadyOK, Class
<1>2. ~In(e, cwait)
  BY <1>1 DEF Waking, CwaitOK
<1>3. /\ \A f \in Event \ {e} : pc'[f] = pc[f] /\ path'[f] = path[f]
      /\ pc'[e] \in {"hook", "build", "lock", "turn"}
      /\ pc'[e] = "turn" => pc[e] \in {"resolve", "turn"} /\ cwait' = Append(cwait, e)
      /\ pc'[e] # "turn" => cwait' = cwait
      /\ path'[e] = IF pc[e] = "resolve" THEN "activated" ELSE path[e]
      /\ pc' \in [Event -> IO \cup Blocked \cup {"done"}]
  <2>1. \E x \in {"hook", "build", "lock", "turn"} :
          /\ pc' = [pc EXCEPT ![e] = x]
          /\ x = "turn" => pc[e] \in {"resolve", "turn"} /\ cwait' = Append(cwait, e)
          /\ x # "turn" => cwait' = cwait
    BY DEF EnterLock
  <2>2. path' = [path EXCEPT ![e] = IF pc[e] = "resolve" THEN "activated" ELSE path[e]]
    BY DEF Types
  <2>3. /\ pc \in [Event -> IO \cup Blocked \cup {"done"}]
        /\ path \in [Event -> {"none", "captured", "consumed", "activated"}]
    BY DEF Types
  <2>4. {"hook", "build", "lock", "turn"} \subseteq IO \cup Blocked
    BY DEF IO, Blocked
  <2>5. QED BY <2>1, <2>2, <2>3, <2>4
<1>4. ASSUME NEW f \in Event PROVE Local(f)'
  <2>1. CASE f # e
    BY <1>3, <2>1 DEF Local, Captured
  <2>2. CASE f = e
    BY <1>3, <2>2 DEF Local, Captured
  <2>3. QED BY <2>1, <2>2
<1>5. /\ holder = None => holder' = None \/ lockq = <<>>
      /\ lockq' = lockq \/ lockq' = Append(lockq, e)
      /\ lockq' \in Seq(Event) /\ holder' \in Event \cup {None}
  <2>1. Append(lockq, e) \in Seq(Event)
    BY DEF Types
  <2>2. CASE EnterLock(e)
    BY <2>1, <2>2 DEF EnterLock, Types
  <2>3. CASE UNCHANGED <<holder, lockq>>
    BY <2>3 DEF Types
  <2>4. QED BY <2>2, <2>3
<1>6. /\ cwait' \in Seq(Event) /\ Injective(cwait')
      /\ \A f \in Event : In(f, cwait') => In(f, cwait) \/ (f = e /\ pc'[e] = "turn")
  <2>1. /\ Append(cwait, e) \in Seq(Event) /\ Injective(Append(cwait, e))
        /\ \A f : In(f, Append(cwait, e)) <=> In(f, cwait) \/ f = e
    BY <1>2, InAppend DEF Types, CwaitOK
  <2>2. CASE pc'[e] = "turn"
    BY <1>3, <2>1, <2>2
  <2>3. CASE pc'[e] # "turn"
    BY <1>3, <2>3 DEF Types, CwaitOK
  <2>4. QED BY <2>2, <2>3
<1>7. LockOK'
  <2>1. CASE EnterLock(e)
    BY <1>1, <2>1, LockEnters
  <2>2. CASE ~EnterLock(e)
    <3>1. UNCHANGED <<holder, lockq>> /\ \A f \in Event : Class(pc'[f]) = Class(pc[f])
      BY <1>1, <1>3, <2>2 DEF Class, Types
    <3>2. QED BY <3>1, LockStays
  <2>3. QED BY <2>1, <2>2
<1>8. ReadyOK' /\ ready' \in Seq(Task)
  <2>1. ASSUME NEW f \in Event, Main(f) # Main(e), Waking(f) PROVE Waking(f)'
    <3>1. f # e
      BY <2>1
    <3>2. pc[f] = "lock" => lockq # <<>>
      BY <2>1 DEF Waking
    <3>3. QED BY <1>3, <1>5, <1>6, <2>1, <3>1, <3>2, WakingStays
  <2>2. \A f \in Event : InReady(Mon(f)) => mon'[f] \in {"start", "woken", "cancelled"}
    BY DEF ReadyOK
  <2>3. QED BY <2>1, <2>2, FreshEmpty, ReadySteps
<1>9. CwaitOK'
  BY <1>2, <1>3, <1>6 DEF CwaitOK
<1>10. PendingOK'
  BY DEF PendingOK
<1>11. Types'
  <2>1. path' \in [Event -> {"none", "captured", "consumed", "activated"}]
    BY DEF Types
  <2>2. QED BY <1>3, <1>5, <1>6, <1>8, <2>1 DEF Types
<1>12. QED BY <1>4, <1>7, <1>8, <1>9, <1>10, <1>11

LEMMA EntersTask ==
  ASSUME TaskInv, NEW e \in Event,
         \/ Begin(e) \/ PreparedUnconsumed(e) \/ TurnNotified(e)
         \/ HookDone(e) /\ EnterLock(e) /\ Schedule(<<>>) /\ UNCHANGED <<mon, order, cwait>>
  PROVE  TaskInv'
<1>1. CASE Begin(e)
  BY <1>1, EntersStep DEF Begin, Proceed
<1>2. CASE PreparedUnconsumed(e)
  BY <1>2, EntersStep DEF PreparedUnconsumed, AwaitTurn, Proceed
<1>3. CASE TurnNotified(e)
  BY <1>3, EntersStep DEF TurnNotified, AwaitTurn, Proceed
<1>4. CASE HookDone(e) /\ EnterLock(e) /\ Schedule(<<>>) /\ UNCHANGED <<mon, order, cwait>>
  BY <1>4, EntersStep DEF HookDone
<1>5. QED BY <1>1, <1>2, <1>3, <1>4

\* Steps of the one who has the lock, or is given it.
LEMMA HolderStep ==
  ASSUME TaskInv, NEW e \in Event, Runs(Main(e)), pc[e] \in {"lock", "build", "run", "closing"},
         NEW x \in InLock, pc' = [pc EXCEPT ![e] = x],
         Schedule(<<>>), UNCHANGED <<mon, path, stopped, pending, ticket, cwait, slot>>,
         phase' \in [Event -> {"none", "running", "ended"}],
         lockq' \in Seq(Event), runner' \in Event \cup {None}, holder' = e,
         pc[e] # "lock" => lockq' = lockq, LockOK'
  PROVE  TaskInv'
<1> USE DEF TaskInv
<1>1. Waking(e)
  BY HeadIsReady DEF ReadyOK
<1>2. pc'[e] = x /\ \A f \in Event \ {e} : pc'[f] = pc[f]
  BY DEF Types
<1>3. ASSUME NEW f \in Event PROVE Local(f)'
  BY <1>2 DEF Local, Captured, InLock
<1>4. ReadyOK' /\ ready' \in Seq(Task)
  <2>1. ASSUME NEW f \in Event, Main(f) # Main(e), Waking(f) PROVE Waking(f)'
    <3>1. f # e
      BY <2>1
    <3>2. pc[e] # "lock" => holder # None
      BY EventAssumption DEF LockOK, InLock
    <3>3. pc[f] # "lock"
      BY <1>1, <2>1, <3>1, <3>2 DEF Waking
    <3>4. QED BY <1>2, <2>1, <3>1, <3>3, WakingStays
  <2>2. \A f \in Event : InReady(Mon(f)) => mon'[f] \in {"start", "woken", "cancelled"}
    BY DEF ReadyOK
  <2>3. QED BY <2>1, <2>2, FreshEmpty, ReadySteps
<1>5. CwaitOK'
  BY <1>2 DEF CwaitOK
<1>6. PendingOK'
  BY DEF PendingOK
<1>7. Types'
  <2>1. pc' \in [Event -> IO \cup Blocked \cup {"done"}]
    BY DEF Types, InLock, IO
  <2>2. QED BY <1>4, <2>1 DEF Types
<1>8. QED BY <1>3, <1>4, <1>5, <1>6, <1>7

LEMMA GrantedTask ==
  ASSUME TaskInv, NEW e \in Event, LockGranted(e)
  PROVE  TaskInv'
<1> USE DEF TaskInv
<1>1. /\ Runs(Main(e)) /\ pc[e] = "lock" /\ holder' = e /\ lockq' = Tail(lockq) /\ Schedule(<<>>)
      /\ pc' = [pc EXCEPT ![e] = "build"]
      /\ UNCHANGED <<mon, path, runner, phase, stopped, pending, ticket, order, cwait, slot>>
  BY DEF LockGranted
<1>2. holder = None /\ lockq # <<>> /\ Head(lockq) = e
  BY <1>1, HeadIsReady DEF ReadyOK, Waking
<1>3. /\ lockq' \in Seq(Event) /\ Injective(lockq')
      /\ \A f : In(f, lockq') <=> In(f, lockq) /\ f # e
  BY <1>1, <1>2, InTail DEF Types, LockOK
<1>4. pc'[e] = "build" /\ \A f \in Event \ {e} : pc'[f] = pc[f] /\ pc[f] \notin InLock
  BY <1>1, <1>2, EventAssumption DEF Types, LockOK
<1>5. LockOK'
  BY <1>1, <1>3, <1>4 DEF LockOK, InLock
<1>6. phase' \in [Event -> {"none", "running", "ended"}] /\ runner' \in Event \cup {None}
  BY <1>1 DEF Types
<1>7. QED BY <1>1, <1>3, <1>5, <1>6, HolderStep DEF InLock

LEMMA RunsTask ==
  ASSUME TaskInv, NEW e \in Event, RegisterRunner(e) \/ EndRun(e) \/ FailRun(e)
  PROVE  TaskInv'
<1> USE DEF TaskInv
<1>1. /\ Runs(Main(e)) /\ pc[e] \in {"build", "run"} /\ UNCHANGED <<holder, lockq>> /\ Schedule(<<>>)
      /\ UNCHANGED <<mon, path, stopped, pending, ticket, order, cwait, slot>>
  BY DEF RegisterRunner, EndRun, FailRun
<1>2. holder' = e
  BY <1>1 DEF LockOK, InLock
<1>3. phase' \in [Event -> {"none", "running", "ended"}] /\ runner' \in Event \cup {None}
  BY DEF Types, RegisterRunner, EndRun, FailRun
<1>4. CASE RegisterRunner(e)
  <2>1. pc' = [pc EXCEPT ![e] = "run"] /\ runner' = e /\ pc[e] = "build"
    BY <1>4 DEF RegisterRunner
  <2>2. pc'[e] = "run" /\ \A f \in Event \ {e} : pc'[f] = pc[f] /\ pc[f] \notin InLock
    BY <1>1, <1>2, <2>1 DEF Types, LockOK
  <2>3. LockOK'
    BY <1>1, <1>2, <2>1, <2>2 DEF LockOK, InLock
  <2>4. QED BY <1>1, <1>2, <1>3, <2>1, <2>3, HolderStep DEF InLock, Types
<1>5. CASE EndRun(e) \/ FailRun(e)
  <2>1. PICK x \in {"closing", "save"} : pc' = [pc EXCEPT ![e] = x] /\ runner' = runner /\ pc[e] = "run"
    BY <1>5 DEF EndRun, FailRun
  <2>2. \A f \in Event : Class(pc'[f]) = Class(pc[f])
    BY <2>1 DEF Class, Types
  <2>3. LockOK'
    BY <1>1, <2>1, <2>2, LockStays
  <2>4. QED BY <1>1, <1>2, <1>3, <2>1, <2>3, HolderStep DEF InLock, Types
<1>6. QED BY <1>4, <1>5

LEMMA CaptureTask ==
  ASSUME TaskInv, NEW e \in Event, Capture(e), slot' \in [Event -> [gen : Nat, seq : Nat]]
  PROVE  TaskInv'
<1> USE DEF TaskInv
<1>1. /\ Runs(Main(e)) /\ pc[e] = "new" /\ Schedule(<<Mon(e)>>)
      /\ pending' = [pending EXCEPT ![runner] = Append(@, e)]
      /\ ticket' = [ticket EXCEPT ![e] = "open"] /\ path' = [path EXCEPT ![e] = "captured"]
      /\ pc' = [pc EXCEPT ![e] = "resolve"] /\ mon' = [mon EXCEPT ![e] = "start"]
      /\ UNCHANGED <<holder, lockq, runner, phase, stopped, cwait>> /\ runner \in Event
  BY DEF Capture, CanCapture, Types
<1>2. /\ pc'[e] = "resolve" /\ path'[e] = "captured" /\ ticket'[e] = "open" /\ mon'[e] = "start"
      /\ \A f \in Event \ {e} : /\ pc'[f] = pc[f] /\ path'[f] = path[f]
                                /\ ticket'[f] = ticket[f] /\ mon'[f] = mon[f]
  BY <1>1 DEF Types
<1>3. path[e] = "none" /\ ticket[e] = "none" /\ mon[e] = "none"
  BY <1>1 DEF Local, Captured, Types
<1>4. ASSUME NEW f \in Event PROVE Local(f)'
  <2>1. CASE f # e
    BY <1>2, <2>1 DEF Local, Captured
  <2>2. CASE f = e
    BY <1>2, <2>2 DEF Local, Captured
  <2>3. QED BY <2>1, <2>2
<1>5. LockOK'
  <2>1. \A f \in Event : Class(pc'[f]) = Class(pc[f])
    BY <1>1, <1>2 DEF Class
  <2>2. QED BY <1>1, <2>1, LockStays
<1>6. Fresh(<<Mon(e)>>) /\ \A x : In(x, <<Mon(e)>>) <=> x = Mon(e)
  <2>1. ~InReady(Mon(e)) /\ Mon(e) \in Task
    BY <1>3, TaskNames DEF ReadyOK
  <2>2. QED BY <2>1, FreshOne
<1>7. ReadyOK' /\ ready' \in Seq(Task)
  <2>1. ASSUME NEW f \in Event, Main(f) # Main(e), Waking(f) PROVE Waking(f)'
    <3>1. f # e
      BY <2>1
    <3>2. QED BY <1>1, <1>2, <2>1, <3>1, WakingStays
  <2>2. \A f \in Event : ~In(Main(f), <<Mon(e)>>) /\ (In(Mon(f), <<Mon(e)>>) => f = e)
    BY <1>6, TaskNames
  <2>3. \A f \in Event : InReady(Mon(f)) => mon'[f] \in {"start", "woken", "cancelled"}
    BY <1>2 DEF ReadyOK
  <2>4. QED BY <1>1, <1>2, <1>6, <2>1, <2>2, <2>3, ReadySteps
<1>8. CwaitOK'
  BY <1>1, <1>2 DEF CwaitOK
<1>9. \A r \in Event : pending[r] \in Seq(Event) /\ ~In(e, pending[r])
  BY <1>3 DEF PendingOK, Types
<1>10. ASSUME NEW r \in Event
       PROVE  /\ pending'[r] \in Seq(Event) /\ Injective(pending'[r])
              /\ \A f \in Event : In(f, pending'[r]) <=> In(f, pending[r]) \/ (f = e /\ r = runner)
  <2>1. CASE r = runner
    <3>1. pending'[r] = Append(pending[r], e)
      BY <1>1, <2>1 DEF Types
    <3>2. /\ Append(pending[r], e) \in Seq(Event) /\ Injective(Append(pending[r], e))
          /\ \A f : In(f, Append(pending[r], e)) <=> In(f, pending[r]) \/ f = e
      BY <1>9, InAppend DEF PendingOK
    <3>3. QED BY <2>1, <3>1, <3>2
  <2>2. CASE r # runner
    BY <1>1, <1>9, <2>2 DEF Types, PendingOK
  <2>3. QED BY <2>1, <2>2
<1>11. PendingOK'
  <2>1. ASSUME NEW r \in Event, NEW f \in Event, In(f, pending'[r]) PROVE ticket'[f] = "open"
    <3>1. CASE f = e
      BY <1>2, <3>1
    <3>2. CASE f # e
      BY <1>2, <1>10, <2>1, <3>2 DEF PendingOK
    <3>3. QED BY <3>1, <3>2
  <2>2. ASSUME NEW r \in Event, NEW q \in Event, NEW f \in Event, In(f, pending'[r]), In(f, pending'[q])
        PROVE  r = q
    <3>1. CASE f = e
      BY <1>9, <1>10, <2>2, <3>1
    <3>2. CASE f # e
      BY <1>10, <2>2, <3>2 DEF PendingOK
    <3>3. QED BY <3>1, <3>2
  <2>3. QED BY <1>10, <2>1, <2>2 DEF PendingOK
<1>12. Types'
  <2>1. slot' \in [Event -> [gen : Nat, seq : Nat]] /\ pending' \in [Event -> Seq(Event)]
    BY <1>1, <1>10 DEF Types
  <2>2. /\ pc' \in [Event -> IO \cup Blocked \cup {"done"}]
        /\ mon' \in [Event -> {"none", "start", "wait", "woken", "cancelled", "done"}]
        /\ path' \in [Event -> {"none", "captured", "consumed", "activated"}]
        /\ ticket' \in [Event -> {"none", "open", "consumed", "unconsumed"}]
    BY <1>1 DEF Types, Blocked
  <2>3. QED BY <1>1, <1>7, <2>1, <2>2 DEF Types
<1>13. QED BY <1>4, <1>5, <1>7, <1>8, <1>11, <1>12

\* The runner of e resolves its tickets and goes to x.
LEMMA ResolvesStep ==
  ASSUME TaskInv, NEW e \in Event, Runs(Main(e)), pc[e] \in {"run", "closing"},
         NEW x \in {"run", "save"}, pc' = [pc EXCEPT ![e] = x],
         NEW res \in {"consumed", "unconsumed"}, Resolve(e, res),
         phase' \in [Event -> {"none", "running", "ended"}],
         UNCHANGED <<path, holder, lockq, runner, stopped, cwait, slot>>
  PROVE  TaskInv'
<1> USE DEF TaskInv
<1>1. pending[e] \in Seq(Event) /\ Injective(pending[e]) /\ DOMAIN pending[e] = 1 .. Len(pending[e])
  BY LenProperties DEF Types, PendingOK
<1>2. \A f \in Event : Contains(pending[e], f) <=> In(f, pending[e])
  BY <1>1 DEF Contains, In
<1>3. /\ \A f \in Event : ticket'[f] = IF In(f, pending[e]) THEN res ELSE ticket[f]
      /\ \A f \in Event : mon'[f] = IF In(f, pending[e]) /\ mon[f] = "wait" THEN "woken" ELSE mon[f]
      /\ pending' = [pending EXCEPT ![e] = <<>>] /\ Schedule(ResolveWakes(pending[e]))
  BY <1>2 DEF Resolve
<1>4. \A f \in Event : In(f, pending[e]) => ticket[f] = "open" /\ pc[f] = "resolve" /\ f # e
  BY DEF PendingOK, Local
<1>5. pc'[e] = x /\ \A f \in Event \ {e} : pc'[f] = pc[f]
  BY DEF Types
<1>6. ASSUME NEW f \in Event PROVE Local(f)'
  <2>1. CASE In(f, pending[e])
    <3>1. /\ ticket'[f] = res /\ pc'[f] = "resolve" /\ path'[f] = path[f]
          /\ mon'[f] = IF mon[f] = "wait" THEN "woken" ELSE mon[f]
      BY <1>3, <1>4, <1>5, <2>1
    <3>2. Local(f) /\ ticket[f] = "open" /\ pc[f] = "resolve"
      BY <1>4, <2>1
    <3>3. QED BY <3>1, <3>2 DEF Local, Captured
  <2>2. CASE ~In(f, pending[e])
    <3>1. ticket'[f] = ticket[f] /\ path'[f] = path[f] /\ mon'[f] = mon[f]
      BY <1>3, <2>2
    <3>2. Local(f) /\ (f = e \/ pc'[f] = pc[f])
      BY <1>5
    <3>3. QED BY <1>5, <3>1, <3>2 DEF Local, Captured
  <2>3. QED BY <2>1, <2>2
<1>7. LockOK'
  <2>1. \A f \in Event : Class(pc'[f]) = Class(pc[f])
    BY <1>5 DEF Class
  <2>2. QED BY <2>1, LockStays
<1>8. /\ Fresh(ResolveWakes(pending[e]))
      /\ \A f \in Event : In(Main(f), ResolveWakes(pending[e])) => In(f, pending[e])
      /\ \A f \in Event : In(Mon(f), ResolveWakes(pending[e])) => In(f, pending[e]) /\ mon[f] = "wait"
  <2>1. /\ ResolveWakes(pending[e]) \in Seq(Task) /\ Injective(ResolveWakes(pending[e]))
        /\ \A f \in Event : /\ In(Main(f), ResolveWakes(pending[e])) <=> In(f, pending[e])
                            /\ In(Mon(f), ResolveWakes(pending[e])) <=> In(f, pending[e]) /\ mon[f] = "wait"
    BY <1>1, WakesOf
  <2>2. \A f \in Event : In(f, pending[e]) => ~InReady(Main(f))
    BY <1>4 DEF ReadyOK, Waking
  <2>3. \A f \in Event : mon[f] = "wait" => ~InReady(Mon(f))
    BY DEF ReadyOK
  <2>4. QED BY <2>1, <2>2, <2>3, FreshIf
<1>9. ReadyOK' /\ ready' \in Seq(Task)
  <2>1. ASSUME NEW f \in Event, InReady(Main(f)), Main(f) # Main(e), Waking(f) PROVE Waking(f)'
    <3>1. f # e /\ ~In(f, pending[e])
      BY <1>4, <2>1 DEF Waking
    <3>2. QED BY <1>3, <1>5, <2>1, <3>1, WakingStays
  <2>2. ASSUME NEW f \in Event, In(Main(f), ResolveWakes(pending[e])) PROVE Waking(f)'
    <3>1. pc'[f] = "resolve" /\ ticket'[f] = res
      BY <1>3, <1>4, <1>5, <1>8, <2>2
    <3>2. QED BY <3>1 DEF Waking
  <2>3. \A f \in Event : InReady(Mon(f)) => mon'[f] \in {"start", "woken", "cancelled"}
    BY <1>3 DEF ReadyOK
  <2>4. \A f \in Event : In(Mon(f), ResolveWakes(pending[e])) => mon'[f] \in {"start", "woken", "cancelled"}
    BY <1>3, <1>8
  <2>5. QED BY <1>3, <1>8, <2>1, <2>2, <2>3, <2>4, ReadySteps
<1>10. CwaitOK'
  BY <1>5 DEF CwaitOK
<1>11. \A r \in Event : pending'[r] = IF r = e THEN <<>> ELSE pending[r]
  BY <1>3 DEF Types
<1>12. PendingOK'
  <2>1. ASSUME NEW r \in Event, NEW f \in Event, In(f, pending'[r])
        PROVE  r # e /\ In(f, pending[r]) /\ ~In(f, pending[e])
    <3>1. r # e /\ In(f, pending[r])
      BY <1>11, <2>1, FreshEmpty
    <3>2. QED BY <3>1 DEF PendingOK
  <2>2. \A r \in Event : Injective(pending'[r])
    BY <1>11, FreshEmpty DEF PendingOK, Fresh
  <2>3. QED BY <1>3, <2>1, <2>2 DEF PendingOK
<1>13. Types'
  <2>1. ticket' \in [Event -> {"none", "open", "consumed", "unconsumed"}]
    BY DEF Types, Resolve
  <2>2. mon' \in [Event -> {"none", "start", "wait", "woken", "cancelled", "done"}]
    BY DEF Types, Resolve
  <2>3. pending' \in [Event -> Seq(Event)]
    BY <1>3, <1>11, EmptySeq DEF Types
  <2>4. pc' \in [Event -> IO \cup Blocked \cup {"done"}]
    BY DEF Types, IO
  <2>5. QED BY <1>9, <2>1, <2>2, <2>3, <2>4 DEF Types
<1>14. QED BY <1>6, <1>7, <1>9, <1>10, <1>12, <1>13

LEMMA ResolvesTask ==
  ASSUME TaskInv, NEW e \in Event, ConsumeFollowUps(e) \/ CloseRun(e) \/ ErrorRun(e)
  PROVE  TaskInv'
<1>1. CASE ConsumeFollowUps(e)
  <2>1. pc' = [pc EXCEPT ![e] = "run"]
    BY <1>1 DEF ConsumeFollowUps, TaskInv, Types
  <2>2. QED BY <1>1, <2>1, ResolvesStep DEF ConsumeFollowUps, TaskInv, Types
<1>2. CASE CloseRun(e)
  BY <1>2, ResolvesStep DEF CloseRun, TaskInv, Types
<1>3. CASE ErrorRun(e)
  <2>1. phase' \in [Event -> {"none", "running", "ended"}]
    BY <1>3 DEF ErrorRun, TaskInv, Types
  <2>2. QED BY <1>3, <2>1, ResolvesStep DEF ErrorRun
<1>4. QED BY <1>1, <1>2, <1>3

LEMMA MonitorTask ==
  ASSUME TaskInv, NEW e \in Event, MonitorStarts(e) \/ MonitorResolved(e) \/ MonitorCancelled(e)
  PROVE  TaskInv'
<1> USE DEF TaskInv
<1>1. /\ Runs(Mon(e)) /\ UNCHANGED <<pc, path, holder, lockq, runner, phase, stopped, pending, ticket, slot>>
      /\ mon' = [mon EXCEPT ![e] = IF MonitorStarts(e) THEN "wait" ELSE "done"]
  BY DEF MonitorStarts, MonitorResolved, MonitorCancelled
<1>2. /\ mon'[e] \in {"wait", "done"} /\ mon'[e] = "wait" => ticket[e] = "open"
      /\ \A f \in Event \ {e} : mon'[f] = mon[f]
  BY <1>1 DEF Types, MonitorStarts
<1>3. mon[e] \in {"start", "woken", "cancelled"} /\ (mon[e] = "cancelled" => mon'[e] = "done")
  BY <1>1 DEF MonitorStarts, MonitorResolved, MonitorCancelled, Types
<1>4. ASSUME NEW f \in Event PROVE Local(f)'
  BY <1>1, <1>2, <1>3 DEF Local, Captured
<1>5. LockOK'
  BY <1>1 DEF LockOK
<1>6. \E w : /\ Schedule(w) /\ Fresh(w) /\ cwait' \in {cwait, <<>>}
             /\ \A f \in Event :
                  In(Main(f), w) => (In(f, cwait) /\ cwait' = <<>>) \/ (f = e /\ mon[e] = "cancelled")
             /\ \A f \in Event : ~In(Mon(f), w)
  <2>1. CASE MonitorCancelled(e)
    <3>1. mon[e] = "cancelled" /\ pc[e] = "join" /\ Schedule(<<Main(e)>>) /\ cwait' = cwait
      BY <2>1 DEF MonitorCancelled, Local
    <3>2. ~InReady(Main(e)) /\ Main(e) \in Task
      BY <3>1, TaskNames DEF ReadyOK, Waking
    <3>3. Fresh(<<Main(e)>>) /\ \A x : In(x, <<Main(e)>>) <=> x = Main(e)
      BY <3>2, FreshOne
    <3>4. \A f \in Event : (Main(f) = Main(e) => f = e) /\ Mon(f) # Main(e)
      BY TaskNames
    <3>5. QED BY <3>1, <3>3, <3>4
  <2>2. CASE Schedule(<<>>) /\ UNCHANGED <<order, cwait>>
    BY <2>2, FreshEmpty
  <2>3. CASE Settle(MarkConsumed(order, slot[e].seq, runner)) /\ Schedule(Notified)
    <3>1. /\ order = NoOrder => cwait' = cwait
          /\ order # NoOrder => cwait' = <<>>
      BY <2>3 DEF Settle
    <3>2. CASE order = NoOrder
      <4>1. Schedule(<<>>) /\ cwait' = cwait
        BY <2>3, <3>1, <3>2, NotifiedFresh
      <4>2. QED BY <4>1, FreshEmpty
    <3>3. CASE order # NoOrder
      <4>1. cwait' = <<>> /\ Fresh(Notified)
            /\ \A f \in Event : (In(Main(f), Notified) => In(f, cwait)) /\ ~In(Mon(f), Notified)
        BY <3>1, <3>3, NotifiedFresh
      <4>2. Schedule(Notified) /\ cwait' \in {cwait, <<>>}
        BY <2>3, <4>1
      <4>3. QED BY <4>1, <4>2, Zenon
    <3>4. QED BY <3>2, <3>3
  <2>4. QED BY <2>1, <2>2, <2>3 DEF MonitorStarts, MonitorResolved
<1>7. PICK w : /\ Schedule(w) /\ Fresh(w) /\ cwait' \in {cwait, <<>>}
               /\ \A f \in Event :
                    In(Main(f), w) => (In(f, cwait) /\ cwait' = <<>>) \/ (f = e /\ mon[e] = "cancelled")
               /\ \A f \in Event : ~In(Mon(f), w)
  BY <1>6
<1>8. \A f \in Event : In(f, cwait') => In(f, cwait)
  BY <1>7, FreshEmpty
<1>9. ReadyOK' /\ ready' \in Seq(Task)
  <2>1. ASSUME NEW f \in Event, Waking(f) PROVE Waking(f)'
    <3>1. pc[f] = "join" => mon'[f] = mon[f]
      BY <1>2, <1>3, <2>1 DEF Waking
    <3>2. QED BY <1>1, <1>8, <2>1, <3>1, WakingStays
  <2>2. ASSUME NEW f \in Event, In(Main(f), w) PROVE Waking(f)'
    <3>1. CASE In(f, cwait) /\ cwait' = <<>>
      BY <1>1, <3>1, FreshEmpty DEF CwaitOK, Waking
    <3>2. CASE f = e /\ mon[e] = "cancelled"
      <4>1. pc[f] = "join" /\ mon'[f] = "done"
        BY <1>3, <3>2 DEF Local
      <4>2. QED BY <1>1, <4>1 DEF Waking
    <3>3. QED BY <1>7, <2>2, <3>1, <3>2
  <2>3. ASSUME NEW f \in Event, InReady(Mon(f)), Mon(f) # Mon(e)
        PROVE  mon'[f] \in {"start", "woken", "cancelled"}
    BY <1>2, <2>3 DEF ReadyOK
  <2>4. QED BY <1>1, <1>7, <2>1, <2>2, <2>3, ReadySteps
<1>10. CwaitOK'
  <2>1. Injective(cwait')
    BY <1>7, FreshEmpty DEF CwaitOK, Fresh
  <2>2. QED BY <1>1, <1>8, <2>1 DEF CwaitOK
<1>11. PendingOK'
  BY <1>1 DEF PendingOK
<1>12. Types'
  <2>1. mon' \in [Event -> {"none", "start", "wait", "woken", "cancelled", "done"}]
    BY <1>1 DEF Types
  <2>2. cwait' \in Seq(Event)
    BY <1>7, EmptySeq DEF Types
  <2>3. QED BY <1>1, <1>9, <2>1, <2>2 DEF Types
<1>13. QED BY <1>4, <1>5, <1>9, <1>10, <1>11, <1>12

LEMMA OutsideTask ==
  ASSUME TaskInv, NEW e \in Event, IOReady(e) \/ Stop(e)
  PROVE  TaskInv'
<1> USE DEF TaskInv
<1>1. CASE IOReady(e)
  <2>1. /\ pc[e] \in IO /\ ~InReady(Main(e)) /\ ready' = Append(ready, Main(e))
        /\ UNCHANGED <<pc, mon, path, holder, lockq, runner, phase, stopped,
                       pending, ticket, order, cwait, slot>>
    BY <1>1 DEF IOReady
  <2>2. /\ ready' \in Seq(Task) /\ Injective(ready)'
        /\ \A x : InReady(x)' <=> InReady(x) \/ x = Main(e)
    BY <2>1, TaskNames, AppendReady DEF Types, ReadyOK
  <2>3. \A f \in Event : Waking(f)' <=> Waking(f)
    BY <2>1 DEF Waking
  <2>4. Waking(e)
    BY <2>1 DEF Waking, IO
  <2>5. ReadyOK'
    BY <2>1, <2>2, <2>3, <2>4, TaskNames DEF ReadyOK
  <2>6. LockOK' /\ CwaitOK' /\ PendingOK' /\ \A f \in Event : Local(f)'
    BY <2>1 DEF LockOK, CwaitOK, PendingOK, Local, Captured
  <2>7. Types'
    BY <2>1, <2>2 DEF Types
  <2>8. QED BY <2>5, <2>6, <2>7
<1>2. CASE Stop(e)
  <2>1. UNCHANGED <<ready, pc, mon, path, holder, lockq, runner, phase, pending, ticket, cwait, slot>>
    BY <1>2 DEF Stop
  <2>2. LockOK' /\ CwaitOK' /\ PendingOK' /\ \A f \in Event : Local(f)'
    BY <2>1 DEF LockOK, CwaitOK, PendingOK, Local, Captured
  <2>3. ReadyOK'
    BY <2>1 DEF ReadyOK, Waking, InReady
  <2>4. Types'
    BY <1>2, <2>1 DEF Types, Stop
  <2>5. QED BY <2>2, <2>3, <2>4
<1>3. QED BY <1>1, <1>2

LEMMA TaskInit == Init => TaskInv
<1> SUFFICES ASSUME Init PROVE TaskInv
  OBVIOUS
<1>1. ready = <<>> /\ lockq = <<>> /\ cwait = <<>> /\ holder = None /\ runner = None
  BY DEF Init
<1>2. ASSUME NEW e \in Event
      PROVE  /\ pc[e] = "new" /\ mon[e] = "none" /\ path[e] = "none" /\ ticket[e] = "none"
             /\ pending[e] = <<>>
  BY DEF Init
<1>3. Types
  BY EmptySeq DEF Init, Types, IO, NoSlot
<1>4. LockOK /\ CwaitOK
  BY <1>1, <1>2, FreshEmpty, EventAssumption DEF LockOK, CwaitOK, InLock, Fresh
<1>5. ReadyOK
  BY <1>1, FreshEmpty DEF ReadyOK, InReady, In, Fresh
<1>6. PendingOK
  BY <1>2, FreshEmpty DEF PendingOK, Fresh
<1>7. \A e \in Event : Local(e)
  BY <1>2 DEF Local, Captured
<1>8. QED BY <1>3, <1>4, <1>5, <1>6, <1>7 DEF TaskInv

LEMMA TaskStep ==
  ASSUME TaskInv, [Next]_vars, slot' \in [Event -> [gen : Nat, seq : Nat]]
  PROVE  TaskInv'
<1>1. ASSUME NEW e \in Event, Step(e) PROVE TaskInv'
  <2>1. CASE HookDone(e)
    <3>1. CASE EnterLock(e) /\ Schedule(<<>>) /\ UNCHANGED <<mon, order, cwait>>
      BY <2>1, <3>1, EntersTask
    <3>2. CASE Leave(e, runner, <<>>) /\ UNCHANGED <<holder, lockq>>
      BY <2>1, <3>2, LeavesTask
    <3>3. QED BY <2>1, <3>1, <3>2 DEF HookDone
  <2>2. QED BY <1>1, <2>1, CaptureTask, EntersTask, ConsumedTask, LeavesTask, GrantedTask, RunsTask,
               ReleasesTask, ResolvesTask, JoinedTask, MonitorTask DEF Step
<1>2. ASSUME NEW e \in Event, IOReady(e) \/ Stop(e) PROVE TaskInv'
  BY <1>2, OutsideTask
<1>3. CASE UNCHANGED vars
  BY <1>3 DEF vars, TaskInv, Types, LockOK, ReadyOK, Waking, CwaitOK, PendingOK, Local, Captured, InReady
<1>4. QED BY <1>1, <1>2, <1>3 DEF Next

-----------------------------------------------------------------------------
(* The inductive invariant: the order state and the slots *)

\* A value of the order state; number 0 is no state at all.
Good(o) ==
  /\ o \in [gen : Nat, statuses : {o.statuses}, next_order : Nat, next_turn : Nat]
  /\ o.statuses \in [DOMAIN o.statuses -> Status]
  /\ o.gen = 0 => o = NoOrder
  /\ o.next_turn <= o.next_order
  /\ \A s \in DOMAIN o.statuses : s \in Nat /\ o.next_turn <= s /\ s < o.next_order

\* Slot s is not handled yet.
Live(o, s) == s \in DOMAIN o.statuses /\ o.statuses[s] \in {"pending", "active"}

\* The slots of a value have no gaps, and the one whose turn it is is not handled.
Contiguous(o) == \A s \in Nat : o.next_turn <= s /\ s < o.next_order => s \in DOMAIN o.statuses
Tight(o) == Contiguous(o) /\ (o.next_turn < o.next_order => Live(o, o.next_turn))

Unsettled(e) == Captured(e) /\ ticket[e] # "consumed" /\ pc[e] # "done"

SlotOK(e) ==
  /\ slot[e].gen = 0 <=> ~Captured(e)
  /\ order.gen # 0 => slot[e].gen <= order.gen
  /\ Captured(e) /\ slot[e].gen = order.gen => slot[e].seq < order.next_order
  /\ Unsettled(e) => slot[e].gen = order.gen /\ Live(order, slot[e].seq)
  /\ PastTurn(e) /\ slot[e].gen = order.gen => slot[e].seq <= order.next_turn

OwnSlots == \A e, f \in Event : Captured(e) /\ Captured(f) /\ slot[e].gen = slot[f].gen
                                  /\ slot[e].seq = slot[f].seq => e = f

\* A capture that was consumed runs before the run that consumed it goes on:
\* until it has marked its slot, the runner keeps the order state alive.
Window(e) ==
  pc[e] = "resolve" /\ ticket[e] = "consumed" =>
    /\ order.gen = slot[e].gen
    /\ runner \in Event /\ pc[runner] = "run"
    /\ Before(Main(e), Main(runner))

OrderInv == /\ TaskInv /\ Good(order) /\ OwnSlots
            /\ \A e \in Event : SlotOK(e) /\ Window(e)

-----------------------------------------------------------------------------
(* The operators of the order state *)

LEMMA StatusSet ==
  ASSUME NEW o, Good(o), o.gen # 0, NEW s, NEW status \in Status, NEW unless
  PROVE  LET p == SetStatus(o, s, status, unless) IN
         /\ Good(p) /\ p.gen = o.gen /\ p.next_order = o.next_order /\ p.next_turn = o.next_turn
         /\ DOMAIN p.statuses = DOMAIN o.statuses
         /\ \A t : t # s \/ status = "active" => (Live(o, t) => Live(p, t))
<1> DEFINE p == SetStatus(o, s, status, unless)
<1>1. CASE p = o
  BY <1>1
<1>2. CASE s \in DOMAIN o.statuses /\ p = [o EXCEPT !.statuses[s] = status]
  <2>1. /\ p.gen = o.gen /\ p.next_order = o.next_order /\ p.next_turn = o.next_turn
        /\ p.statuses = [o.statuses EXCEPT ![s] = status]
        /\ p \in [gen : Nat, statuses : {p.statuses}, next_order : Nat, next_turn : Nat]
    BY <1>2 DEF Good
  <2> HIDE DEF p
  <2>2. /\ DOMAIN p.statuses = DOMAIN o.statuses
        /\ \A t \in DOMAIN o.statuses : p.statuses[t] = IF t = s THEN status ELSE o.statuses[t]
    BY <2>1 DEF Good
  <2>3. p.statuses \in [DOMAIN p.statuses -> Status]
    BY <2>1, <2>2 DEF Good
  <2>4. Good(p)
    BY <2>1, <2>2, <2>3 DEF Good
  <2>5. ASSUME NEW t, t # s \/ status = "active", Live(o, t) PROVE Live(p, t)
    BY <2>2, <2>5 DEF Live
  <2>6. QED BY <2>1, <2>2, <2>4, <2>5 DEF p
<1>3. QED BY <1>1, <1>2 DEF SetStatus

\* A slot that gets a final status is handled, and no other becomes unhandled.
LEMMA StatusLive ==
  ASSUME NEW o, Good(o), o.gen # 0, NEW s, NEW status \in Status, NEW unless
  PROVE  LET p == SetStatus(o, s, status, unless) IN
         /\ \A t : Live(p, t) => Live(o, t) \/ t = s
         /\ status \in {"consumed", "finished"} /\ unless \in {{}, {"finished"}} => ~Live(p, s)
<1> DEFINE p == SetStatus(o, s, status, unless)
<1>1. CASE ~(s \in DOMAIN o.statuses /\ o.statuses[s] \notin unless)
  BY <1>1 DEF SetStatus, Live
<1>2. CASE s \in DOMAIN o.statuses /\ o.statuses[s] \notin unless
  <2>1. p.statuses = [o.statuses EXCEPT ![s] = status]
    <3>1. p = [o EXCEPT !.statuses[s] = status]
      BY <1>2 DEF SetStatus
    <3>2. QED BY <3>1 DEF Good
  <2> HIDE DEF p
  <2>2. /\ DOMAIN p.statuses = DOMAIN o.statuses
        /\ \A t \in DOMAIN o.statuses : p.statuses[t] = IF t = s THEN status ELSE o.statuses[t]
    BY <2>1 DEF Good
  <2>3. (\A t : Live(p, t) => Live(o, t) \/ t = s) /\ (status \in {"consumed", "finished"} => ~Live(p, s))
    BY <1>2, <2>2 DEF Live
  <2>4. QED BY <2>3 DEF p
<1>3. QED BY <1>1, <1>2

LEMMA AdvanceKeeps ==
  ASSUME NEW o, Good(o), o.gen # 0
  PROVE  LET p == Advance(o) IN
         /\ Good(p) /\ p.gen = o.gen /\ p.next_order = o.next_order /\ o.next_turn <= p.next_turn
         /\ \A t : Live(o, t) <=> Live(p, t)
         /\ Contiguous(o) => Tight(p)
<1> DEFINE handled == {s \in DOMAIN o.statuses : o.statuses[s] \in {"consumed", "finished"}}
           T == {s \in o.next_turn .. o.next_order : s \notin handled}
           turn == Min(T)
           kept == DOMAIN o.statuses \ (o.next_turn .. turn - 1)
           p == [o EXCEPT !.statuses = Restrict(@, kept), !.next_turn = turn]
<1>1. Advance(o) = p
  BY DEF Advance
<1>2. turn \in T /\ \A y \in T : turn <= y
  <2>1. o.next_turn \in Nat /\ o.next_order \in Nat
    BY DEF Good
  <2>2. o.next_order \in T
    BY <2>1 DEF Good
  <2>3. T \in SUBSET Nat /\ T # {}
    BY <2>1, <2>2
  <2> HIDE DEF T
  <2>4. QED BY <2>3, Least
<1>3. turn \in Nat /\ o.next_turn <= turn /\ turn <= o.next_order
  BY <1>2 DEF Good
<1>4. /\ p.gen = o.gen /\ p.next_order = o.next_order /\ p.next_turn = turn
      /\ p.statuses = Restrict(o.statuses, kept)
      /\ p \in [gen : Nat, statuses : {p.statuses}, next_order : Nat, next_turn : Nat]
  <2> HIDE DEF turn, kept
  <2>1. QED BY <1>3 DEF Good
<1>5. DOMAIN p.statuses = kept /\ \A s \in kept : p.statuses[s] = o.statuses[s]
  <2> HIDE DEF p, kept
  <2>1. QED BY <1>4 DEF Restrict
<1>6. \A s \in kept : s \in DOMAIN o.statuses /\ s \in Nat /\ turn <= s /\ s < o.next_order
  <2> HIDE DEF turn
  <2>1. QED BY <1>3 DEF Good
<1>7. p.statuses \in [DOMAIN p.statuses -> Status]
  <2>1. \A s \in kept : o.statuses[s] \in Status
    BY <1>6 DEF Good
  <2> HIDE DEF p, kept
  <2>2. p.statuses = [s \in kept |-> o.statuses[s]]
    BY <1>4 DEF Restrict
  <2>3. QED BY <2>1, <2>2
<1> HIDE DEF p
<1>8. Good(p)
  <2> HIDE DEF turn, kept
  <2>1. QED BY <1>3, <1>4, <1>5, <1>6, <1>7 DEF Good
<1>9. ASSUME NEW t, Live(o, t) PROVE Live(p, t)
  <2>1. t \in DOMAIN o.statuses /\ t \notin handled /\ t \in Nat /\ o.next_turn <= t /\ t < o.next_order
    BY <1>9 DEF Live, Good
  <2>2. t \in T
    BY <2>1 DEF Good
  <2>3. turn <= t
    BY <1>2, <2>2
  <2>4. t \in kept
    <3> HIDE DEF turn
    <3>1. QED BY <1>3, <2>1, <2>3 DEF Good
  <2> HIDE DEF kept
  <2>5. QED BY <1>5, <1>9, <2>4 DEF Live
<1>10. ASSUME NEW t, Live(p, t) PROVE Live(o, t)
  BY <1>5, <1>6, <1>10 DEF Live
<1>11. ASSUME Contiguous(o) PROVE Tight(p)
  <2>1. o.next_turn \in Nat /\ o.next_order \in Nat
    BY DEF Good
  <2>2. ASSUME NEW s \in Nat, turn <= s, s < o.next_order PROVE s \in kept
    <3> HIDE DEF turn
    <3>1. QED BY <1>3, <1>11, <2>1, <2>2 DEF Contiguous
  <2>3. ASSUME turn < o.next_order PROVE Live(p, turn)
    <3>1. turn \notin handled
      BY <1>2
    <3> HIDE DEF turn
    <3>2. turn \in DOMAIN o.statuses
      BY <1>3, <1>11, <2>1, <2>3 DEF Contiguous
    <3>3. o.statuses[turn] \in Status
      BY <3>2 DEF Good
    <3>4. Live(o, turn)
      BY <3>1, <3>2, <3>3 DEF Live, Status
    <3>5. QED BY <1>9, <3>4
  <2> HIDE DEF turn, kept
  <2>4. QED BY <1>4, <1>5, <2>2, <2>3 DEF Tight, Contiguous
<1>12. QED BY <1>1, <1>3, <1>4, <1>8, <1>9, <1>10, <1>11

\* Slot s is handled: the others' slots stay, and the state goes only when
\* nobody has one and no runner is active.
Handles(o, p, s, r) ==
  /\ Good(p)
  /\ \/ p = NoOrder /\ r = None /\ \A t : Live(o, t) => t = s
     \/ /\ p.gen = o.gen /\ p.next_order = o.next_order /\ o.next_turn <= p.next_turn
        /\ \A t : Live(p, t) <=> Live(o, t) /\ t # s
  /\ Contiguous(o) => Tight(p)

LEMMA SlotHandled ==
  ASSUME NEW o, Good(o), o.gen # 0, NEW s, NEW r, NEW p,
         p = MarkConsumed(o, s, r) \/ p = FinishTurn(o, s, r)
  PROVE  Handles(o, p, s, r)
<1>1. PICK status, unless : /\ status \in {"consumed", "finished"} /\ unless \in {{}, {"finished"}}
                            /\ p = Drop(Advance(SetStatus(o, s, status, unless)), r)
  BY DEF MarkConsumed, FinishTurn
<1> DEFINE q == SetStatus(o, s, status, unless)
           a == Advance(q)
<1>2. /\ Good(q) /\ q.gen = o.gen /\ q.next_order = o.next_order /\ q.next_turn = o.next_turn
      /\ \A t : Live(q, t) <=> Live(o, t) /\ t # s
      /\ Contiguous(o) => Contiguous(q)
  <2>1. status \in Status
    BY <1>1 DEF Status
  <2>2. QED BY <1>1, <2>1, StatusSet, StatusLive DEF Contiguous
<1> HIDE DEF q
<1>3. /\ Good(a) /\ a.gen = q.gen /\ a.next_order = q.next_order /\ q.next_turn <= a.next_turn
      /\ \A t : Live(q, t) <=> Live(a, t)
      /\ Contiguous(q) => Tight(a)
  BY <1>2, AdvanceKeeps
<1>4. p = Drop(a, r)
  BY <1>1 DEF q
<1> HIDE DEF a
<1>5. CASE a.statuses = <<>> /\ r = None
  <2>1. p = NoOrder
    BY <1>4, <1>5 DEF Drop
  <2>2. \A t : ~Live(a, t)
    BY <1>5 DEF Live
  <2>3. DOMAIN <<>> = {} /\ Good(NoOrder)
    BY DEF Good, NoOrder
  <2>4. Tight(NoOrder)
    BY DEF Tight, Contiguous, NoOrder
  <2>5. QED BY <1>2, <1>3, <1>5, <2>1, <2>2, <2>3, <2>4 DEF Handles
<1>6. CASE ~(a.statuses = <<>> /\ r = None)
  <2>1. p = a
    BY <1>4, <1>6 DEF Drop
  <2>2. QED BY <1>2, <1>3, <2>1 DEF Handles
<1>7. QED BY <1>5, <1>6

\* A new state has a number nobody's slot has.
LEMMA NewOrderIs ==
  ASSUME Event # {}, slot \in [Event -> [gen : Nat, seq : Nat]]
  PROVE  /\ Good(NewOrder) /\ NewOrder.gen # 0 /\ NewOrder.next_order = 0 /\ NewOrder.next_turn = 0
         /\ \A s : ~Live(NewOrder, s)
         /\ \A e \in Event : slot[e].gen < NewOrder.gen
<1> DEFINE G == {slot[e].gen : e \in Event}
<1>1. G \in SUBSET Nat /\ G # {}
  OBVIOUS
<1>2. IsFiniteSet(G)
  <2> DEFINE f == [e \in Event |-> slot[e].gen]
  <2>1. f \in [Event -> G] /\ \A g \in G : \E e \in Event : f[e] = g
    OBVIOUS
  <2>2. f \in Surjection(Event, G)
    BY <2>1 DEF Surjection
  <2>3. QED BY <2>2, EventAssumption, FS_Surjection
<1> HIDE DEF G
<1>3. Max(G) \in Nat /\ \A g \in G : g <= Max(G)
  BY <1>1, <1>2, Greatest
<1>4. \A e \in Event : slot[e].gen \in G
  BY DEF G
<1>5. NewOrder = [gen |-> 1 + Max(G), statuses |-> <<>>, next_order |-> 0, next_turn |-> 0]
  BY DEF NewOrder, G
<1>6. DOMAIN <<>> = {} /\ <<>> \in [{} -> Status]
  OBVIOUS
<1>7. Good(NewOrder)
  BY <1>3, <1>5, <1>6 DEF Good
<1>8. \A s : ~Live(NewOrder, s)
  BY <1>5, <1>6 DEF Live
<1>9. QED BY <1>1, <1>3, <1>4, <1>5, <1>7, <1>8

LEMMA AllocateIs ==
  ASSUME NEW o, Good(o), o.gen # 0
  PROVE  LET p == Allocate(o) IN
         /\ Good(p) /\ p.gen = o.gen /\ p.next_order = o.next_order + 1 /\ p.next_turn = o.next_turn
         /\ \A t : Live(p, t) <=> Live(o, t) \/ t = o.next_order
<1> DEFINE n == o.next_order
           f == [s \in DOMAIN o.statuses \cup {n} |-> IF s = n THEN "pending" ELSE o.statuses[s]]
           p == [o EXCEPT !.statuses = f, !.next_order = n + 1]
<1>0. Allocate(o) = p
  BY DEF Allocate
<1>1. n \in Nat /\ n \notin DOMAIN o.statuses
  BY DEF Good
<1>2. /\ DOMAIN f = {n} \cup DOMAIN o.statuses /\ f[n] = "pending"
      /\ \A s \in DOMAIN o.statuses : f[s] = o.statuses[s]
  BY <1>1
<1>3. f \in [DOMAIN f -> Status]
  BY <1>2 DEF Good, Status
<1> HIDE DEF f
<1> HIDE DEF n
<1>4. /\ p.gen = o.gen /\ p.next_order = n + 1 /\ p.next_turn = o.next_turn /\ p.statuses = f
      /\ p \in [gen : Nat, statuses : {p.statuses}, next_order : Nat, next_turn : Nat]
  <2>1. o \in [gen : Nat, statuses : {o.statuses}, next_order : Nat, next_turn : Nat]
    BY DEF Good
  <2>2. p.gen = o.gen /\ p.next_order = n + 1 /\ p.next_turn = o.next_turn /\ p.statuses = f
    BY <2>1
  <2>3. n + 1 \in Nat
    BY <1>1
  <2>4. p \in [gen : Nat, statuses : {f}, next_order : Nat, next_turn : Nat]
    BY <2>1, <2>3
  <2>5. QED BY <2>2, <2>4
<1> HIDE DEF p
<1>5. Good(p)
  BY <1>1, <1>2, <1>3, <1>4 DEF Good, n
<1>6. \A t : Live(p, t) <=> Live(o, t) \/ t = n
  BY <1>2, <1>4 DEF Live
<1>7. QED BY <1>0, <1>4, <1>5, <1>6 DEF n

-----------------------------------------------------------------------------
(* What every step but a capture does to the slots *)

\* Still in `process` with its slot not given up.
Holds(e) == path[e] \in {"captured", "activated"} /\ pc[e] # "done"

\* The slot of e is handled, by e or by its monitor.
SlotMove(e) == /\ order.gen # 0 /\ slot[e].gen = order.gen /\ Captured(e) /\ ~Unsettled(e)'
               /\ Handles(order, order', slot[e].seq, runner')

OrderMove(e) ==
  \/ order' = order
  \/ /\ order.gen # 0 /\ slot[e].gen = order.gen /\ Live(order, slot[e].seq)
     /\ order' = SetStatus(order, slot[e].seq, "active", {})
  \/ SlotMove(e)

SlotsMove(e) ==
  /\ slot' = slot
  /\ \A f \in Event : /\ Captured(f)' <=> Captured(f)
                      /\ Unsettled(f)' => Unsettled(f)
                      /\ PastTurn(f)' => PastTurn(f) \/ slot[f].seq <= order.next_turn
  /\ OrderMove(e)

LEMMA SlotsKept ==
  ASSUME OrderInv, NEW e \in Event, SlotsMove(e)
  PROVE  /\ Good(order') /\ OwnSlots' /\ \A f \in Event : SlotOK(f)'
         /\ order'.gen = order.gen \/ (order'.gen = 0 /\ runner' = None)
<1>1. ASSUME NEW f \in Event
      PROVE  slot[f].gen \in Nat /\ slot[f].seq \in Nat /\ slot'[f] = slot[f] /\ SlotOK(f)
  BY DEF OrderInv, TaskInv, Types, SlotsMove
<1>2. ASSUME NEW f \in Event
      PROVE  /\ Captured(f)' <=> Captured(f)
             /\ Unsettled(f)' => Unsettled(f)
             /\ PastTurn(f)' => PastTurn(f) \/ slot[f].seq <= order.next_turn
  BY DEF SlotsMove
<1>3. OwnSlots'
  BY <1>1, <1>2 DEF OrderInv, OwnSlots
<1>4. Good(order)
  BY DEF OrderInv
<1> DEFINE Stays == /\ Good(order') /\ order'.gen = order.gen /\ order'.next_order = order.next_order
                    /\ order.next_turn <= order'.next_turn
                    /\ \A f \in Event : Unsettled(f)' /\ Live(order, slot[f].seq)
                                          => Live(order', slot[f].seq)
<1>5. CASE Stays
  <2>1. ASSUME NEW f \in Event PROVE SlotOK(f)'
    <3>1. order.next_turn \in Nat /\ order'.next_turn \in Nat
      BY <1>4, <1>5 DEF Good
    <3>2. PastTurn(f)' /\ slot[f].gen = order.gen => slot[f].seq <= order'.next_turn
      BY <1>1, <1>2, <1>5, <3>1 DEF SlotOK
    <3>3. QED BY <1>1, <1>2, <1>5, <3>2 DEF SlotOK
  <2>2. QED BY <1>3, <1>5, <2>1
<1>6. CASE order' = order
  BY <1>4, <1>5, <1>6 DEF Good
<1>7. CASE order.gen # 0 /\ order' = SetStatus(order, slot[e].seq, "active", {})
  <2>1. /\ Good(order') /\ order'.gen = order.gen /\ order'.next_order = order.next_order
        /\ order'.next_turn = order.next_turn /\ \A t : Live(order, t) => Live(order', t)
    BY <1>4, <1>7, StatusSet DEF Status
  <2>2. QED BY <1>5, <2>1 DEF Good
<1>8. CASE /\ order.gen # 0 /\ slot[e].gen = order.gen /\ Captured(e) /\ ~Unsettled(e)'
           /\ Handles(order, order', slot[e].seq, runner')
  <2>1. ASSUME NEW f \in Event, Unsettled(f)'
        PROVE  Live(order, slot[f].seq) /\ slot[f].seq # slot[e].seq
    <3>1. Unsettled(f) /\ f # e
      BY <1>2, <1>8, <2>1
    <3>2. Captured(f) /\ slot[f].gen = order.gen /\ Live(order, slot[f].seq)
      BY <1>1, <3>1 DEF SlotOK, Unsettled
    <3>3. QED BY <1>8, <3>1, <3>2 DEF OrderInv, OwnSlots
  <2>2. CASE /\ order'.gen = order.gen /\ order'.next_order = order.next_order
             /\ order.next_turn <= order'.next_turn
             /\ \A t : t # slot[e].seq /\ Live(order, t) => Live(order', t)
    <3>1. Stays
      BY <1>8, <2>1, <2>2 DEF Handles
    <3>2. QED BY <1>5, <3>1
  <2>3. CASE order' = NoOrder /\ runner' = None /\ \A t : Live(order, t) => t = slot[e].seq
    <3>1. order'.gen = 0 /\ Good(order')
      BY <1>8, <2>3 DEF NoOrder, Handles
    <3>2. ASSUME NEW f \in Event PROVE SlotOK(f)'
      <4>1. ~Unsettled(f)'
        BY <2>1, <2>3
      <4>2. slot[f].gen = 0 <=> ~Captured(f)
        BY <1>1 DEF SlotOK
      <4>3. PastTurn(f)' => Captured(f)'
        BY DEF PastTurn, Captured
      <4>4. QED BY <1>1, <1>2, <3>1, <4>1, <4>2, <4>3 DEF SlotOK
    <3>3. QED BY <1>3, <2>3, <3>1, <3>2
  <2>4. QED BY <1>8, <2>2, <2>3 DEF Handles
<1>9. QED BY <1>6, <1>7, <1>8 DEF SlotsMove, OrderMove, SlotMove

-----------------------------------------------------------------------------
(* Between a ticket's consumption and its mark *)

\* While a consumed capture has not run, the runner stays as it is: it is
\* behind that capture in the ready queue.
LEMMA WindowKept ==
  ASSUME OrderInv, NEW t, Runs(t), NEW w \in Seq(Task), Schedule(w),
         NEW f \in Event, pc[f] = "resolve", ticket[f] = "consumed", t # Main(f), slot'[f] = slot[f],
         \A g \in Event : t # Main(g) => pc'[g] = pc[g],
         runner' # runner => \E g \in Event : t = Main(g) /\ pc[g] \in {"build", "save"},
         order'.gen = order.gen \/ (order'.gen = 0 /\ runner' = None)
  PROVE  Window(f)'
<1>1. /\ order.gen = slot[f].gen /\ runner \in Event /\ pc[runner] = "run"
      /\ Before(Main(f), Main(runner))
  BY DEF OrderInv, Window
<1>2. ready \in Seq(Task) /\ ready # <<>> /\ Head(ready) = t
  BY DEF OrderInv, TaskInv, Types, Runs
<1>3. t # Main(runner)
  BY <1>1, <1>2, NotBeforeHead
<1>4. runner' = runner
  <2>1. SUFFICES ASSUME NEW g \in Event, t = Main(g), pc[g] \in {"build", "save"} PROVE FALSE
    OBVIOUS
  <2>2. holder = g /\ holder = runner
    BY <1>1, <2>1 DEF OrderInv, TaskInv, LockOK, InLock
  <2>3. QED BY <1>3, <2>1, <2>2
<1>5. pc'[runner] = "run"
  BY <1>1, <1>3
<1>6. Before(Main(f), Main(runner))'
  <2>1. PICK r \in Event : r = runner
    BY <1>1
  <2>2. Before(Main(f), Main(r)) /\ Head(ready) # Main(f)
    BY <1>1, <1>2, <2>1
  <2>3. Before(Main(f), Main(r))'
    BY <1>2, <2>2, ScheduleBefore
  <2>4. runner' = r
    BY <1>4, <2>1
  <2>5. QED BY <2>3, <2>4 DEF Before, Main
<1>7. order'.gen = slot'[f].gen
  BY <1>1, <1>4, EventAssumption
<1>8. QED BY <1>1, <1>4, <1>5, <1>6, <1>7 DEF Window

\* A step of t, a task of e, which captures nothing.
Move(e, t) ==
  /\ t \in {Main(e), Mon(e)} /\ Runs(t) /\ \E w \in Seq(Task) : Schedule(w)
  /\ SlotsMove(e)
  /\ \A g \in Event : t # Main(g) => pc'[g] = pc[g]
  /\ runner' # runner => t = Main(e) /\ pc[e] \in {"build", "save"}
  /\ t = Main(e) => pc'[e] # "resolve"

LEMMA MoveKeeps ==
  ASSUME OrderInv, TaskInv', NEW e \in Event, NEW t, Move(e, t),
         \A f \in Event : pc'[f] = "resolve" /\ ticket'[f] = "consumed"
                            => ticket[f] = "consumed" \/ Window(f)'
  PROVE  OrderInv'
<1>1. /\ Good(order') /\ OwnSlots' /\ \A f \in Event : SlotOK(f)'
      /\ order'.gen = order.gen \/ (order'.gen = 0 /\ runner' = None)
  BY SlotsKept DEF Move
<1>2. PICK w \in Seq(Task) : Schedule(w)
  BY DEF Move
<1>3. ASSUME NEW f \in Event, pc'[f] = "resolve", ticket'[f] = "consumed" PROVE Window(f)'
  <2>1. CASE ticket[f] = "consumed"
    <3>1. t # Main(f)
      BY <1>3, TaskNames DEF Move
    <3>2. pc[f] = "resolve"
      BY <1>3, <3>1 DEF Move
    <3>3. slot'[f] = slot[f]
      BY DEF Move, SlotsMove
    <3>4. QED BY <1>1, <1>2, <2>1, <3>1, <3>2, <3>3, WindowKept DEF Move
  <2>2. QED BY <1>3, <2>1
<1>4. \A f \in Event : Window(f)'
  BY <1>3 DEF Window
<1>5. Good(order)'
  BY <1>1
<1>6. QED BY <1>1, <1>4, <1>5 DEF OrderInv

-----------------------------------------------------------------------------
(* The order state after each action *)

\* Path, tickets and slots stay; one task moves that is neither resolving its
\* capture nor done.
LEMMA QuietMove ==
  ASSUME OrderInv, TaskInv', NEW e \in Event, NEW t \in {Main(e), Mon(e)}, Runs(t),
         NEW w \in Seq(Task), Schedule(w), UNCHANGED <<path, ticket, slot>>, OrderMove(e),
         IF t = Main(e)
         THEN /\ pc[e] \notin {"resolve", "done"} /\ pc'[e] # "resolve"
              /\ \A f \in Event \ {e} : pc'[f] = pc[f]
         ELSE pc' = pc,
         pc[e] = "turn" => pc'[e] = "turn" \/ slot[e].seq <= order.next_turn,
         runner' # runner => t = Main(e) /\ pc[e] \in {"build", "save"}
  PROVE  OrderInv'
<1>1. \A f \in Event : f # e => pc'[f] = pc[f]
  OBVIOUS
<1>2. \A f \in Event : /\ Captured(f)' <=> Captured(f)
                       /\ Unsettled(f)' => Unsettled(f)
                       /\ PastTurn(f)' => PastTurn(f) \/ slot[f].seq <= order.next_turn
  <2>1. ASSUME NEW f \in Event, f # e \/ pc' = pc
        PROVE  /\ Captured(f)' <=> Captured(f)
               /\ Unsettled(f)' => Unsettled(f)
               /\ PastTurn(f)' => PastTurn(f)
    BY <1>1, <2>1 DEF Captured, Unsettled, PastTurn
  <2>2. CASE pc[e] \notin {"resolve", "done"} /\ pc'[e] # "resolve"
    <3>1. /\ Captured(e)' <=> Captured(e)
          /\ Unsettled(e)' => Unsettled(e)
          /\ PastTurn(e)' => PastTurn(e) \/ slot[e].seq <= order.next_turn
      BY <2>2 DEF Captured, Unsettled, PastTurn
    <3>2. QED BY <2>1, <3>1
  <2>3. QED BY <2>1, <2>2
<1>3. \A g \in Event : t # Main(g) => pc'[g] = pc[g]
  BY <1>1
<1>4. Move(e, t)
  BY <1>2, <1>3 DEF Move, SlotsMove
<1>5. QED BY <1>4, MoveKeeps

\* Who does not wait for its turn is the head of the order.
LEMMA TurnTaken ==
  ASSUME OrderInv, NEW e \in Event, AwaitTurn(e), Unsettled(e)
  PROVE  \/ pc' = [pc EXCEPT ![e] = "turn"] /\ pc'[e] = "turn"
         \/ order.next_turn = slot[e].seq /\ Proceed(e)
<1>1. order.gen # 0
  BY DEF OrderInv, SlotOK, Unsettled
<1>2. order # NoOrder
  BY <1>1 DEF NoOrder
<1>3. CASE pc' = [pc EXCEPT ![e] = "turn"]
  BY <1>3 DEF OrderInv, TaskInv, Types
<1>4. QED BY <1>2, <1>3 DEF AwaitTurn

LEMMA PlainOrder ==
  ASSUME OrderInv, TaskInv', NEW e \in Event,
         \/ Begin(e) \/ TurnNotified(e) \/ LockGranted(e) \/ RegisterRunner(e) \/ EndRun(e) \/ FailRun(e)
         \/ HookDone(e) /\ EnterLock(e) /\ Schedule(<<>>) /\ UNCHANGED <<mon, order, cwait>>
  PROVE  OrderInv'
<1>1. /\ Runs(Main(e)) /\ Schedule(<<>>) /\ UNCHANGED <<path, ticket, slot, order>>
      /\ pc[e] \in {"new", "turn", "hook", "lock", "build", "run"}
  BY DEF Begin, TurnNotified, LockGranted, RegisterRunner, EndRun, FailRun, HookDone
<1>2. \E x \in {"hook", "build", "lock", "turn", "run", "closing", "save"} : pc' = [pc EXCEPT ![e] = x]
  BY DEF Begin, TurnNotified, LockGranted, RegisterRunner, EndRun, FailRun, HookDone, Proceed, EnterLock, AwaitTurn
<1>3. pc'[e] # "resolve" /\ \A f \in Event \ {e} : pc'[f] = pc[f]
  BY <1>2 DEF OrderInv, TaskInv, Types
<1>4. runner' # runner => pc[e] = "build"
  BY DEF Begin, TurnNotified, LockGranted, RegisterRunner, EndRun, FailRun, HookDone
<1>5. ASSUME pc[e] = "turn" PROVE pc'[e] = "turn" \/ slot[e].seq <= order.next_turn
  <2>1. AwaitTurn(e)
    BY <1>5 DEF Begin, TurnNotified, LockGranted, RegisterRunner, EndRun, FailRun, HookDone
  <2>2. Unsettled(e)
    BY <1>5 DEF OrderInv, TaskInv, Local, Captured, Unsettled
  <2>3. QED BY <2>1, <2>2, TurnTaken DEF OrderInv, Good
<1>6. <<>> \in Seq(Task)
  BY EmptySeq
<1>7. QED BY <1>1, <1>3, <1>4, <1>5, <1>6, QuietMove DEF OrderMove

\* The end of `process` handles the slot of an activated capture.
LEMMA LeaveMove ==
  ASSUME OrderInv, NEW e \in Event, pc[e] \in {"hook", "build", "save", "typing", "join"},
         UNCHANGED <<path, ticket>>, NEW v,
         \/ Leave(e, runner', v) \/ Finalize(e, runner', v) \/ Conclude(e, runner', v)
  PROVE  OrderMove(e) /\ (Holds(e) => Holds(e)' \/ SlotMove(e))
<1>1. CASE order' = order /\ (Holds(e) => Holds(e)')
  BY <1>1 DEF OrderMove
<1>2. CASE Conclude(e, runner', v) /\ path[e] \notin {"none", "consumed"}
  <2>1. path[e] = "activated" /\ ticket[e] = "unconsumed"
    BY <1>2 DEF OrderInv, TaskInv, Types, Local
  <2>2. Unsettled(e)
    BY <2>1 DEF Unsettled, Captured
  <2>3. Good(order) /\ slot[e].gen = order.gen /\ order.gen # 0 /\ order # NoOrder
    BY <2>2 DEF OrderInv, SlotOK, Unsettled, NoOrder
  <2>4. order' = FinishTurn(order, slot[e].seq, runner')
    BY <1>2, <2>1, <2>3 DEF Conclude, Settle
  <2>5. pc'[e] = "done"
    BY <1>2 DEF Conclude, OrderInv, TaskInv, Types
  <2>6. Handles(order, order', slot[e].seq, runner')
    BY <2>3, <2>4, SlotHandled
  <2>7. QED BY <2>2, <2>3, <2>5, <2>6 DEF OrderMove, SlotMove, Unsettled
<1>3. CASE Conclude(e, runner', v) /\ path[e] \in {"none", "consumed"}
  BY <1>1, <1>3 DEF Conclude, Holds
<1>4. CASE pc' \in {[pc EXCEPT ![e] = "typing"], [pc EXCEPT ![e] = "join"]} /\ order' = order
  <2>1. pc'[e] # "done"
    BY <1>4 DEF OrderInv, TaskInv, Types
  <2>2. QED BY <1>1, <1>4, <2>1 DEF Holds
<1>5. QED BY <1>2, <1>3, <1>4 DEF Leave, Finalize, CancelMonitor

\* However e leaves, it moves as Leaving says.
LEMMA LeaveLeaving ==
  ASSUME OrderInv, NEW e \in Event,
         \/ BuildFails(e) \/ EndProcess(e) \/ TypingStopped(e) \/ Joined(e)
         \/ HookDone(e) /\ Leave(e, runner, <<>>) /\ UNCHANGED <<holder, lockq>>
  PROVE  \E v, x, w : /\ \/ Leave(e, runner', v) \/ Finalize(e, runner', v) \/ Conclude(e, runner', v)
                      /\ Leaving(e, x, v, w)
<1>1. Runs(Main(e)) /\ pc[e] \in {"hook", "build", "save", "typing", "join"}
  BY DEF BuildFails, EndProcess, TypingStopped, Joined, HookDone
<1>2. \E v : /\ OnlyLock(v)
             /\ \/ Leave(e, runner', v) \/ Finalize(e, runner', v)
                \/ /\ Conclude(e, runner', v) /\ UNCHANGED mon
                   /\ Captured(e) => mon[e] = "done"
  <2>1. CASE BuildFails(e) \/ EndProcess(e)
    <3>1. holder # None /\ Leave(e, runner', LockWakes)
      BY <2>1, EventAssumption DEF BuildFails, EndProcess, OrderInv, TaskInv, LockOK, InLock
    <3>2. OnlyLock(LockWakes)
      BY <3>1, LockWakesFresh DEF OnlyLock, OrderInv
    <3>3. QED BY <3>1, <3>2
  <2>2. CASE Joined(e)
    <3>1. InReady(Main(e)) /\ pc[e] = "join"
      BY <2>2, HeadIsReady DEF Joined, OrderInv, TaskInv
    <3>2. mon[e] = "done"
      BY <3>1 DEF OrderInv, TaskInv, ReadyOK, Waking
    <3>3. QED BY <2>2, <3>2, NothingWoken DEF Joined, OrderInv
  <2>3. CASE TypingStopped(e) \/ (HookDone(e) /\ Leave(e, runner, <<>>))
    BY <2>3, NothingWoken DEF TypingStopped, HookDone, OrderInv
  <2>4. QED BY <2>1, <2>2, <2>3
<1>3. PICK v : /\ OnlyLock(v)
               /\ \/ Leave(e, runner', v) \/ Finalize(e, runner', v)
                  \/ /\ Conclude(e, runner', v) /\ UNCHANGED mon
                     /\ Captured(e) => mon[e] = "done"
  BY <1>2
<1>4. \E x, w : Leaving(e, x, v, w)
  BY <1>3, LeaveIs, ConcludeIs DEF OrderInv
<1>5. QED BY <1>3, <1>4

LEMMA LeaveOrder ==
  ASSUME OrderInv, TaskInv', NEW e \in Event,
         \/ BuildFails(e) \/ EndProcess(e) \/ TypingStopped(e) \/ Joined(e)
         \/ HookDone(e) /\ Leave(e, runner, <<>>) /\ UNCHANGED <<holder, lockq>>
  PROVE  OrderInv'
<1>1. /\ Runs(Main(e)) /\ pc[e] \in {"hook", "build", "save", "typing", "join"}
      /\ UNCHANGED <<path, ticket, slot>>
      /\ runner' # runner => pc[e] = "save"
  BY DEF BuildFails, EndProcess, TypingStopped, Joined, HookDone
<1>2. \E v, x, w : /\ \/ Leave(e, runner', v) \/ Finalize(e, runner', v) \/ Conclude(e, runner', v)
                   /\ Leaving(e, x, v, w)
  BY LeaveLeaving
<1>3. PICK v, x, w : /\ \/ Leave(e, runner', v) \/ Finalize(e, runner', v) \/ Conclude(e, runner', v)
                     /\ Leaving(e, x, v, w)
  BY <1>2
<1>6. OrderMove(e)
  BY <1>1, <1>3, LeaveMove
<1>7. w \in Seq(Task) /\ Schedule(w) /\ x \in {"typing", "join", "done"} /\ pc' = [pc EXCEPT ![e] = x]
  BY <1>3 DEF Leaving, Fresh
<1>8. pc'[e] # "resolve" /\ \A f \in Event \ {e} : pc'[f] = pc[f]
  BY <1>7 DEF OrderInv, TaskInv, Types
<1>9. QED BY <1>1, <1>6, <1>7, <1>8, QuietMove

\* A consumed capture is marked by whoever runs first, its task or its monitor.
LEMMA MarkMove ==
  ASSUME OrderInv, NEW e \in Event, pc[e] = "resolve", ticket[e] = "consumed", ticket' = ticket,
         Settle(MarkConsumed(order, slot[e].seq, runner)), runner' = runner
  PROVE  SlotMove(e)
<1>1. Captured(e) /\ order.gen = slot[e].gen /\ Good(order)
  BY DEF OrderInv, TaskInv, Local, Captured, Window
<1>2. order.gen # 0 /\ order # NoOrder
  BY <1>1 DEF OrderInv, SlotOK, NoOrder
<1>3. order' = MarkConsumed(order, slot[e].seq, runner')
  BY <1>2 DEF Settle
<1>4. Handles(order, order', slot[e].seq, runner')
  BY <1>1, <1>2, <1>3, SlotHandled
<1>5. QED BY <1>1, <1>2, <1>4 DEF SlotMove, Unsettled

LEMMA MonitorMove ==
  ASSUME OrderInv, NEW e \in Event, MonitorStarts(e) \/ MonitorResolved(e) \/ MonitorCancelled(e)
  PROVE  OrderMove(e)
<1>1. CASE order' = order
  BY <1>1 DEF OrderMove
<1>2. CASE MonitorResolved(e) /\ ticket[e] = "consumed"
  <2>1. mon[e] \in {"woken", "start"} /\ UNCHANGED <<ticket, runner>>
    BY <1>2 DEF MonitorResolved
  <2>2. pc[e] = "resolve"
    BY <1>2, <2>1 DEF OrderInv, TaskInv, Types, Local, Captured
  <2>3. QED BY <1>2, <2>1, <2>2, MarkMove DEF MonitorResolved, OrderMove
<1>3. QED BY <1>1, <1>2 DEF MonitorStarts, MonitorResolved, MonitorCancelled

LEMMA MonitorOrder ==
  ASSUME OrderInv, TaskInv', NEW e \in Event, MonitorStarts(e) \/ MonitorResolved(e) \/ MonitorCancelled(e)
  PROVE  OrderInv'
<1>1. Runs(Mon(e)) /\ UNCHANGED <<pc, path, ticket, slot, runner>> /\ Mon(e) # Main(e)
  BY TaskNames DEF MonitorStarts, MonitorResolved, MonitorCancelled
<1>2. \E w \in Seq(Task) : Schedule(w)
  <2>1. <<>> \in Seq(Task) /\ <<Main(e)>> \in Seq(Task) /\ Notified \in Seq(Task)
    BY TaskNames, FreshEmpty, NotifiedFresh DEF Fresh, OrderInv
  <2>2. QED BY <2>1 DEF MonitorStarts, MonitorResolved, MonitorCancelled
<1>3. pc[e] = "turn" => pc'[e] = "turn"
  BY <1>1
<1>4. QED BY <1>1, <1>2, <1>3, MonitorMove, QuietMove

\* An unconsumed capture that goes on has its slot still.
LEMMA ActivatedMove ==
  ASSUME OrderInv, NEW e \in Event, PreparedUnconsumed(e)
  PROVE  /\ Unsettled(e) /\ OrderMove(e)
         /\ \/ pc' = [pc EXCEPT ![e] = "turn"] /\ pc'[e] = "turn"
            \/ order.next_turn = slot[e].seq /\ Proceed(e)
<1>1. /\ pc[e] = "resolve" /\ ticket[e] = "unconsumed" /\ AwaitTurn(e)
      /\ order' = SetStatus(order, slot[e].seq, "active", {})
  BY DEF PreparedUnconsumed
<1>2. Unsettled(e)
  BY <1>1 DEF OrderInv, TaskInv, Local, Captured, Unsettled
<1>3. slot[e].gen = order.gen /\ order.gen # 0 /\ Live(order, slot[e].seq)
  BY <1>2 DEF OrderInv, SlotOK, Unsettled
<1>4. OrderMove(e)
  BY <1>1, <1>3 DEF OrderMove
<1>5. QED BY <1>1, <1>2, <1>4, TurnTaken

LEMMA PreparedOrder ==
  ASSUME OrderInv, TaskInv', NEW e \in Event, PreparedConsumed(e) \/ PreparedUnconsumed(e)
  PROVE  OrderInv'
<1>1. /\ Runs(Main(e)) /\ pc[e] = "resolve" /\ UNCHANGED <<ticket, slot, runner>>
      /\ path' \in {[path EXCEPT ![e] = "consumed"], [path EXCEPT ![e] = "activated"]}
  BY DEF PreparedConsumed, PreparedUnconsumed
<1>2. Captured(e) /\ Captured(e)' /\ \A f \in Event \ {e} : path'[f] = path[f]
  <2>1. path \in [Event -> {"none", "captured", "consumed", "activated"}] /\ Captured(e)
    BY <1>1 DEF OrderInv, TaskInv, Types, Local, Captured
  <2>2. path'[e] \in {"consumed", "activated"} /\ \A f \in Event \ {e} : path'[f] = path[f]
    BY <1>1, <2>1
  <2>3. QED BY <2>1, <2>2 DEF Captured
<1>3. /\ pc'[e] # "resolve" /\ \A f \in Event \ {e} : pc'[f] = pc[f]
      /\ \E w \in Seq(Task) : Schedule(w)
  <2>1. CASE PreparedConsumed(e)
    <3>1. PICK x, w : Leaving(e, x, <<>>, w)
      BY <2>1, ConsumedLeaves DEF OrderInv
    <3>2. QED BY <3>1 DEF Leaving, Fresh, OrderInv, TaskInv, Types
  <2>2. CASE PreparedUnconsumed(e)
    <3>1. Schedule(<<>>) /\ <<>> \in Seq(Task)
      BY <2>2, EmptySeq DEF PreparedUnconsumed
    <3>2. \E x \in {"hook", "build", "lock", "turn"} : pc' = [pc EXCEPT ![e] = x]
      BY <2>2 DEF PreparedUnconsumed, AwaitTurn, Proceed, EnterLock
    <3>3. pc \in [Event -> IO \cup Blocked \cup {"done"}]
      BY DEF OrderInv, TaskInv, Types
    <3>4. pc'[e] # "resolve" /\ \A f \in Event \ {e} : pc'[f] = pc[f]
      BY <3>2, <3>3
    <3>5. QED BY <3>1, <3>4
  <2>3. QED BY <2>1, <2>2
<1>4. OrderMove(e) /\ (Unsettled(e)' => Unsettled(e)) /\ (PastTurn(e)' => slot[e].seq <= order.next_turn)
  <2>1. CASE PreparedConsumed(e)
    <3>1. path'[e] = "consumed" /\ ticket[e] = "consumed"
      BY <2>1 DEF PreparedConsumed, OrderInv, TaskInv, Types
    <3>2. OrderMove(e)
      BY <1>1, <2>1, <3>1, MarkMove DEF PreparedConsumed, OrderMove
    <3>3. QED BY <1>1, <3>1, <3>2 DEF Unsettled, PastTurn
  <2>2. CASE PreparedUnconsumed(e)
    BY <2>2, ActivatedMove DEF PastTurn, OrderInv, Good
  <2>3. QED BY <2>1, <2>2
<1>5. \A f \in Event : /\ Captured(f)' <=> Captured(f)
                       /\ Unsettled(f)' => Unsettled(f)
                       /\ PastTurn(f)' => PastTurn(f) \/ slot[f].seq <= order.next_turn
  <2>1. ASSUME NEW f \in Event, f # e
        PROVE  /\ Captured(f)' <=> Captured(f)
               /\ Unsettled(f)' => Unsettled(f)
               /\ PastTurn(f)' => PastTurn(f)
    BY <1>1, <1>2, <1>3, <2>1 DEF Captured, Unsettled, PastTurn
  <2>2. QED BY <1>2, <1>4, <2>1
<1>6. Move(e, Main(e))
  BY <1>1, <1>3, <1>4, <1>5 DEF Move, SlotsMove
<1>7. QED BY <1>1, <1>6, MoveKeeps

\* The captures and monitors an event wakes were not ready.
LEMMA WakesFresh ==
  ASSUME OrderInv, NEW e \in Event
  PROVE  Fresh(ResolveWakes(pending[e]))
<1>1. pending[e] \in Seq(Event) /\ Injective(pending[e])
  BY DEF OrderInv, TaskInv, Types, PendingOK
<1>2. /\ ResolveWakes(pending[e]) \in Seq(Task) /\ Injective(ResolveWakes(pending[e]))
      /\ \A f \in Event : /\ In(Main(f), ResolveWakes(pending[e])) <=> In(f, pending[e])
                          /\ In(Mon(f), ResolveWakes(pending[e])) <=> In(f, pending[e]) /\ mon[f] = "wait"
  BY <1>1, WakesOf
<1>3. \A g \in Event : In(g, pending[e]) => ~InReady(Main(g))
  BY DEF OrderInv, TaskInv, PendingOK, Local, ReadyOK, Waking
<1>4. \A g \in Event : mon[g] = "wait" => ~InReady(Mon(g))
  BY DEF OrderInv, TaskInv, ReadyOK
<1>5. QED BY <1>2, <1>3, <1>4, FreshIf

\* The captures a run consumes are ready before its next step.
LEMMA ResolveOrder ==
  ASSUME OrderInv, TaskInv', NEW e \in Event, ConsumeFollowUps(e) \/ CloseRun(e) \/ ErrorRun(e)
  PROVE  OrderInv'
<1> DEFINE res == IF ConsumeFollowUps(e) THEN "consumed" ELSE "unconsumed"
<1>1. /\ Runs(Main(e)) /\ pc[e] \in {"run", "closing"} /\ UNCHANGED <<path, slot, order, runner>>
      /\ Resolve(e, res) /\ pc' \in {pc, [pc EXCEPT ![e] = "save"]}
      /\ ConsumeFollowUps(e) => pc' = pc /\ pc[e] = "run"
  BY DEF ConsumeFollowUps, CloseRun, ErrorRun
<1>2. pending[e] \in Seq(Event) /\ Injective(pending[e]) /\ DOMAIN pending[e] = 1 .. Len(pending[e])
  BY LenProperties DEF OrderInv, TaskInv, Types, PendingOK
<1>3. \A f \in Event : Contains(pending[e], f) <=> In(f, pending[e])
  BY <1>2 DEF Contains, In
<1>4. /\ \A f \in Event : ticket'[f] = IF In(f, pending[e]) THEN res ELSE ticket[f]
      /\ Schedule(ResolveWakes(pending[e]))
  BY <1>1, <1>3 DEF Resolve
<1>5. ASSUME NEW f \in Event, In(f, pending[e])
      PROVE  ticket[f] = "open" /\ pc[f] = "resolve" /\ f # e /\ Unsettled(f)
  BY <1>1, <1>5 DEF OrderInv, TaskInv, PendingOK, Local, Captured, Unsettled
<1>6. pc'[e] # "resolve" /\ pc'[e] # "done" /\ \A f \in Event \ {e} : pc'[f] = pc[f]
  <2>1. pc \in [Event -> IO \cup Blocked \cup {"done"}]
    BY DEF OrderInv, TaskInv, Types
  <2>2. CASE pc' = pc
    BY <1>1, <2>2
  <2>3. CASE pc' = [pc EXCEPT ![e] = "save"]
    BY <2>1, <2>3
  <2>4. QED BY <1>1, <2>2, <2>3
<1>7. /\ ResolveWakes(pending[e]) \in Seq(Task) /\ Injective(ResolveWakes(pending[e]))
      /\ \A f \in Event : /\ In(Main(f), ResolveWakes(pending[e])) <=> In(f, pending[e])
                          /\ In(Mon(f), ResolveWakes(pending[e])) <=> In(f, pending[e]) /\ mon[f] = "wait"
  BY <1>2, WakesOf
<1>8. \A f \in Event : /\ Captured(f)' <=> Captured(f)
                       /\ Unsettled(f)' => Unsettled(f)
                       /\ PastTurn(f)' => PastTurn(f)
  <2>1. ASSUME NEW f \in Event
        PROVE  (Captured(f)' <=> Captured(f)) /\ (Unsettled(f)' => Unsettled(f))
    <3>1. CASE In(f, pending[e])
      BY <1>1, <1>5, <3>1 DEF Captured
    <3>2. CASE ~In(f, pending[e])
      BY <1>1, <1>4, <1>6, <3>2 DEF Captured, Unsettled
    <3>3. QED BY <3>1, <3>2
  <2>2. QED BY <1>1, <1>6, <2>1 DEF PastTurn
<1>9. Move(e, Main(e))
  BY <1>1, <1>4, <1>6, <1>7, <1>8 DEF Move, SlotsMove, OrderMove
<1>10. ASSUME NEW f \in Event, ticket'[f] = "consumed", ticket[f] # "consumed" PROVE Window(f)'
  <2>1. In(f, pending[e]) /\ res = "consumed"
    BY <1>4, <1>10
  <2>2. ConsumeFollowUps(e) /\ pc' = pc /\ pc[e] = "run" /\ runner = e
    BY <1>1, <2>1 DEF OrderInv, TaskInv, LockOK
  <2>3. slot[f].gen = order.gen
    BY <1>5, <2>1 DEF OrderInv, SlotOK
  <2>4. Fresh(ResolveWakes(pending[e]))
    BY WakesFresh
  <2>5. InReady(Main(f))' /\ ~InReady(Main(e))'
    <3>1. \A x : InReady(x)' <=> (InReady(x) /\ x # Head(ready)) \/ In(x, ResolveWakes(pending[e]))
      BY <1>1, <1>4, <2>4, ScheduleReady DEF OrderInv, TaskInv, Types, ReadyOK, Runs
    <3>2. Head(ready) = Main(e)
      BY <1>1 DEF Runs
    <3>3. In(Main(f), ResolveWakes(pending[e])) /\ ~In(Main(e), ResolveWakes(pending[e]))
      BY <1>5, <1>7, <2>1
    <3>4. QED BY <3>1, <3>2, <3>3
  <2>6. Before(Main(f), Main(e))'
    BY <2>5 DEF Before, InReady
  <2>7. runner' = e
    BY <1>1, <2>2
  <2>8. Before(Main(f), Main(runner))'
    BY <2>6, <2>7 DEF Before, Main
  <2>9. QED BY <1>1, <2>2, <2>3, <2>7, <2>8 DEF Window
<1>11. QED BY <1>9, <1>10, MoveKeeps

\* A capture takes the next number of the state, which it makes if there is none.
LEMMA CapturedSlot ==
  ASSUME OrderInv, NEW e \in Event, Capture(e)
  PROVE  \E o : /\ Good(o) /\ o.gen # 0 /\ order' = Allocate(o)
                /\ slot' = [slot EXCEPT ![e] = [gen |-> o.gen, seq |-> o.next_order]]
                /\ order.gen # 0 => o = order
                /\ order.gen = 0 => o = NewOrder /\ \A s : ~Live(o, s)
                /\ \A f \in Event : /\ slot[f].gen <= o.gen
                                    /\ Captured(f) /\ slot[f].gen = o.gen => slot[f].seq < o.next_order
                                    /\ Unsettled(f) => slot[f].gen = o.gen /\ Live(o, slot[f].seq)
                                    /\ PastTurn(f) /\ slot[f].gen = o.gen => slot[f].seq <= o.next_turn
<1> DEFINE o == IF order = NoOrder THEN NewOrder ELSE order
<1>1. order' = Allocate(o) /\ slot' = [slot EXCEPT ![e] = [gen |-> o.gen, seq |-> o.next_order]]
  BY DEF Capture
<1>2. Good(order) /\ slot \in [Event -> [gen : Nat, seq : Nat]]
  BY DEF OrderInv, TaskInv, Types
<1>3. order.gen = 0 <=> order = NoOrder
  BY <1>2 DEF Good, NoOrder
<1>4. ASSUME NEW f \in Event PROVE SlotOK(f) /\ slot[f].gen \in Nat
  BY <1>2 DEF OrderInv
<1>5. CASE order = NoOrder
  <2>1. /\ Good(o) /\ o.gen # 0 /\ \A f \in Event : slot[f].gen < o.gen
        /\ \A s : ~Live(o, s)
    BY <1>2, <1>5, NewOrderIs
  <2>a. o = NewOrder
    BY <1>5
  <2>2. o.gen \in Nat
    BY <2>1 DEF Good
  <2>3. \A f \in Event : ~Unsettled(f)
    BY <1>3, <1>4, <1>5 DEF SlotOK, Unsettled
  <2>4. \A f \in Event : slot[f].gen <= o.gen /\ slot[f].gen # o.gen
    BY <1>4, <2>1, <2>2
  <2> HIDE DEF o
  <2>5. QED BY <1>1, <1>3, <1>5, <2>a, <2>1, <2>3, <2>4
<1>6. CASE order # NoOrder
  <2>1. o = order /\ order.gen # 0
    BY <1>3, <1>6
  <2> HIDE DEF o
  <2>2. QED BY <1>1, <1>2, <1>4, <2>1 DEF SlotOK
<1>7. QED BY <1>5, <1>6

LEMMA CaptureOrder ==
  ASSUME OrderInv, NEW e \in Event, Capture(e)
  PROVE  OrderInv'
<1>1. PICK o : /\ Good(o) /\ o.gen # 0 /\ order' = Allocate(o)
               /\ slot' = [slot EXCEPT ![e] = [gen |-> o.gen, seq |-> o.next_order]]
               /\ order.gen # 0 => o = order
               /\ \A f \in Event : /\ slot[f].gen <= o.gen
                                   /\ Captured(f) /\ slot[f].gen = o.gen => slot[f].seq < o.next_order
                                   /\ Unsettled(f) => slot[f].gen = o.gen /\ Live(o, slot[f].seq)
                                   /\ PastTurn(f) /\ slot[f].gen = o.gen => slot[f].seq <= o.next_turn
  BY CapturedSlot
<1>2. /\ Good(order') /\ order'.gen = o.gen /\ order'.next_order = o.next_order + 1
      /\ order'.next_turn = o.next_turn
      /\ \A t : Live(order', t) <=> Live(o, t) \/ t = o.next_order
  BY <1>1, AllocateIs
<1>3. /\ o.gen \in Nat /\ o.next_order \in Nat /\ slot \in [Event -> [gen : Nat, seq : Nat]]
      /\ pc \in [Event -> IO \cup Blocked \cup {"done"}]
  BY <1>1 DEF Good, OrderInv, TaskInv, Types
<1>4. /\ slot' \in [Event -> [gen : Nat, seq : Nat]]
      /\ slot'[e].gen = o.gen /\ slot'[e].seq = o.next_order
      /\ \A f \in Event \ {e} : slot'[f] = slot[f]
  BY <1>1, <1>3
<1>5. TaskInv'
  BY <1>4, CaptureTask DEF OrderInv
<1>6. /\ Runs(Main(e)) /\ pc[e] = "new" /\ Schedule(<<Mon(e)>>) /\ runner' = runner
      /\ \A f \in Event \ {e} : path'[f] = path[f] /\ ticket'[f] = ticket[f] /\ pc'[f] = pc[f]
      /\ path'[e] = "captured" /\ ticket'[e] = "open" /\ pc'[e] = "resolve"
  BY DEF Capture, OrderInv, TaskInv, Types
<1>7. ASSUME NEW f \in Event PROVE SlotOK(f)'
  <2>1. CASE f = e
    <3>1. Captured(e)' /\ ~PastTurn(e)'
      BY <1>6 DEF Captured, PastTurn
    <3>2. QED BY <1>1, <1>2, <1>3, <1>4, <2>1, <3>1 DEF SlotOK
  <2>2. CASE f # e
    <3>1. /\ Captured(f)' <=> Captured(f)
          /\ Unsettled(f)' <=> Unsettled(f)
          /\ PastTurn(f)' <=> PastTurn(f)
      BY <1>6, <2>2 DEF Captured, Unsettled, PastTurn
    <3>2. slot[f].seq \in Nat /\ slot'[f] = slot[f] /\ (slot[f].gen = 0 <=> ~Captured(f))
      BY <1>3, <1>4, <2>2 DEF OrderInv, SlotOK
    <3>3. QED BY <1>1, <1>2, <1>3, <3>1, <3>2 DEF SlotOK
  <2>3. QED BY <2>1, <2>2
<1>8. OwnSlots'
  <2>1. ASSUME NEW f \in Event, f # e, Captured(f)' PROVE ~(slot'[f].gen = o.gen /\ slot'[f].seq = o.next_order)
    <3>1. Captured(f) /\ slot'[f] = slot[f] /\ slot[f].seq \in Nat
      BY <1>3, <1>4, <1>6, <2>1 DEF Captured
    <3>2. QED BY <1>1, <1>3, <3>1
  <2>2. \A f \in Event \ {e} : (Captured(f)' <=> Captured(f)) /\ slot'[f] = slot[f]
    BY <1>4, <1>6 DEF Captured
  <2>3. QED BY <1>4, <2>1, <2>2 DEF OrderInv, OwnSlots
<1>9. ASSUME NEW f \in Event, pc'[f] = "resolve", ticket'[f] = "consumed" PROVE Window(f)'
  <2>1. f # e /\ pc[f] = "resolve" /\ ticket[f] = "consumed" /\ Main(f) # Main(e)
    BY <1>6, <1>9, TaskNames
  <2>2. order'.gen = order.gen
    <3>1. order.gen = slot[f].gen /\ Captured(f)
      BY <2>1 DEF OrderInv, Window, TaskInv, Local, Captured
    <3>2. order.gen # 0
      BY <3>1 DEF OrderInv, SlotOK
    <3>3. QED BY <1>1, <1>2, <3>2
  <2>3. <<Mon(e)>> \in Seq(Task) /\ slot'[f] = slot[f]
    BY <1>4, <2>1, TaskNames
  <2>4. \A g \in Event : Main(e) # Main(g) => pc'[g] = pc[g]
    BY <1>6
  <2>5. QED BY <1>6, <2>1, <2>2, <2>3, <2>4, WindowKept
<1>10. \A f \in Event : Window(f)'
  BY <1>9 DEF Window
<1>11. QED BY <1>2, <1>5, <1>7, <1>8, <1>10 DEF OrderInv

LEMMA OutsideOrder ==
  ASSUME OrderInv, TaskInv', NEW e \in Event, IOReady(e) \/ Stop(e)
  PROVE  OrderInv'
<1>1. UNCHANGED <<pc, path, runner, ticket, order, slot>>
  BY DEF IOReady, Stop
<1>2. \A a, b : Before(a, b) => Before(a, b)'
  <2>1. CASE IOReady(e)
    <3>1. Main(e) \in Task /\ ~InReady(Main(e)) /\ ready' = Append(ready, Main(e))
      BY <2>1, TaskNames DEF IOReady
    <3>2. QED BY <3>1, AppendReady DEF OrderInv, TaskInv, Types, ReadyOK
  <2>2. CASE Stop(e)
    <3>1. ready' = ready
      BY <2>2 DEF Stop
    <3>2. QED BY <3>1 DEF Before
  <2>3. QED BY <2>1, <2>2
<1>3. ASSUME NEW f \in Event, Window(f) PROVE Window(f)'
  <2>1. CASE pc[f] = "resolve" /\ ticket[f] = "consumed"
    <3>1. runner \in Event /\ Before(Main(f), Main(runner))
      BY <1>3, <2>1 DEF Window
    <3>2. PICK r \in Event : r = runner
      BY <3>1
    <3>3. Before(Main(f), Main(r))' /\ runner' = r
      BY <1>1, <1>2, <3>1, <3>2
    <3>4. Before(Main(f), Main(runner))'
      BY <3>3 DEF Before, Main
    <3>5. QED BY <1>1, <1>3, <3>4 DEF Window
  <2>2. CASE ~(pc[f] = "resolve" /\ ticket[f] = "consumed")
    BY <1>1, <2>2 DEF Window
  <2>3. QED BY <2>1, <2>2
<1>4. Good(order)' /\ OwnSlots' /\ \A f \in Event : SlotOK(f)'
  BY <1>1 DEF OrderInv, OwnSlots, SlotOK, Captured, Unsettled, PastTurn
<1>5. QED BY <1>3, <1>4 DEF OrderInv

LEMMA OrderInit == Init => OrderInv
<1> SUFFICES ASSUME Init PROVE OrderInv
  OBVIOUS
<1>1. TaskInv
  BY TaskInit
<1>2. \A e \in Event : pc[e] = "new" /\ path[e] = "none" /\ slot[e] = NoSlot
  BY DEF Init
<1>3. order = NoOrder /\ DOMAIN <<>> = {} /\ <<>> \in [{} -> Status]
  BY DEF Init
<1>4. Good(order)
  BY <1>3 DEF Good, NoOrder
<1>5. \A e \in Event : SlotOK(e)
  BY <1>2, <1>3 DEF SlotOK, NoSlot, NoOrder, Captured, Unsettled, PastTurn
<1>6. OwnSlots /\ \A e \in Event : Window(e)
  BY <1>2 DEF OwnSlots, Captured, Window
<1>7. QED BY <1>1, <1>4, <1>5, <1>6 DEF OrderInv

LEMMA OrderStep == OrderInv /\ [Next]_vars => OrderInv'
<1> SUFFICES ASSUME OrderInv, [Next]_vars PROVE OrderInv'
  OBVIOUS
<1>1. CASE UNCHANGED vars
  <2>1. TaskInv'
    BY <1>1, TaskStep DEF OrderInv, TaskInv, Types, vars
  <2>2. QED BY <1>1, <2>1 DEF vars, OrderInv, OwnSlots, SlotOK, Captured, Unsettled, PastTurn, Window, Before
<1>2. ASSUME NEW e \in Event, Capture(e) PROVE OrderInv'
  BY <1>2, CaptureOrder
<1>3. ASSUME NEW e \in Event, IOReady(e) \/ Step(e) \/ Stop(e), ~Capture(e) PROVE OrderInv'
  <2>1. slot' = slot
    BY <1>3 DEF IOReady, Stop, Step, Begin, PreparedConsumed, PreparedUnconsumed, TurnNotified, HookDone,
         LockGranted, RegisterRunner, BuildFails, ConsumeFollowUps, EndRun, CloseRun, ErrorRun, FailRun,
         EndProcess, TypingStopped, Joined, MonitorStarts, MonitorResolved, MonitorCancelled
  <2>2. TaskInv'
    BY <2>1, TaskStep DEF OrderInv, TaskInv, Types
  <2>3. CASE HookDone(e)
    <3>1. CASE EnterLock(e) /\ Schedule(<<>>) /\ UNCHANGED <<mon, order, cwait>>
      BY <2>2, <2>3, <3>1, PlainOrder
    <3>2. CASE Leave(e, runner, <<>>) /\ UNCHANGED <<holder, lockq>>
      BY <2>2, <2>3, <3>2, LeaveOrder
    <3>3. QED BY <2>3, <3>1, <3>2 DEF HookDone
  <2>4. QED BY <1>3, <2>2, <2>3, PlainOrder, PreparedOrder, LeaveOrder, ResolveOrder, MonitorOrder,
               OutsideOrder DEF Step
<1>4. QED BY <1>1, <1>2, <1>3 DEF Next

-----------------------------------------------------------------------------
(* The theorems for any runs *)

\* Every variable keeps its type: the state keeps numbers below its counters, and
\* a wake-up list never holds anything but tasks.
THEOREM TypeCorrect == Spec => []TypeOK
<1>1. OrderInv => TypeOK
  BY DEF OrderInv, TaskInv, Types, Good, TypeOK
<1>2. QED BY <1>1, OrderInit, OrderStep, PTL DEF Spec

\* Unconsumed follow-ups resume strictly in arrival order, whatever stops, fails or
\* is consumed meanwhile and however often the state is dropped and made again.
THEOREM ResumesInOrder == Spec => []ResumeInOrder
<1>1. ASSUME OrderInv PROVE ResumeInOrder
  <2>1. SUFFICES ASSUME NEW e \in Event, NEW f \in Event, PastTurn(e), Captured(f), Earlier(f, e),
                        Unsettled(f)
                 PROVE  FALSE
    BY DEF ResumeInOrder, Unsettled
  <2>2. /\ slot[e].gen \in Nat /\ slot[e].seq \in Nat /\ slot[f].gen \in Nat /\ slot[f].seq \in Nat
        /\ SlotOK(e) /\ SlotOK(f) /\ Good(order)
    BY <1>1 DEF OrderInv, TaskInv, Types
  <2>3. slot[f].gen = order.gen /\ order.gen # 0 /\ slot[f].seq \in DOMAIN order.statuses
    BY <2>1, <2>2 DEF SlotOK, Live
  <2>4. slot[e].gen = order.gen /\ slot[f].seq < slot[e].seq
    BY <2>1, <2>2, <2>3 DEF SlotOK, Earlier
  <2>5. slot[e].seq <= order.next_turn /\ order.next_turn \in Nat /\ order.next_turn <= slot[f].seq
    BY <2>1, <2>2, <2>3, <2>4 DEF SlotOK, Good
  <2>6. QED BY <2>2, <2>4, <2>5
<1>2. QED BY <1>1, OrderInit, OrderStep, PTL DEF Spec

-----------------------------------------------------------------------------
(* The inductive invariant: whose turn it is, and who waits for it *)

\* A slot that is not handled has its message in `process`.
Owned == \A s : Live(order, s) => \E f \in Event : Holds(f) /\ slot[f] = [gen |-> order.gen, seq |-> s]

\* Who waits for its turn waits on the condition, and it is not its turn, or was notified.
TurnOK(e) == /\ pc[e] = "turn" => InReady(Main(e)) \/ In(e, cwait)
             /\ In(e, cwait) => order.next_turn # slot[e].seq

TurnInv == OrderInv /\ Tight(order) /\ Owned /\ \A e \in Event : TurnOK(e)

LEMMA MoveTight ==
  ASSUME OrderInv, Tight(order), NEW e \in Event, OrderMove(e)
  PROVE  Tight(order')
<1>1. CASE order' = order
  BY <1>1
<1>2. CASE order.gen # 0 /\ order' = SetStatus(order, slot[e].seq, "active", {})
  <2>1. Good(order) /\ "active" \in Status
    BY DEF OrderInv, Status
  <2>2. /\ order'.next_order = order.next_order /\ order'.next_turn = order.next_turn
        /\ DOMAIN order'.statuses = DOMAIN order.statuses
        /\ \A t : Live(order, t) => Live(order', t)
    BY <1>2, <2>1, StatusSet
  <2>3. QED BY <2>2 DEF Tight, Contiguous
<1>3. CASE SlotMove(e)
  BY <1>3 DEF SlotMove, Handles, Tight
<1>4. QED BY <1>1, <1>2, <1>3 DEF OrderMove

LEMMA MoveOwned ==
  ASSUME OrderInv, Owned, NEW e \in Event, OrderMove(e), slot' = slot,
         \A f \in Event \ {e} : Holds(f) => Holds(f)', Holds(e) => Holds(e)' \/ SlotMove(e)
  PROVE  Owned'
<1>1. ASSUME NEW s, Live(order', s)
      PROVE  Live(order, s) /\ order'.gen = order.gen /\ (SlotMove(e) => s # slot[e].seq)
  <2>1. CASE SlotMove(e)
    <3>1. order' # NoOrder
      BY <1>1 DEF Live, NoOrder
    <3>2. QED BY <1>1, <2>1, <3>1 DEF SlotMove, Handles
  <2>2. CASE ~SlotMove(e) /\ order' = order
    BY <1>1, <2>2
  <2>3. CASE ~SlotMove(e) /\ order.gen # 0 /\ order' = SetStatus(order, slot[e].seq, "active", {})
                          /\ Live(order, slot[e].seq)
    <3>1. Good(order) /\ "active" \in Status
      BY DEF OrderInv, Status
    <3>2. order'.gen = order.gen
      BY <2>3, <3>1, StatusSet
    <3>3. \A t : Live(order', t) => Live(order, t) \/ t = slot[e].seq
      BY <2>3, <3>1, StatusLive
    <3>4. QED BY <1>1, <2>3, <3>2, <3>3
  <2>4. QED BY <2>1, <2>2, <2>3 DEF OrderMove
<1>2. ASSUME NEW s, Live(order', s)
      PROVE  \E f \in Event : Holds(f)' /\ slot'[f] = [gen |-> order'.gen, seq |-> s]
  <2>1. Live(order, s) /\ order'.gen = order.gen /\ (SlotMove(e) => s # slot[e].seq)
    BY <1>1, <1>2
  <2>2. PICK f \in Event : Holds(f) /\ slot[f] = [gen |-> order.gen, seq |-> s]
    BY <2>1 DEF Owned
  <2>3. slot[f].seq = s
    BY <2>2
  <2>4. Holds(f)'
    BY <2>1, <2>2, <2>3
  <2>5. QED BY <2>1, <2>2, <2>4
<1>3. QED BY <1>2 DEF Owned

\* A step of t, a task of e, that captures nothing.  What leaves the condition is
\* scheduled, and the turn moves only when all do.
LEMMA TurnKept ==
  ASSUME TurnInv, OrderInv', NEW e \in Event, NEW t \in {Main(e), Mon(e)}, Runs(t),
         NEW w, Fresh(w), Schedule(w), slot' = slot, OrderMove(e),
         \A f \in Event : t # Main(f) => pc'[f] = pc[f],
         \A f \in Event \ {e} : path'[f] = path[f],
         Holds(e) => Holds(e)' \/ SlotMove(e),
         \/ /\ order'.next_turn = order.next_turn
            /\ \A f \in Event : t # Main(f) => (In(f, cwait') <=> In(f, cwait))
         \/ cwait' = <<>> /\ \A f \in Event : In(f, cwait) => In(Main(f), w),
         t = Main(e) /\ pc'[e] = "turn" => In(e, cwait') /\ order'.next_turn # slot[e].seq
  PROVE  TurnInv'
<1>1. Tight(order') /\ Owned'
  <2>1. \A f \in Event \ {e} : Holds(f) => Holds(f)'
    BY TaskNames DEF Holds
  <2>2. QED BY <2>1, MoveTight, MoveOwned DEF TurnInv
<1>2. \A x : InReady(x)' <=> (InReady(x) /\ x # t) \/ In(x, w)
  BY ScheduleReady DEF Runs, TurnInv, OrderInv, TaskInv, Types, ReadyOK
<1>3. \A f \in Event : In(f, cwait') => pc'[f] = "turn"
  BY DEF OrderInv, TaskInv, CwaitOK
<1>4. ASSUME NEW f \in Event, t # Main(f) PROVE TurnOK(f)'
  <2>1. TurnOK(f) /\ pc'[f] = pc[f] /\ slot'[f] = slot[f]
    BY <1>4 DEF TurnInv
  <2>2. CASE /\ order'.next_turn = order.next_turn
             /\ \A g \in Event : t # Main(g) => (In(g, cwait') <=> In(g, cwait))
    <3>1. In(f, cwait') <=> In(f, cwait)
      BY <1>4, <2>2
    <3>2. InReady(Main(f)) => InReady(Main(f))'
      BY <1>2, <1>4
    <3>3. QED BY <2>1, <2>2, <3>1, <3>2 DEF TurnOK
  <2>3. CASE cwait' = <<>> /\ \A g \in Event : In(g, cwait) => In(Main(g), w)
    <3>1. ~In(f, cwait')
      BY <2>3, FreshEmpty
    <3>2. InReady(Main(f)) \/ In(f, cwait) => InReady(Main(f))'
      BY <1>2, <1>4, <2>3
    <3>3. QED BY <2>1, <3>1, <3>2 DEF TurnOK
  <2>4. QED BY <2>2, <2>3
<1>5. ASSUME t = Main(e) PROVE TurnOK(e)'
  BY <1>3, <1>5 DEF TurnOK
<1>6. \A f \in Event : TurnOK(f)'
  BY <1>4, <1>5, TaskNames
<1>7. QED BY <1>1, <1>6 DEF TurnInv

-----------------------------------------------------------------------------
(* Each step preserves TurnInv *)

LEMMA PlainTurn ==
  ASSUME TurnInv, OrderInv', NEW e \in Event,
         \/ Begin(e) \/ LockGranted(e) \/ RegisterRunner(e) \/ EndRun(e) \/ FailRun(e)
         \/ ConsumeFollowUps(e) \/ CloseRun(e) \/ ErrorRun(e)
         \/ HookDone(e) /\ EnterLock(e) /\ Schedule(<<>>) /\ UNCHANGED <<mon, order, cwait>>
  PROVE  TurnInv'
<1> OrderInv
  BY DEF TurnInv
<1>1. /\ Runs(Main(e)) /\ UNCHANGED <<path, slot, order, cwait>>
      /\ \E x \in {"hook", "build", "lock", "run", "closing", "save"} : pc' = [pc EXCEPT ![e] = x]
  <2>1. ConsumeFollowUps(e) => pc' = [pc EXCEPT ![e] = "run"]
    BY DEF ConsumeFollowUps, OrderInv, TaskInv, Types
  <2>2. QED BY <2>1 DEF Begin, LockGranted, RegisterRunner, EndRun, FailRun, HookDone, ConsumeFollowUps,
               CloseRun, ErrorRun, Proceed, EnterLock
<1>2. pc'[e] \notin {"turn", "done"} /\ \A f \in Event \ {e} : pc'[f] = pc[f]
  BY <1>1 DEF OrderInv, TaskInv, Types
<1>3. \E w : Fresh(w) /\ Schedule(w)
  <2>1. CASE ConsumeFollowUps(e) \/ CloseRun(e) \/ ErrorRun(e)
    BY <2>1, WakesFresh DEF ConsumeFollowUps, CloseRun, ErrorRun, Resolve
  <2>2. CASE ~(ConsumeFollowUps(e) \/ CloseRun(e) \/ ErrorRun(e))
    BY <2>2, FreshEmpty DEF Begin, LockGranted, RegisterRunner, EndRun, FailRun
  <2>3. QED BY <2>1, <2>2
<1>4. PICK w : Fresh(w) /\ Schedule(w)
  BY <1>3
<1>5. Holds(e) => Holds(e)'
  BY <1>1, <1>2 DEF Holds
<1>6. OrderMove(e)
  BY <1>1 DEF OrderMove
<1>7. QED BY <1>1, <1>2, <1>4, <1>5, <1>6, TurnKept

\* Who looks at the turn waits for it unless it is its own.
LEMMA AwaitsTurn ==
  ASSUME TurnInv, OrderInv', NEW e \in Event, PreparedUnconsumed(e) \/ TurnNotified(e)
  PROVE  TurnInv'
<1> OrderInv
  BY DEF TurnInv
<1>1. /\ Runs(Main(e)) /\ slot' = slot /\ Schedule(<<>>) /\ AwaitTurn(e)
      /\ path' \in {path, [path EXCEPT ![e] = "activated"]}
  BY DEF PreparedUnconsumed, TurnNotified
<1>2. Unsettled(e) /\ OrderMove(e) /\ order'.next_turn = order.next_turn
  <2>1. CASE PreparedUnconsumed(e)
    <3>1. Unsettled(e) /\ OrderMove(e)
      BY <2>1, ActivatedMove
    <3>2. Good(order) /\ order.gen # 0 /\ "active" \in Status
      BY <3>1 DEF OrderInv, SlotOK, Unsettled, Status
    <3>3. order'.next_turn = order.next_turn
      BY <2>1, <3>2, StatusSet DEF PreparedUnconsumed
    <3>4. QED BY <3>1, <3>3
  <2>2. CASE TurnNotified(e)
    BY <2>2 DEF TurnNotified, OrderInv, TaskInv, Local, Captured, Unsettled, OrderMove
  <2>3. QED BY <2>1, <2>2
<1>3. /\ \E x \in {"hook", "build", "lock", "turn"} : pc' = [pc EXCEPT ![e] = x]
      /\ pc'[e] = "turn" => cwait' = Append(cwait, e) /\ order.next_turn # slot[e].seq
      /\ pc'[e] # "turn" => cwait' = cwait
  <2>1. CASE order = NoOrder \/ order.next_turn = slot[e].seq
    <3>1. cwait' = cwait /\ \E x \in {"hook", "build", "lock"} : pc' = [pc EXCEPT ![e] = x]
      BY <1>1, <2>1 DEF AwaitTurn, Proceed, EnterLock
    <3>2. pc \in [Event -> IO \cup Blocked \cup {"done"}]
      BY DEF OrderInv, TaskInv, Types
    <3>3. QED BY <3>1, <3>2
  <2>2. CASE ~(order = NoOrder \/ order.next_turn = slot[e].seq)
    <3>1. cwait' = Append(cwait, e) /\ pc' = [pc EXCEPT ![e] = "turn"] /\ order.next_turn # slot[e].seq
      BY <1>1, <2>2 DEF AwaitTurn
    <3>2. pc \in [Event -> IO \cup Blocked \cup {"done"}]
      BY DEF OrderInv, TaskInv, Types
    <3>3. QED BY <3>1, <3>2
  <2>3. QED BY <2>1, <2>2
<1>4. pc'[e] # "done" /\ \A f \in Event \ {e} : pc'[f] = pc[f]
  <2>1. pc \in [Event -> IO \cup Blocked \cup {"done"}]
    BY DEF OrderInv, TaskInv, Types
  <2>2. QED BY <1>3, <2>1
<1>5. cwait' = Append(cwait, e) => \A x : In(x, cwait') <=> In(x, cwait) \/ x = e
  BY InAppend DEF OrderInv, TaskInv, Types
<1>6. path'[e] \in {path[e], "activated"} /\ \A f \in Event \ {e} : path'[f] = path[f]
  BY <1>1 DEF OrderInv, TaskInv, Types
<1>7. Holds(e) => Holds(e)'
  BY <1>4, <1>6 DEF Holds
<1>8. Fresh(<<>>)
  BY FreshEmpty
<1>9. \A f \in Event : Main(e) # Main(f) => (In(f, cwait') <=> In(f, cwait))
  BY <1>3, <1>5
<1>10. QED BY <1>1, <1>2, <1>3, <1>4, <1>5, <1>6, <1>7, <1>8, <1>9, TurnKept

\* Who leaves has its slot handled, and whoever waits is notified.
LEMMA LeavesTurn ==
  ASSUME TurnInv, OrderInv', NEW e \in Event,
         \/ BuildFails(e) \/ EndProcess(e) \/ TypingStopped(e) \/ Joined(e)
         \/ HookDone(e) /\ Leave(e, runner, <<>>) /\ UNCHANGED <<holder, lockq>>
  PROVE  TurnInv'
<1> OrderInv
  BY DEF TurnInv
<1>1. /\ Runs(Main(e)) /\ pc[e] \in {"hook", "build", "save", "typing", "join"}
      /\ UNCHANGED <<path, ticket, slot>>
  BY DEF BuildFails, EndProcess, TypingStopped, Joined, HookDone
<1>2. \E v, x, w : /\ \/ Leave(e, runner', v) \/ Finalize(e, runner', v) \/ Conclude(e, runner', v)
                   /\ Leaving(e, x, v, w)
  BY LeaveLeaving
<1>3. PICK v, x, w : /\ \/ Leave(e, runner', v) \/ Finalize(e, runner', v) \/ Conclude(e, runner', v)
                     /\ Leaving(e, x, v, w)
  BY <1>2
<1>4. OrderMove(e) /\ (Holds(e) => Holds(e)' \/ SlotMove(e))
  BY <1>1, <1>3, LeaveMove
<1>5. /\ Schedule(w) /\ Fresh(w) /\ x \in {"typing", "join", "done"} /\ pc' = [pc EXCEPT ![e] = x]
      /\ \/ UNCHANGED <<order, cwait>>
         \/ cwait' = <<>> /\ \A f \in Event : In(f, cwait) => In(Main(f), w)
  BY <1>3 DEF Leaving
<1>6. pc'[e] # "turn" /\ \A f \in Event \ {e} : pc'[f] = pc[f]
  BY <1>5 DEF OrderInv, TaskInv, Types
<1>7. QED BY <1>1, <1>4, <1>5, <1>6, TurnKept

LEMMA ConsumedTurn ==
  ASSUME TurnInv, OrderInv', NEW e \in Event, PreparedConsumed(e)
  PROVE  TurnInv'
<1> OrderInv
  BY DEF TurnInv
<1>1. /\ Runs(Main(e)) /\ pc[e] = "resolve" /\ ticket[e] = "consumed" /\ UNCHANGED <<ticket, slot, runner>>
      /\ path' = [path EXCEPT ![e] = "consumed"]
      /\ Settle(MarkConsumed(order, slot[e].seq, runner))
  BY DEF PreparedConsumed
<1>2. SlotMove(e)
  BY <1>1, MarkMove
<1>3. PICK x, w : Leaving(e, x, <<>>, w)
  BY ConsumedLeaves DEF OrderInv
<1>4. /\ Schedule(w) /\ Fresh(w) /\ x \in {"typing", "join", "done"} /\ pc' = [pc EXCEPT ![e] = x]
      /\ \/ UNCHANGED <<order, cwait>>
         \/ cwait' = <<>> /\ \A f \in Event : In(f, cwait) => In(Main(f), w)
  BY <1>3 DEF Leaving
<1>5. pc'[e] # "turn" /\ \A f \in Event \ {e} : pc'[f] = pc[f] /\ path'[f] = path[f]
  BY <1>1, <1>4 DEF OrderInv, TaskInv, Types
<1>6. OrderMove(e)
  BY <1>2 DEF OrderMove
<1>7. QED BY <1>1, <1>2, <1>4, <1>5, <1>6, TurnKept

LEMMA MonitorTurn ==
  ASSUME TurnInv, OrderInv', NEW e \in Event, MonitorStarts(e) \/ MonitorResolved(e) \/ MonitorCancelled(e)
  PROVE  TurnInv'
<1> OrderInv
  BY DEF TurnInv
<1>1. Runs(Mon(e)) /\ UNCHANGED <<pc, path, slot>> /\ Mon(e) # Main(e)
  BY TaskNames DEF MonitorStarts, MonitorResolved, MonitorCancelled
<1>2. \E w : /\ Fresh(w) /\ Schedule(w)
             /\ \/ UNCHANGED <<order, cwait>>
                \/ cwait' = <<>> /\ \A f \in Event : In(f, cwait) => In(Main(f), w)
  <2>1. CASE MonitorCancelled(e)
    <3>1. pc[e] = "join" /\ mon[e] = "cancelled"
      BY <2>1 DEF MonitorCancelled, OrderInv, TaskInv, Local
    <3>2. ~InReady(Main(e)) /\ Main(e) \in Task
      BY <3>1, TaskNames DEF OrderInv, TaskInv, ReadyOK, Waking
    <3>3. Fresh(<<Main(e)>>)
      BY <3>2, FreshOne
    <3>4. QED BY <2>1, <3>3 DEF MonitorCancelled
  <2>2. CASE MonitorStarts(e)
    BY <2>2, FreshEmpty DEF MonitorStarts
  <2>3. CASE MonitorResolved(e) /\ ticket[e] = "consumed"
    <3>1. Settle(MarkConsumed(order, slot[e].seq, runner)) /\ Schedule(Notified)
      BY <2>3 DEF MonitorResolved
    <3>2. Fresh(Notified) /\ (order # NoOrder => \A f \in Event : In(f, cwait) => In(Main(f), Notified))
      BY NotifiedFresh DEF OrderInv
    <3>3. \/ UNCHANGED <<order, cwait>>
          \/ cwait' = <<>> /\ \A f \in Event : In(f, cwait) => In(Main(f), Notified)
      BY <3>1, <3>2 DEF Settle
    <3>4. QED BY <3>1, <3>2, <3>3
  <2>4. CASE MonitorResolved(e) /\ ticket[e] # "consumed"
    BY <2>4, FreshEmpty DEF MonitorResolved
  <2>5. QED BY <2>1, <2>2, <2>3, <2>4
<1>3. PICK w : /\ Fresh(w) /\ Schedule(w)
               /\ \/ UNCHANGED <<order, cwait>>
                  \/ cwait' = <<>> /\ \A f \in Event : In(f, cwait) => In(Main(f), w)
  BY <1>2
<1>4. Holds(e) => Holds(e)'
  BY <1>1 DEF Holds
<1>5. OrderMove(e)
  BY MonitorMove
<1>6. QED BY <1>1, <1>3, <1>4, <1>5, TurnKept

\* A new capture gets the last number, and the turn if nobody has it.
LEMMA CaptureTurn ==
  ASSUME TurnInv, OrderInv', NEW e \in Event, Capture(e)
  PROVE  TurnInv'
<1> OrderInv
  BY DEF TurnInv
<1>1. PICK o : /\ Good(o) /\ o.gen # 0 /\ order' = Allocate(o)
               /\ slot' = [slot EXCEPT ![e] = [gen |-> o.gen, seq |-> o.next_order]]
               /\ order.gen # 0 => o = order
               /\ order.gen = 0 => o = NewOrder /\ \A s : ~Live(o, s)
  BY CapturedSlot
<1>2. /\ Good(order') /\ order'.gen = o.gen /\ order'.next_order = o.next_order + 1
      /\ order'.next_turn = o.next_turn
      /\ \A t : Live(order', t) <=> Live(o, t) \/ t = o.next_order
  BY <1>1, AllocateIs
<1>3. /\ o.next_order \in Nat /\ o.next_turn \in Nat /\ o.next_turn <= o.next_order
      /\ slot \in [Event -> [gen : Nat, seq : Nat]]
      /\ pc \in [Event -> IO \cup Blocked \cup {"done"}]
      /\ path \in [Event -> {"none", "captured", "consumed", "activated"}]
  BY <1>1 DEF Good, OrderInv, TaskInv, Types
<1>4. /\ pc[e] = "new" /\ pc' = [pc EXCEPT ![e] = "resolve"] /\ path' = [path EXCEPT ![e] = "captured"]
      /\ cwait' = cwait /\ Runs(Main(e)) /\ Schedule(<<Mon(e)>>) /\ ~Captured(e)
  <2>1. pc[e] = "new"
    BY DEF Capture
  <2>2. path[e] = "none"
    BY <1>3, <2>1 DEF OrderInv, TaskInv, Local
  <2>3. QED BY <2>1, <2>2 DEF Capture, Captured
<1>5. /\ pc'[e] = "resolve" /\ path'[e] = "captured" /\ slot'[e] = [gen |-> o.gen, seq |-> o.next_order]
      /\ \A f \in Event \ {e} : pc'[f] = pc[f] /\ path'[f] = path[f] /\ slot'[f] = slot[f]
  BY <1>1, <1>3, <1>4
<1>6. Tight(o)
  <2>1. CASE order.gen = 0
    BY <1>1, <2>1 DEF NewOrder, Tight, Contiguous
  <2>2. CASE order.gen # 0
    BY <1>1, <2>2 DEF TurnInv
  <2>3. QED BY <2>1, <2>2
<1>7. Tight(order')
  <2>1. ASSUME NEW s \in Nat, o.next_turn <= s, s < o.next_order + 1 PROVE s \in DOMAIN order'.statuses
    <3>1. CASE s = o.next_order
      BY <1>2, <3>1 DEF Live
    <3>2. CASE s # o.next_order
      <4>1. s \in DOMAIN o.statuses
        <5>1. s < o.next_order
          BY <1>3, <2>1, <3>2
        <5>2. QED BY <1>6, <2>1, <5>1 DEF Tight, Contiguous
      <4>2. QED BY <1>1, <4>1 DEF Allocate, Good
    <3>3. QED BY <3>1, <3>2
  <2>2. Live(order', o.next_turn)
    <3>1. CASE o.next_turn = o.next_order
      BY <1>2, <3>1
    <3>2. CASE o.next_turn # o.next_order
      <4>1. o.next_turn < o.next_order
        BY <1>3, <3>2
      <4>2. QED BY <1>2, <1>6, <4>1 DEF Tight
    <3>3. QED BY <3>1, <3>2
  <2>3. QED BY <1>2, <2>1, <2>2 DEF Tight, Contiguous
<1>8. Owned'
  <2>1. ASSUME NEW s, Live(order', s)
        PROVE  \E f \in Event : Holds(f)' /\ slot'[f] = [gen |-> order'.gen, seq |-> s]
    <3>1. CASE s = o.next_order
      <4>1. Holds(e)'
        BY <1>5 DEF Holds
      <4>2. QED BY <1>2, <1>5, <3>1, <4>1
    <3>2. CASE s # o.next_order
      <4>1. Live(o, s) /\ o = order
        BY <1>1, <1>2, <2>1, <3>2
      <4>2. PICK f \in Event : Holds(f) /\ slot[f] = [gen |-> order.gen, seq |-> s]
        BY <4>1 DEF TurnInv, Owned
      <4>3. f # e
        BY <1>4, <4>2 DEF Holds, Captured
      <4>4. Holds(f)'
        BY <1>5, <4>2, <4>3 DEF Holds
      <4>5. QED BY <1>2, <1>5, <4>1, <4>2, <4>3, <4>4
    <3>3. QED BY <3>1, <3>2
  <2>2. QED BY <2>1 DEF Owned
<1>9. ASSUME NEW f \in Event PROVE TurnOK(f)'
  <2>1. CASE f = e
    <3>1. ~In(e, cwait)
      BY <1>4 DEF OrderInv, TaskInv, CwaitOK
    <3>2. QED BY <1>4, <1>5, <2>1, <3>1 DEF TurnOK
  <2>2. CASE f # e
    <3>1. In(f, cwait) => order'.next_turn = order.next_turn
      <4>1. ASSUME In(f, cwait) PROVE order.gen # 0
        <5>1. Unsettled(f)
          BY <4>1 DEF OrderInv, TaskInv, CwaitOK, Local, Captured, Unsettled
        <5>2. QED BY <5>1 DEF OrderInv, SlotOK, Unsettled
      <4>2. QED BY <1>1, <1>2, <4>1
    <3>2. InReady(Main(f)) => InReady(Main(f))'
      <4>1. Mon(e) \in Task /\ ~InReady(Mon(e)) /\ Main(f) # Main(e)
        BY <1>4, <2>2, TaskNames DEF OrderInv, TaskInv, ReadyOK, Local
      <4>2. Fresh(<<Mon(e)>>)
        BY <4>1, FreshOne
      <4>3. \A x : InReady(x)' <=> (InReady(x) /\ x # Main(e)) \/ In(x, <<Mon(e)>>)
        BY <1>4, <4>2, ScheduleReady DEF Runs, OrderInv, TaskInv, Types, ReadyOK
      <4>4. QED BY <4>1, <4>3
    <3>3. TurnOK(f)
      BY DEF TurnInv
    <3>4. QED BY <1>4, <1>5, <2>2, <3>1, <3>2, <3>3 DEF TurnOK
  <2>3. QED BY <2>1, <2>2
<1>10. QED BY <1>7, <1>8, <1>9 DEF TurnInv

LEMMA OutsideTurn ==
  ASSUME TurnInv, OrderInv', NEW e \in Event, IOReady(e) \/ Stop(e)
  PROVE  TurnInv'
<1>1. UNCHANGED <<pc, path, order, slot, cwait>>
  BY DEF IOReady, Stop
<1>2. \A x : InReady(x) => InReady(x)'
  <2>1. CASE IOReady(e)
    <3>1. Main(e) \in Task /\ ~InReady(Main(e)) /\ ready' = Append(ready, Main(e))
      BY <2>1, TaskNames DEF IOReady
    <3>2. QED BY <3>1, AppendReady DEF TurnInv, OrderInv, TaskInv, Types, ReadyOK
  <2>2. CASE Stop(e)
    BY <2>2 DEF Stop, InReady
  <2>3. QED BY <2>1, <2>2
<1>3. \A f \in Event : Main(f)' = Main(f)
  BY DEF Main
<1>4. \A f \in Event : TurnOK(f)'
  BY <1>1, <1>2 DEF TurnInv, TurnOK
<1>5. Owned'
  BY <1>1 DEF TurnInv, Owned, Holds
<1>6. Tight(order')
  BY <1>1 DEF TurnInv
<1>7. QED BY <1>4, <1>5, <1>6 DEF TurnInv

\* No wake-up is lost: a message that waits for its turn always has an earlier one
\* before it that is still in `process` and holds the turn, whatever is consumed,
\* stops or fails and however often the state is dropped and made again.
THEOREM TurnNotLost == Spec => []TurnIsHeld
<1>1. Init => TurnInv
  <2>1. SUFFICES ASSUME Init PROVE TurnInv
    OBVIOUS
  <2>2. OrderInv
    BY <2>1, OrderInit
  <2>3. order = NoOrder /\ DOMAIN <<>> = {} /\ cwait = <<>> /\ \A e \in Event : pc[e] = "new"
    BY <2>1 DEF Init
  <2>4. Tight(order) /\ Owned
    BY <2>3 DEF Tight, Contiguous, NoOrder, Owned, Live
  <2>5. \A e \in Event : TurnOK(e)
    BY <2>3, FreshEmpty DEF TurnOK
  <2>6. QED BY <2>2, <2>4, <2>5 DEF TurnInv
<1>2. TurnInv /\ [Next]_vars => TurnInv'
  <2>1. SUFFICES ASSUME TurnInv, [Next]_vars PROVE TurnInv'
    OBVIOUS
  <2>2. OrderInv'
    BY <2>1, OrderStep DEF TurnInv
  <2>3. CASE UNCHANGED vars
    BY <2>1, <2>2, <2>3 DEF vars, TurnInv, Owned, Holds, TurnOK, InReady
  <2>4. ASSUME NEW e \in Event, HookDone(e) PROVE TurnInv'
    <3>1. CASE EnterLock(e) /\ Schedule(<<>>) /\ UNCHANGED <<mon, order, cwait>>
      BY <2>1, <2>2, <2>4, <3>1, PlainTurn
    <3>2. CASE Leave(e, runner, <<>>) /\ UNCHANGED <<holder, lockq>>
      BY <2>1, <2>2, <2>4, <3>2, LeavesTurn
    <3>3. QED BY <2>4, <3>1, <3>2 DEF HookDone
  <2>5. ASSUME NEW e \in Event, IOReady(e) \/ Step(e) \/ Stop(e) PROVE TurnInv'
    BY <2>1, <2>2, <2>4, <2>5, PlainTurn, AwaitsTurn, LeavesTurn, ConsumedTurn, MonitorTurn, CaptureTurn,
       OutsideTurn DEF Step
  <2>6. QED BY <2>1, <2>3, <2>5 DEF Next
<1>3. ASSUME TurnInv PROVE TurnIsHeld
  <2>1. SUFFICES ASSUME NEW e \in Event, pc[e] = "turn", ~InReady(Main(e))
                 PROVE  \E f \in Event : HoldsTurn(f) /\ Earlier(f, e)
    BY DEF TurnIsHeld
  <2>2. order.next_turn # slot[e].seq
    BY <1>3, <2>1 DEF TurnInv, TurnOK
  <2>3. Unsettled(e)
    BY <1>3, <2>1 DEF TurnInv, OrderInv, TaskInv, Local, Captured, Unsettled
  <2>4. slot[e].gen = order.gen /\ slot[e].seq \in DOMAIN order.statuses /\ Good(order)
    BY <1>3, <2>3 DEF TurnInv, OrderInv, SlotOK, Live
  <2>5. /\ order.next_turn \in Nat /\ order.next_order \in Nat /\ slot[e].seq \in Nat
        /\ order.next_turn < slot[e].seq /\ slot[e].seq < order.next_order
    BY <2>2, <2>4 DEF Good
  <2>6. Live(order, order.next_turn)
    BY <1>3, <2>5 DEF TurnInv, Tight
  <2>7. PICK f \in Event : Holds(f) /\ slot[f] = [gen |-> order.gen, seq |-> order.next_turn]
    BY <1>3, <2>6 DEF TurnInv, Owned
  <2>8. HoldsTurn(f)
    BY <2>7 DEF HoldsTurn, Holds, Captured
  <2>9. Earlier(f, e)
    BY <2>4, <2>5, <2>7 DEF Earlier
  <2>10. QED BY <2>8, <2>9
<1>4. QED BY <1>1, <1>2, <1>3, PTL DEF Spec

-----------------------------------------------------------------------------
(* Whoever holds tickets goes on to resolve them, or its run has failed *)

Held(e) ==
  /\ pending[e] # <<>> => phase[e] = "running" \/ pc[e] = "closing"
  /\ pc[e] = "run" => phase[e] = "running"
  /\ pc[e] = "closing" => phase[e] = "ended"
  /\ ticket[e] = "open" => \E r \in Event : In(e, pending[r])

HeldInv == OrderInv /\ \A e \in Event : Held(e)

\* A step that resolves nothing, of a task that is not in its run.
LEMMA HeldStays ==
  ASSUME HeldInv, OrderInv', NEW e \in Event, UNCHANGED <<phase, pending, ticket>>,
         \/ pc' = pc
         \/ /\ pc[e] \notin {"run", "closing"}
            /\ \E x : pc' = [pc EXCEPT ![e] = x] /\ x \notin {"run", "closing"}
  PROVE  HeldInv'
<1>1. ASSUME NEW f \in Event PROVE Held(f)'
  <2>1. pc'[f] = pc[f] \/ (pc[f] \notin {"run", "closing"} /\ pc'[f] \notin {"run", "closing"})
    <3>1. pc \in [Event -> IO \cup Blocked \cup {"done"}]
      BY DEF HeldInv, OrderInv, TaskInv, Types
    <3>2. ASSUME pc[e] \notin {"run", "closing"}, NEW x, pc' = [pc EXCEPT ![e] = x],
                 x \notin {"run", "closing"}
          PROVE  pc'[f] = pc[f] \/ (pc[f] \notin {"run", "closing"} /\ pc'[f] \notin {"run", "closing"})
      BY <3>1, <3>2
    <3>3. QED BY <3>2
  <2>2. QED BY <2>1 DEF HeldInv, Held
<1>2. QED BY <1>1 DEF HeldInv

LEMMA HeldQuiet ==
  ASSUME HeldInv, OrderInv', NEW e \in Event,
         \/ IOReady(e) \/ Stop(e) \/ Begin(e) \/ PreparedConsumed(e) \/ PreparedUnconsumed(e)
         \/ TurnNotified(e) \/ HookDone(e) \/ LockGranted(e) \/ BuildFails(e) \/ EndProcess(e)
         \/ TypingStopped(e) \/ Joined(e)
         \/ MonitorStarts(e) \/ MonitorResolved(e) \/ MonitorCancelled(e)
  PROVE  HeldInv'
<1>1. UNCHANGED <<phase, pending, ticket>>
  BY DEF IOReady, Stop, Begin, PreparedConsumed, PreparedUnconsumed, TurnNotified, HookDone, LockGranted,
         BuildFails, EndProcess, TypingStopped, Joined, MonitorStarts, MonitorResolved, MonitorCancelled
<1>2. CASE IOReady(e) \/ Stop(e) \/ MonitorStarts(e) \/ MonitorResolved(e) \/ MonitorCancelled(e)
  <2>1. pc' = pc
    BY <1>2 DEF IOReady, Stop, MonitorStarts, MonitorResolved, MonitorCancelled
  <2>2. QED BY <1>1, <2>1, HeldStays
<1>3. CASE \/ Begin(e) \/ PreparedConsumed(e) \/ PreparedUnconsumed(e) \/ TurnNotified(e) \/ HookDone(e)
           \/ LockGranted(e) \/ BuildFails(e) \/ EndProcess(e) \/ TypingStopped(e) \/ Joined(e)
  <2>1. pc[e] \notin {"run", "closing"}
    BY <1>3 DEF Begin, PreparedConsumed, PreparedUnconsumed, TurnNotified, HookDone, LockGranted,
                BuildFails, EndProcess, TypingStopped, Joined
  <2>2. \E x \in {"hook", "build", "lock", "turn", "join", "done", "typing"} : pc' = [pc EXCEPT ![e] = x]
    BY <1>3 DEF Begin, PreparedConsumed, PreparedUnconsumed, TurnNotified, HookDone, LockGranted,
                BuildFails, EndProcess, TypingStopped, Joined, Proceed, EnterLock, AwaitTurn,
                Leave, Finalize, Conclude, CancelMonitor
  <2>3. \E x : pc' = [pc EXCEPT ![e] = x] /\ x \notin {"run", "closing"}
    BY <2>2
  <2>4. QED BY <1>1, <2>1, <2>3, HeldStays
<1>4. QED BY <1>2, <1>3

LEMMA HeldRuns ==
  ASSUME HeldInv, OrderInv', NEW e \in Event, RegisterRunner(e) \/ EndRun(e) \/ FailRun(e)
  PROVE  HeldInv'
<1>1. /\ UNCHANGED <<pending, ticket>>
      /\ \/ /\ pc[e] = "build" /\ pc' = [pc EXCEPT ![e] = "run"] /\ phase' = [phase EXCEPT ![e] = "running"]
         \/ /\ pc[e] = "run" /\ pc' = [pc EXCEPT ![e] = "closing"] /\ phase' = [phase EXCEPT ![e] = "ended"]
         \/ /\ pc[e] = "run" /\ pc' = [pc EXCEPT ![e] = "save"] /\ phase' = phase
  BY DEF RegisterRunner, EndRun, FailRun
<1>2. /\ pc \in [Event -> IO \cup Blocked \cup {"done"}] /\ phase \in [Event -> {"none", "running", "ended"}]
  BY DEF HeldInv, OrderInv, TaskInv, Types
<1>3. /\ \/ pc'[e] = "run" /\ phase'[e] = "running"
         \/ pc'[e] = "closing" /\ phase'[e] = "ended"
         \/ pc'[e] = "save" /\ phase'[e] = "running"
      /\ \A f \in Event \ {e} : pc'[f] = pc[f] /\ phase'[f] = phase[f]
  BY <1>1, <1>2 DEF HeldInv, Held
<1>4. ASSUME NEW f \in Event PROVE Held(f)'
  <2>1. CASE f = e
    BY <1>1, <1>3, <2>1 DEF HeldInv, Held
  <2>2. CASE f # e
    BY <1>1, <1>3, <2>2 DEF HeldInv, Held
  <2>3. QED BY <2>1, <2>2
<1>5. QED BY <1>4 DEF HeldInv

LEMMA HeldCapture ==
  ASSUME HeldInv, OrderInv', NEW e \in Event, Capture(e)
  PROVE  HeldInv'
<1>1. /\ pc[e] = "new" /\ pc' = [pc EXCEPT ![e] = "resolve"] /\ phase' = phase
      /\ ticket' = [ticket EXCEPT ![e] = "open"] /\ runner \in Event /\ phase[runner] = "running"
      /\ pending' = [pending EXCEPT ![runner] = Append(@, e)]
  BY DEF Capture, CanCapture, HeldInv, OrderInv, TaskInv, Types
<1>2. /\ pc'[e] = "resolve" /\ ticket'[e] = "open"
      /\ \A f \in Event \ {e} : pc'[f] = pc[f] /\ ticket'[f] = ticket[f]
      /\ \A r \in Event : pending[r] \in Seq(Event)
      /\ \A r \in Event : pending'[r] = IF r = runner THEN Append(pending[r], e) ELSE pending[r]
  BY <1>1 DEF HeldInv, OrderInv, TaskInv, Types
<1>3. ASSUME NEW r \in Event PROVE \A f : In(f, pending[r]) \/ (f = e /\ r = runner) => In(f, pending'[r])
  <2>1. \A f : In(f, Append(pending[r], e)) <=> In(f, pending[r]) \/ f = e
    BY <1>2, InAppend
  <2>2. CASE r = runner
    <3>1. pending'[r] = Append(pending[r], e)
      BY <1>2, <2>2
    <3>2. QED BY <2>1, <3>1
  <2>3. CASE r # runner
    <3>1. pending'[r] = pending[r]
      BY <1>2, <2>3
    <3>2. QED BY <2>3, <3>1
  <2>4. QED BY <2>2, <2>3
<1>4. ASSUME NEW f \in Event PROVE Held(f)'
  <2>1. ticket'[f] = "open" => \E r \in Event : In(f, pending'[r])
    <3>1. CASE f = e
      BY <1>1, <1>3, <3>1
    <3>2. CASE f # e
      BY <1>2, <1>3, <3>2 DEF HeldInv, Held
    <3>3. QED BY <3>1, <3>2
  <2>2. pending'[f] # <<>> => phase'[f] = "running" \/ pc'[f] = "closing"
    <3>1. CASE f = runner
      BY <1>1, <3>1
    <3>2. CASE f # runner
      BY <1>1, <1>2, <3>2 DEF HeldInv, Held
    <3>3. QED BY <3>1, <3>2
  <2>3. (pc'[f] = "run" => phase'[f] = "running") /\ (pc'[f] = "closing" => phase'[f] = "ended")
    BY <1>1, <1>2 DEF HeldInv, Held
  <2>4. QED BY <2>1, <2>2, <2>3 DEF Held
<1>5. QED BY <1>4 DEF HeldInv

LEMMA HeldResolve ==
  ASSUME HeldInv, OrderInv', NEW e \in Event, ConsumeFollowUps(e) \/ CloseRun(e) \/ ErrorRun(e)
  PROVE  HeldInv'
<1>1. \/ /\ pc[e] = "run" /\ pc' = pc /\ phase' = phase /\ Resolve(e, "consumed")
      \/ /\ pc[e] = "closing" /\ pc' = [pc EXCEPT ![e] = "save"] /\ phase' = phase
         /\ Resolve(e, "unconsumed")
      \/ /\ pc[e] = "run" /\ pc' = [pc EXCEPT ![e] = "save"] /\ phase' = [phase EXCEPT ![e] = "ended"]
         /\ Resolve(e, "unconsumed")
  BY DEF ConsumeFollowUps, CloseRun, ErrorRun
<1>2. PICK res \in {"consumed", "unconsumed"} : Resolve(e, res)
  BY <1>1
<1>3. /\ pc \in [Event -> IO \cup Blocked \cup {"done"}] /\ phase \in [Event -> {"none", "running", "ended"}]
      /\ pending \in [Event -> Seq(Event)]
  BY DEF HeldInv, OrderInv, TaskInv, Types
<1>4. /\ pc'[e] = "run" => phase'[e] = "running"
      /\ pc'[e] # "closing"
      /\ \A f \in Event \ {e} : pc'[f] = pc[f] /\ phase'[f] = phase[f]
  BY <1>1, <1>3 DEF HeldInv, Held
<1>5. \A f \in Event : Contains(pending[e], f) <=> In(f, pending[e])
  <2>1. pending[e] \in Seq(Event)
    BY <1>3
  <2>2. DOMAIN pending[e] = 1 .. Len(pending[e])
    BY <2>1, LenProperties
  <2>3. QED BY <2>2 DEF Contains, In
<1>6. /\ \A r \in Event : pending'[r] = IF r = e THEN <<>> ELSE pending[r]
      /\ \A f \in Event : ticket'[f] = IF In(f, pending[e]) THEN res ELSE ticket[f]
  BY <1>2, <1>3, <1>5 DEF Resolve
<1>7. ASSUME NEW f \in Event PROVE Held(f)'
  <2>1. ticket'[f] = "open" => \E r \in Event : In(f, pending'[r])
    <3>1. SUFFICES ASSUME ticket'[f] = "open" PROVE \E r \in Event : In(f, pending'[r])
      OBVIOUS
    <3>2. ticket[f] = "open" /\ ~In(f, pending[e])
      BY <1>6, <3>1
    <3>3. PICK r \in Event : In(f, pending[r])
      BY <3>2 DEF HeldInv, Held
    <3>4. QED BY <1>6, <3>2, <3>3
  <2>2. pending'[f] # <<>> => phase'[f] = "running" \/ pc'[f] = "closing"
    BY <1>4, <1>6 DEF HeldInv, Held
  <2>3. (pc'[f] = "run" => phase'[f] = "running") /\ (pc'[f] = "closing" => phase'[f] = "ended")
    BY <1>4 DEF HeldInv, Held
  <2>4. QED BY <2>1, <2>2, <2>3 DEF Held
<1>8. QED BY <1>7 DEF HeldInv

\* An unresolved ticket is always in the list of the registered runner, which
\* resolves it when it ends, or of a runner whose run ended without done(): only a
\* run that fails leaves tickets behind.
THEOREM TicketHasRunner == Spec => []OpenTicketHasRunner
<1>1. Init => HeldInv
  <2>1. Init => \A e \in Event : Held(e)
    BY DEF Init, Held
  <2>2. QED BY <2>1, OrderInit DEF HeldInv
<1>2. HeldInv /\ [Next]_vars => HeldInv'
  <2>1. SUFFICES ASSUME HeldInv, [Next]_vars PROVE HeldInv'
    OBVIOUS
  <2>2. OrderInv'
    BY <2>1, OrderStep DEF HeldInv
  <2>3. CASE UNCHANGED vars
    BY <2>1, <2>2, <2>3 DEF vars, HeldInv, Held
  <2>4. ASSUME NEW e \in Event, IOReady(e) \/ Step(e) \/ Stop(e) PROVE HeldInv'
    BY <2>1, <2>2, <2>4, HeldQuiet, HeldRuns, HeldCapture, HeldResolve DEF Step
  <2>5. QED BY <2>1, <2>3, <2>4 DEF Next
<1>3. HeldInv => OpenTicketHasRunner
  <2>1. SUFFICES ASSUME HeldInv, NEW e \in Event, ticket[e] = "open"
                 PROVE  \E f \in Event : Contains(pending[f], e) /\ (runner = f \/ Abandoned(f))
    BY DEF OpenTicketHasRunner
  <2>2. PICK r \in Event : In(e, pending[r])
    BY <2>1 DEF HeldInv, Held
  <2>3. pending[r] \in Seq(Event)
    BY <2>1 DEF HeldInv, OrderInv, TaskInv, Types
  <2>4. DOMAIN pending[r] = 1 .. Len(pending[r])
    BY <2>3, LenProperties
  <2>5. pending[r] # <<>>
    BY <2>2, FreshEmpty
  <2>6. phase[r] = "running" \/ pc[r] = "closing"
    BY <2>1, <2>5 DEF HeldInv, Held
  <2>7. pc[r] \in {"run", "closing"} => runner = r
    BY <2>1 DEF HeldInv, OrderInv, TaskInv, LockOK
  <2>8. Contains(pending[r], e)
    BY <2>2, <2>4 DEF Contains, In
  <2>9. QED BY <2>6, <2>7, <2>8 DEF Abandoned
<1>4. QED BY <1>1, <1>2, <1>3, PTL DEF Spec

-----------------------------------------------------------------------------
(* The refinement of FollowUpQueue *)

\* A capture past its turn holds the head of the order until it is done.
LEMMA ServedIsHead ==
  ASSUME OrderInv, NEW e \in Event, Serving(e)
  PROVE  /\ Unsettled(e) /\ slot[e].gen = order.gen /\ Live(order, slot[e].seq)
         /\ slot[e].seq = order.next_turn
<1>1. Unsettled(e)
  BY DEF Serving, PastTurn, OrderInv, TaskInv, Local, Captured, Unsettled
<1>2. slot[e].gen = order.gen /\ Live(order, slot[e].seq) /\ slot[e].seq <= order.next_turn
  BY <1>1 DEF OrderInv, SlotOK, Serving
<1>3. order.next_turn <= slot[e].seq /\ order.next_turn \in Nat /\ slot[e].seq \in Nat
  BY <1>2 DEF OrderInv, Good, Live
<1>4. QED BY <1>1, <1>2, <1>3

\* Only one is served at a time.
LEMMA OneServed ==
  ASSUME OrderInv, NEW e \in Event, NEW f \in Event, Captured(e), slot[e].gen = order.gen,
         slot[e].seq = order.next_turn, Serving(f)
  PROVE  f = e
<1>1. Captured(f) /\ slot[f].gen = slot[e].gen /\ slot[f].seq = slot[e].seq
  BY ServedIsHead DEF Unsettled
<1>2. QED BY <1>1 DEF OrderInv, OwnSlots

\* A step of e that takes no capture leaves the others where they are in the queue,
\* and e can only leave it.
LEMMA OthersStay ==
  ASSUME OrderInv, NEW e \in Event, OrderMove(e), slot' = slot,
         \A f \in Event : Captured(f)' <=> Captured(f),
         \A f \in Event \ {e} : PastTurn(f)' <=> PastTurn(f),
         PastTurn(e) => PastTurn(e)'
  PROVE  /\ \A f \in Event \ {e} : InQueue(f)' <=> InQueue(f)
         /\ InQueue(e)' => InQueue(e)
<1>1. \A f \in Event : /\ InQueue(f) <=> /\ Captured(f) /\ ~PastTurn(f)
                                         /\ order.gen = slot[f].gen /\ Live(order, slot[f].seq)
                       /\ InQueue(f)' <=> /\ Captured(f)' /\ ~PastTurn(f)'
                                          /\ order'.gen = slot[f].gen /\ Live(order', slot[f].seq)
  BY DEF InQueue, Live
<1>2. CASE order' = order
  BY <1>1, <1>2
<1>3. CASE /\ order.gen # 0 /\ slot[e].gen = order.gen /\ Live(order, slot[e].seq)
           /\ order' = SetStatus(order, slot[e].seq, "active", {})
  <2>1. "active" \in Status /\ Good(order)
    BY DEF Status, OrderInv
  <2>2. /\ order'.gen = order.gen /\ \A t : Live(order, t) => Live(order', t)
    BY <1>3, <2>1, StatusSet
  <2>3. \A t : Live(order', t) => Live(order, t)
    BY <1>3, <2>1, StatusLive
  <2>4. QED BY <1>1, <2>2, <2>3
<1>4. CASE /\ order.gen # 0 /\ slot[e].gen = order.gen /\ Captured(e)
           /\ Handles(order, order', slot[e].seq, runner')
  <2>1. \A f \in Event \ {e} : Captured(f) /\ slot[f].gen = order.gen => slot[f].seq # slot[e].seq
    BY <1>4 DEF OrderInv, OwnSlots
  <2>2. \A f \in Event : Captured(f) => slot[f].gen # 0
    BY DEF OrderInv, SlotOK
  <2>3. CASE order' = NoOrder /\ \A t : Live(order, t) => t = slot[e].seq
    <3>1. order'.gen = 0
      BY <2>3 DEF NoOrder
    <3>2. QED BY <1>1, <2>1, <2>2, <2>3, <3>1
  <2>4. CASE order'.gen = order.gen /\ \A t : Live(order', t) <=> Live(order, t) /\ t # slot[e].seq
    BY <1>1, <2>1, <2>4
  <2>5. QED BY <1>4, <2>3, <2>4 DEF Handles
<1>5. QED BY <1>2, <1>3, <1>4 DEF OrderMove, SlotMove

\* The views of the queue, put together.
LEMMA Stays ==
  ASSUME slot' = slot,
         \A f \in Event : /\ Captured(f)' <=> Captured(f)
                          /\ InQueue(f)' <=> InQueue(f)
                          /\ Serving(f)' <=> Serving(f)
  PROVE  UNCHANGED Abstract!qvars
<1>1. \A f \in Event : Ahead(f)' = Ahead(f)
  BY DEF Ahead
<1>2. QED BY <1>1 DEF Abstract!qvars

LEMMA Leaves ==
  ASSUME NEW e \in Event, slot' = slot, InQueue(e), ~InQueue(e)',
         \A f \in Event : Captured(f)' <=> Captured(f),
         \A f \in Event \ {e} : InQueue(f)' <=> InQueue(f)
  PROVE  Abstract!QLeaveQueue(e)
<1>1. \A f \in Event : Ahead(f)' = IF f = e THEN {} ELSE Ahead(f) \ {e}
  BY DEF Ahead
<1>2. {f \in Event : InQueue(f)}' = {f \in Event : InQueue(f)} \ {e}
  OBVIOUS
<1>3. QED BY <1>1, <1>2 DEF Abstract!QLeaveQueue

\* A step of e is an operation of the queue: e takes its turn, ends its turn, is
\* absorbed, or nothing changes for the queue.
LEMMA MoveMaps ==
  ASSUME OrderInv, NEW e \in Event, OrderMove(e), slot' = slot,
         \A f \in Event : Captured(f)' <=> Captured(f),
         \A f \in Event \ {e} : pc'[f] = pc[f] /\ path'[f] = path[f],
         \/ PastTurn(e)' <=> PastTurn(e)
         \/ /\ PastTurn(e)' /\ ~PastTurn(e) /\ pc'[e] # "done"
            /\ Unsettled(e) /\ order.next_turn = slot[e].seq,
         pc[e] = "done" => pc'[e] = "done"
  PROVE  [Abstract!QNext]_Abstract!qvars
<1>1. \A f \in Event \ {e} : (PastTurn(f)' <=> PastTurn(f)) /\ (Serving(f)' <=> Serving(f))
  BY DEF PastTurn, Serving
<1>2. /\ \A f \in Event \ {e} : InQueue(f)' <=> InQueue(f)
      /\ InQueue(e)' => InQueue(e)
  BY <1>1, OthersStay
<1>3. CASE (PastTurn(e)' <=> PastTurn(e)) /\ (Serving(e)' <=> Serving(e))
  <2>1. CASE InQueue(e)' <=> InQueue(e)
    BY <1>1, <1>2, <1>3, <2>1, Stays
  <2>2. CASE InQueue(e) /\ ~InQueue(e)'
    <3>1. Abstract!QLeaveQueue(e)
      BY <1>2, <2>2, Leaves
    <3>2. {f \in Event : Serving(f)}' = {f \in Event : Serving(f)}
      BY <1>1, <1>3
    <3>3. Abstract!QAbsorb(e)
      BY <3>1, <3>2 DEF Abstract!QAbsorb
    <3>4. QED BY <3>3 DEF Abstract!QNext
  <2>3. QED BY <1>2, <2>1, <2>2
<1>4. CASE (PastTurn(e)' <=> PastTurn(e)) /\ ~(Serving(e)' <=> Serving(e))
  <2>1. PastTurn(e) /\ PastTurn(e)' /\ ~InQueue(e) /\ ~InQueue(e)'
    BY <1>4 DEF Serving, InQueue
  <2>2. \A f \in Event : Ahead(f)' = Ahead(f)
    BY <1>2, <2>1 DEF Ahead
  <2>3. CASE Serving(e) /\ ~Serving(e)'
    <3>1. \A f \in Event : Serving(f) => f = e
      BY <2>3, ServedIsHead, OneServed DEF Unsettled
    <3>2. {f \in Event : Serving(f)}' = {} /\ {f \in Event : Serving(f)} # {}
      BY <1>1, <2>3, <3>1
    <3>3. Abstract!QFinish
      BY <1>2, <2>1, <2>2, <3>2 DEF Abstract!QFinish
    <3>4. QED BY <3>3 DEF Abstract!QNext
  <2>4. CASE ~Serving(e) /\ Serving(e)'
    BY <2>1, <2>4 DEF Serving
  <2>5. QED BY <1>4, <2>3, <2>4
<1>5. CASE /\ PastTurn(e)' /\ ~PastTurn(e) /\ pc'[e] # "done"
           /\ Unsettled(e) /\ order.next_turn = slot[e].seq
  <2>1. Captured(e) /\ slot[e].gen = order.gen /\ Live(order, slot[e].seq)
    BY <1>5 DEF OrderInv, SlotOK, Unsettled
  <2>2. InQueue(e) /\ ~InQueue(e)'
    BY <1>5, <2>1 DEF InQueue, Live
  <2>3. Abstract!QLeaveQueue(e)
    BY <1>2, <2>2, Leaves
  <2>4. Ahead(e) = {}
    <3>1. ASSUME NEW f \in Event, InQueue(f), slot[f].seq < slot[e].seq PROVE FALSE
      <4>1. order.next_turn <= slot[f].seq /\ order.next_turn \in Nat /\ slot[f].seq \in Nat
        BY <3>1 DEF InQueue, OrderInv, Good
      <4>2. QED BY <1>5, <3>1, <4>1
    <3>2. QED BY <3>1 DEF Ahead
  <2>5. {f \in Event : Serving(f)} = {} /\ {f \in Event : Serving(f)}' = {e}
    <3>1. \A f \in Event : ~Serving(f)
      BY <1>5, <2>1, OneServed DEF Serving
    <3>2. Serving(e)'
      BY <1>5 DEF Serving
    <3>3. QED BY <1>1, <3>1, <3>2
  <2>6. Abstract!QServe(e)
    BY <2>3, <2>4, <2>5 DEF Abstract!QServe
  <2>7. QED BY <2>6 DEF Abstract!QNext
<1>6. QED BY <1>3, <1>4, <1>5

-----------------------------------------------------------------------------
(* Each action maps to an operation of the queue or to a stutter *)

LEMMA PlainMaps ==
  ASSUME OrderInv, NEW e \in Event,
         \/ Begin(e) \/ LockGranted(e) \/ RegisterRunner(e) \/ EndRun(e) \/ FailRun(e)
         \/ ConsumeFollowUps(e) \/ CloseRun(e) \/ ErrorRun(e)
         \/ HookDone(e) /\ EnterLock(e) /\ UNCHANGED <<mon, order, cwait>>
  PROVE  [Abstract!QNext]_Abstract!qvars
<1>1. /\ UNCHANGED <<path, slot, order>>
      /\ pc[e] \in {"new", "hook", "lock", "build", "run", "closing"}
      /\ \E x \in {"hook", "build", "lock", "run", "closing", "save"} : pc' = [pc EXCEPT ![e] = x]
  <2>1. ConsumeFollowUps(e) => pc' = [pc EXCEPT ![e] = "run"]
    BY DEF ConsumeFollowUps, OrderInv, TaskInv, Types
  <2>2. QED BY <2>1 DEF Begin, LockGranted, RegisterRunner, EndRun, FailRun, HookDone, ConsumeFollowUps,
               CloseRun, ErrorRun, Proceed, EnterLock
<1>2. pc'[e] \notin {"resolve", "turn", "done"} /\ \A f \in Event \ {e} : pc'[f] = pc[f]
  BY <1>1 DEF OrderInv, TaskInv, Types
<1>3. (PastTurn(e)' <=> PastTurn(e)) /\ \A f \in Event : Captured(f)' <=> Captured(f)
  BY <1>1, <1>2 DEF PastTurn, Captured
<1>4. QED BY <1>1, <1>2, <1>3, MoveMaps DEF OrderMove

\* A capture that sees that it is the head is served.
LEMMA TurnMaps ==
  ASSUME OrderInv, NEW e \in Event, PreparedUnconsumed(e) \/ TurnNotified(e)
  PROVE  [Abstract!QNext]_Abstract!qvars
<1>1. /\ slot' = slot /\ Unsettled(e) /\ OrderMove(e) /\ pc[e] \in {"resolve", "turn"}
      /\ \/ pc' = [pc EXCEPT ![e] = "turn"] /\ pc'[e] = "turn"
         \/ order.next_turn = slot[e].seq /\ Proceed(e)
  <2>1. CASE PreparedUnconsumed(e)
    BY <2>1, ActivatedMove DEF PreparedUnconsumed
  <2>2. CASE TurnNotified(e)
    <3>1. /\ AwaitTurn(e) /\ UNCHANGED <<order, slot>> /\ pc[e] = "turn"
      BY <2>2 DEF TurnNotified
    <3>2. Unsettled(e)
      BY <3>1 DEF OrderInv, TaskInv, Local, Captured, Unsettled
    <3>3. QED BY <3>1, <3>2, TurnTaken DEF OrderMove
  <2>3. QED BY <2>1, <2>2
<1>2. path'[e] = "activated" /\ path[e] # "none" /\ \A f \in Event \ {e} : path'[f] = path[f]
  <2>1. path' = [path EXCEPT ![e] = "activated"] \/ (path' = path /\ path[e] = "activated")
    BY DEF PreparedUnconsumed, TurnNotified, OrderInv, TaskInv, Local
  <2>2. Captured(e)
    BY <1>1 DEF Unsettled
  <2>3. QED BY <2>1, <2>2 DEF Captured, OrderInv, TaskInv, Types
<1>3. \E x \in {"hook", "build", "lock", "turn"} : pc' = [pc EXCEPT ![e] = x]
  BY <1>1 DEF Proceed, EnterLock
<1>4. pc'[e] # "done" /\ pc'[e] # "resolve" /\ \A f \in Event \ {e} : pc'[f] = pc[f]
  BY <1>3 DEF OrderInv, TaskInv, Types
<1>5. \A f \in Event : Captured(f)' <=> Captured(f)
  BY <1>2 DEF Captured
<1>6. ~PastTurn(e)
  BY <1>1 DEF PastTurn
<1>7. CASE pc'[e] = "turn"
  <2>1. ~PastTurn(e)'
    BY <1>7 DEF PastTurn
  <2>2. QED BY <1>1, <1>2, <1>4, <1>5, <1>6, <2>1, MoveMaps
<1>8. CASE pc'[e] # "turn" /\ order.next_turn = slot[e].seq
  <2>1. PastTurn(e)'
    BY <1>2, <1>4, <1>8 DEF PastTurn
  <2>2. QED BY <1>1, <1>2, <1>4, <1>5, <1>6, <1>8, <2>1, MoveMaps
<1>9. QED BY <1>1, <1>7, <1>8

LEMMA MarkMaps ==
  ASSUME OrderInv, NEW e \in Event,
         PreparedConsumed(e) \/ MonitorStarts(e) \/ MonitorResolved(e) \/ MonitorCancelled(e)
  PROVE  [Abstract!QNext]_Abstract!qvars
<1>1. CASE PreparedConsumed(e)
  <2>1. /\ Runs(Main(e)) /\ pc[e] = "resolve" /\ ticket[e] = "consumed" /\ UNCHANGED <<ticket, slot, runner>>
        /\ path' = [path EXCEPT ![e] = "consumed"]
        /\ Settle(MarkConsumed(order, slot[e].seq, runner))
    BY <1>1 DEF PreparedConsumed
  <2>2. OrderMove(e)
    BY <2>1, MarkMove DEF OrderMove
  <2>3. path[e] = "captured" /\ path'[e] = "consumed" /\ \A f \in Event \ {e} : path'[f] = path[f]
    BY <2>1 DEF OrderInv, TaskInv, Types, Local
  <2>4. \A f \in Event \ {e} : pc'[f] = pc[f]
    BY <1>1 DEF PreparedConsumed, CancelMonitor, OrderInv, TaskInv, Types
  <2>5. (\A f \in Event : Captured(f)' <=> Captured(f)) /\ ~PastTurn(e) /\ ~PastTurn(e)'
    BY <2>3 DEF Captured, PastTurn
  <2>6. QED BY <2>1, <2>2, <2>3, <2>4, <2>5, MoveMaps
<1>2. CASE MonitorStarts(e) \/ MonitorResolved(e) \/ MonitorCancelled(e)
  <2>1. UNCHANGED <<pc, path, slot>>
    BY <1>2 DEF MonitorStarts, MonitorResolved, MonitorCancelled
  <2>2. (\A f \in Event : Captured(f)' <=> Captured(f)) /\ (PastTurn(e)' <=> PastTurn(e))
    BY <2>1 DEF Captured, PastTurn
  <2>3. QED BY <1>2, <2>1, <2>2, MonitorMove, MoveMaps
<1>3. QED BY <1>1, <1>2

LEMMA LeaveMaps ==
  ASSUME OrderInv, NEW e \in Event,
         \/ BuildFails(e) \/ EndProcess(e) \/ TypingStopped(e) \/ Joined(e)
         \/ HookDone(e) /\ Leave(e, runner, <<>>) /\ UNCHANGED <<holder, lockq>>
  PROVE  [Abstract!QNext]_Abstract!qvars
<1>1. /\ pc[e] \in {"hook", "build", "save", "typing", "join"} /\ UNCHANGED <<path, ticket, slot>>
      /\ \E v : Leave(e, runner', v) \/ Finalize(e, runner', v) \/ Conclude(e, runner', v)
  BY DEF BuildFails, EndProcess, TypingStopped, Joined, HookDone
<1>2. PICK v : Leave(e, runner', v) \/ Finalize(e, runner', v) \/ Conclude(e, runner', v)
  BY <1>1
<1>3. OrderMove(e)
  BY <1>1, <1>2, LeaveMove
<1>4. \E x \in {"typing", "join", "done"} : pc' = [pc EXCEPT ![e] = x]
  BY <1>2 DEF Leave, Finalize, CancelMonitor, Conclude
<1>5. pc'[e] \in {"typing", "join", "done"} /\ \A f \in Event \ {e} : pc'[f] = pc[f]
  BY <1>4 DEF OrderInv, TaskInv, Types
<1>6. (\A f \in Event : Captured(f)' <=> Captured(f)) /\ (PastTurn(e)' <=> PastTurn(e))
  BY <1>1, <1>5 DEF Captured, PastTurn
<1>7. QED BY <1>1, <1>3, <1>5, <1>6, MoveMaps

\* A capture joins the queue behind all that wait.
LEMMA CaptureMaps ==
  ASSUME OrderInv, NEW e \in Event, Capture(e)
  PROVE  Abstract!QCapture(e)
<1>1. PICK o : /\ Good(o) /\ o.gen # 0 /\ order' = Allocate(o)
               /\ slot' = [slot EXCEPT ![e] = [gen |-> o.gen, seq |-> o.next_order]]
               /\ order.gen # 0 => o = order
               /\ order.gen = 0 => \A s : ~Live(o, s)
               /\ \A f \in Event : Captured(f) /\ slot[f].gen = o.gen => slot[f].seq < o.next_order
  BY CapturedSlot
<1>2. order'.gen = o.gen /\ \A t : Live(order', t) <=> Live(o, t) \/ t = o.next_order
  BY <1>1, AllocateIs
<1>3. /\ o.next_order \in Nat /\ slot \in [Event -> [gen : Nat, seq : Nat]]
      /\ pc \in [Event -> IO \cup Blocked \cup {"done"}]
      /\ path \in [Event -> {"none", "captured", "consumed", "activated"}]
  BY <1>1 DEF Good, OrderInv, TaskInv, Types
<1>4. /\ slot'[e].gen = o.gen /\ slot'[e].seq = o.next_order
      /\ \A f \in Event \ {e} : slot'[f] = slot[f]
  BY <1>1, <1>3
<1>5. /\ pc[e] = "new" /\ path'[e] = "captured" /\ pc'[e] = "resolve"
      /\ \A f \in Event \ {e} : path'[f] = path[f] /\ pc'[f] = pc[f]
  BY <1>3 DEF Capture
<1>6. ~Captured(e) /\ Captured(e)' /\ ~PastTurn(e)'
  BY <1>5 DEF Captured, PastTurn, OrderInv, TaskInv, Types, Local
<1>7. \A f \in Event \ {e} : /\ Captured(f)' <=> Captured(f)
                             /\ PastTurn(f)' <=> PastTurn(f)
                             /\ Serving(f)' <=> Serving(f)
  BY <1>5 DEF Captured, PastTurn, Serving
<1>8. /\ \A f \in Event : InQueue(f) <=> /\ Captured(f) /\ ~PastTurn(f)
                                         /\ order.gen = slot[f].gen /\ Live(order, slot[f].seq)
      /\ \A f \in Event : InQueue(f)' <=> /\ Captured(f)' /\ ~PastTurn(f)'
                                          /\ order'.gen = slot'[f].gen /\ Live(order', slot'[f].seq)
  BY DEF InQueue, Live
<1>9. InQueue(e)' /\ ~InQueue(e)
  BY <1>2, <1>4, <1>6, <1>8
<1>10. ASSUME NEW f \in Event, f # e PROVE InQueue(f)' <=> InQueue(f)
  <2>1. slot'[f] = slot[f] /\ slot[f].seq \in Nat /\ (Captured(f)' <=> Captured(f))
        /\ (PastTurn(f)' <=> PastTurn(f))
    BY <1>3, <1>4, <1>7, <1>10
  <2>2. Captured(f) /\ slot[f].gen = o.gen => slot[f].seq # o.next_order
    BY <1>1, <1>3, <2>1
  <2>3. CASE order.gen # 0
    BY <1>1, <1>2, <1>8, <2>1, <2>2, <2>3
  <2>4. CASE order.gen = 0
    <3>1. Captured(f) => slot[f].gen # 0
      BY DEF OrderInv, SlotOK
    <3>2. QED BY <1>1, <1>2, <1>8, <2>1, <2>2, <2>4, <3>1
  <2>5. QED BY <2>3, <2>4
<1>11. ASSUME NEW f \in Event, InQueue(f) PROVE slot[f].seq < o.next_order /\ slot[f].seq \in Nat
  <2>1. Captured(f) /\ order.gen = slot[f].gen
    BY <1>11 DEF InQueue
  <2>2. order.gen # 0
    BY <2>1 DEF OrderInv, SlotOK
  <2>3. QED BY <1>1, <1>3, <2>1, <2>2
<1>12. Ahead(e)' = {f \in Event : InQueue(f)}
  <2>1. ASSUME NEW g \in Event PROVE (g \in Ahead(e))' <=> InQueue(g)
    <3>1. CASE g = e
      BY <1>3, <1>4, <1>9, <3>1 DEF Ahead
    <3>2. CASE g # e
      BY <1>4, <1>9, <1>10, <1>11, <3>2 DEF Ahead
    <3>3. QED BY <3>1, <3>2
  <2>2. QED BY <2>1 DEF Ahead
<1>13. \A f \in Event \ {e} : Ahead(f)' = Ahead(f)
  <2>1. ASSUME NEW f \in Event \ {e}, InQueue(f) PROVE ~(slot'[e].seq < slot'[f].seq)
    BY <1>3, <1>4, <1>11, <2>1
  <2>2. ASSUME NEW f \in Event \ {e}, NEW g \in Event
        PROVE  (g \in Ahead(f))' <=> g \in Ahead(f)
    <3>1. CASE g = e
      BY <1>9, <1>10, <2>1, <2>2, <3>1 DEF Ahead
    <3>2. CASE g # e
      BY <1>4, <1>10, <2>2, <3>2 DEF Ahead
    <3>3. QED BY <3>1, <3>2
  <2>3. QED BY <2>2 DEF Ahead
<1>14. /\ {f \in Event : InQueue(f)}' = {f \in Event : InQueue(f)} \cup {e}
       /\ {f \in Event : Captured(f)}' = {f \in Event : Captured(f)} \cup {e}
       /\ {f \in Event : Serving(f)}' = {f \in Event : Serving(f)}
  <2>1. ~Serving(e) /\ ~Serving(e)'
    BY <1>6 DEF Serving, PastTurn, Captured
  <2>2. QED BY <1>6, <1>7, <1>9, <1>10, <2>1
<1>15. QED BY <1>6, <1>12, <1>13, <1>14 DEF Abstract!QCapture

\* Follow-ups are absorbed or served one at a time in the order of their arrival,
\* runs that fail included: each step is an operation of FollowUpQueue or none.
THEOREM IsFollowUpQueue == Spec => ImplementsFollowUpQueue
<1>1. Init => Abstract!QInit
  BY DEF Init, Abstract!QInit, InQueue, Ahead, Serving, Captured, PastTurn
<1>2. OrderInv /\ [Next]_vars => [Abstract!QNext]_Abstract!qvars
  <2>1. SUFFICES ASSUME OrderInv, [Next]_vars PROVE [Abstract!QNext]_Abstract!qvars
    OBVIOUS
  <2>2. ASSUME NEW e \in Event, Capture(e) PROVE Abstract!QNext
    BY <2>1, <2>2, CaptureMaps DEF Abstract!QNext
  <2>3. ASSUME NEW e \in Event, HookDone(e) PROVE [Abstract!QNext]_Abstract!qvars
    <3>1. CASE EnterLock(e) /\ UNCHANGED <<mon, order, cwait>>
      BY <2>1, <2>3, <3>1, PlainMaps
    <3>2. CASE Leave(e, runner, <<>>) /\ UNCHANGED <<holder, lockq>>
      BY <2>1, <2>3, <3>2, LeaveMaps
    <3>3. QED BY <2>3, <3>1, <3>2 DEF HookDone
  <2>4. ASSUME NEW e \in Event, Step(e) PROVE [Abstract!QNext]_Abstract!qvars
    BY <2>1, <2>2, <2>3, <2>4, PlainMaps, TurnMaps, MarkMaps, LeaveMaps DEF Step
  <2>5. CASE \/ UNCHANGED vars
             \/ \E e \in Event : IOReady(e) \/ Stop(e)
    <3>1. UNCHANGED <<pc, path, order, slot>>
      BY <2>5 DEF vars, IOReady, Stop
    <3>2. QED BY <3>1, Stays DEF InQueue, Serving, Captured, PastTurn
  <2>6. QED BY <2>1, <2>4, <2>5 DEF Next
<1>3. QED BY <1>1, <1>2, OrderInit, OrderStep, PTL DEF Spec, ImplementsFollowUpQueue, Abstract!QSpec
=============================================================================

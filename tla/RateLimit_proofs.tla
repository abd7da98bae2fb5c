-------------------------- MODULE RateLimit_proofs --------------------------
(* Proofs about RateLimit for every number of messages, limit and times. *)
EXTENDS RateLimit, FiniteSetTheorems, SequenceTheorems, WellFoundedInduction, TLAPS

(***************************************************************************)
(* The inductive invariant                                                 *)
(***************************************************************************)

\* The clock has not been read from the future.
NowIsPast == \A e \in Event : /\ now[e] <= clock
                              /\ pc[e] = "passed" => passedAt[e] <= clock

\* A message arrives after those with smaller numbers.
ArriveInOrder == \A d, e \in Event : d < e /\ pc[d] = "new" => pc[e] = "new"

\* The lock's queue holds the queued messages, in order.
QueueInOrder ==
  /\ \A i \in 1 .. Len(queue) : pc[queue[i]] = "queued"
  /\ \A i, j \in 1 .. Len(queue) : i < j => queue[i] < queue[j]
  /\ \A e \in Event : pc[e] = "queued" => \E i \in 1 .. Len(queue) : queue[i] = e

\* Who stalls has the lock.  Only stalling makes others wait, only discarding
\* discards.
HolderStalls ==
  /\ holder = {e \in Event : pc[e] = "stalled"}
  /\ strategy = "discard" => queue = <<>> /\ holder = {}
  /\ strategy = "stall" => \A e \in Event : pc[e] # "discarded"

\* All before a message that has passed or stalls have passed.
OlderPassed ==
  strategy = "stall" =>
    \A d, e \in Event : d < e /\ pc[e] \in {"stalled", "passed"} => pc[d] = "passed"

\* The order in which the messages passed: what the proof of InOrder needs.
OrderInv == /\ TypeOK /\ NowIsPast /\ ArriveInOrder /\ QueueInOrder /\ HolderStalls
            /\ OlderPassed

\* The messages that passed within the last window are among those that `log`
\* gives for the timestamps in the deque ...
Covers(log, n, p, at, c) ==
  \A e \in Event : p[e] = "passed" /\ at[e] + Window >= c => \E i \in 1 .. n : log[i] = e

\* ... and a timestamp that is older than the pass it records comes after one
\* that is not, so it cannot leave the deque before its time.
Guarded(log, ts, at, c) ==
  \A j \in 1 .. Len(ts) : at[log[j]] + Window >= c => \E i \in 1 .. j : ts[i] >= at[log[j]]

Logged(ts, p, at, c) ==
  \E log \in [1 .. Len(ts) -> Event] :
    /\ \A i \in 1 .. Len(ts) : p[log[i]] = "passed"
    /\ Covers(log, Len(ts), p, at, c)
    /\ Guarded(log, ts, at, c)

\* While the lock is free and messages wait for it, one has just passed that has
\* read the clock since.
JustPassed == holder = {} /\ queue # <<>> => \E i \in 1 .. Len(timestamps) : timestamps[i] >= clock

IInv == /\ OrderInv
        /\ Count > 0 => Logged(timestamps, pc, passedAt, clock) /\ JustPassed
        /\ WindowBound

(***************************************************************************)
(* Lemmas about the deque                                                  *)
(***************************************************************************)

\* A set of naturals that is not empty has a least member.
LEMMA Least ==
  ASSUME NEW T \in SUBSET Nat, T # {}
  PROVE  \E x \in T : \A y \in T : x <= y
<1>1. PICK x \in T : \A y \in T : ~(<<y, x>> \in OpToRel(<, Nat))
  BY NatLessThanWellFounded, WFMin, Zenon
<1>2. ASSUME NEW y \in T PROVE x <= y
  <2>1. ~(<<y, x>> \in OpToRel(<, Nat))
    BY <1>1
  <2>2. x \in Nat /\ y \in Nat
    OBVIOUS
  <2>3. y < x => <<y, x>> \in OpToRel(<, Nat)
    BY <2>2 DEF OpToRel
  <2>4. ~(y < x)
    BY <2>1, <2>3, Zenon
  <2> HIDE <2>1, <2>3
  <2>5. QED BY <2>2, <2>4
<1> HIDE <1>1
<1>3. QED BY <1>2

\* _remove_expired_timestamps keeps a suffix, which starts with a timestamp
\* inside the window, and drops only those outside.
LEMMA UnexpiredFacts ==
  ASSUME NEW q \in Seq(Nat), NEW t \in Nat
  PROVE  \E m \in 1 .. Len(q) + 1 :
           /\ Unexpired(q, t) \in Seq(Nat)
           /\ Len(Unexpired(q, t)) = Len(q) + 1 - m
           /\ \A i \in 1 .. Len(q) + 1 - m : Unexpired(q, t)[i] = q[m + i - 1]
           /\ \A i \in 1 .. m - 1 : q[i] < t - Window
           /\ m <= Len(q) => q[m] >= t - Window
<1> DEFINE I == {i \in 1 .. Len(q) + 1 : i > Len(q) \/ q[i] >= t - Window}
           m == Min(I)
<1>1. Len(q) \in Nat /\ Window \in Nat /\ \A i \in 1 .. Len(q) : q[i] \in Nat
  BY TimeAssumption
<1>2. I \in SUBSET Nat /\ I # {}
  <2>1. Len(q) + 1 \in I
    BY <1>1
  <2>2. QED BY <2>1, <1>1
<1>3. m \in I /\ \A y \in I : m <= y
  <2>1. \E x \in I : \A y \in I : x <= y
    <3> HIDE DEF I
    <3>1. QED BY <1>2, Least
  <2> HIDE DEF I
  <2>2. QED BY <2>1 DEF Min
<1>4. Unexpired(q, t) = SubSeq(q, m, Len(q))
  BY DEF Unexpired
<1> HIDE DEF m
<1>5. m \in 1 .. Len(q) + 1 /\ (m <= Len(q) => q[m] >= t - Window)
  BY <1>3, <1>1
<1>6. \A i \in 1 .. m - 1 : q[i] < t - Window
  <2> SUFFICES ASSUME NEW i \in 1 .. m - 1, ~(q[i] < t - Window) PROVE FALSE
    OBVIOUS
  <2>1. i \in I
    BY <1>1, <1>5
  <2>2. m <= i
    BY <2>1, <1>3
  <2>3. QED BY <2>2, <1>5
<1>7. /\ SubSeq(q, m, Len(q)) \in Seq(Nat)
      /\ Len(SubSeq(q, m, Len(q))) = Len(q) + 1 - m
      /\ \A i \in 1 .. Len(q) + 1 - m : SubSeq(q, m, Len(q))[i] = q[m + i - 1]
  <2>1. \A i \in m .. Len(q) : q[i] \in Nat
    BY <1>1, <1>5
  <2>2. m \in Int /\ Len(q) \in Int
    BY <1>1, <1>5
  <2> HIDE DEF I
  <2>3. /\ SubSeq(q, m, Len(q)) \in Seq(Nat)
        /\ Len(SubSeq(q, m, Len(q))) = IF m <= Len(q) THEN Len(q) - m + 1 ELSE 0
        /\ \A i \in 1 .. Len(q) - m + 1 : SubSeq(q, m, Len(q))[i] = q[m + i - 1]
    BY <2>1, <2>2, SubSeqProperties, SMTT(30)
  <2>4. QED BY <2>3, <1>1, <1>5
<1>8. QED BY <1>4, <1>5, <1>6, <1>7

\* A message that stalls wakes up in the future of its `now`.
LEMMA StallIsPositive ==
  ASSUME NEW q \in Seq(Nat), NEW t \in Nat, ~Room(Unexpired(q, t))
  PROVE  /\ Count > 0
         /\ StallDuration(Unexpired(q, t), t) \in Nat
<1>1. PICK m \in 1 .. Len(q) + 1 :
           /\ Unexpired(q, t) \in Seq(Nat)
           /\ Len(Unexpired(q, t)) = Len(q) + 1 - m
           /\ \A i \in 1 .. Len(q) + 1 - m : Unexpired(q, t)[i] = q[m + i - 1]
           /\ m <= Len(q) => q[m] >= t - Window
  BY UnexpiredFacts
<1>2. Count > 0 /\ Len(q) + 1 - m >= 1
  BY <1>1, CountAssumption DEF Room
<1>3. m <= Len(q) /\ 1 \in 1 .. Len(q) + 1 - m /\ m + 1 - 1 = m /\ q[m] \in Nat
  BY <1>2
<1>5. Unexpired(q, t)[1] = q[m] /\ q[m] >= t - Window
  BY <1>1, <1>3
<1>6. QED BY <1>2, <1>3, <1>5, TimeAssumption DEF StallDuration

(***************************************************************************)
(* The order of the messages                                               *)
(***************************************************************************)

\* What one round of the loop does to everything but the deque's contents.
LEMMA CheckOutcome ==
  ASSUME TypeOK, NEW e \in Event, NEW t \in Nat, Check(e, t)
  PROVE  /\ timestamps' \in Seq(Nat) /\ wake' \in [Event -> Nat]
         /\ \/ /\ pc' = [pc EXCEPT ![e] = "passed"] /\ holder' = {}
               /\ passedAt' = [passedAt EXCEPT ![e] = clock]
            \/ /\ pc' = [pc EXCEPT ![e] = "stalled"] /\ holder' = {e}
               /\ strategy = "stall" /\ passedAt' = passedAt
            \/ /\ pc' = [pc EXCEPT ![e] = "discarded"] /\ holder' = {}
               /\ strategy = "discard" /\ passedAt' = passedAt
<1> DEFINE u == Unexpired(timestamps, t)
<1>0. timestamps \in Seq(Nat) /\ clock \in Nat /\ wake \in [Event -> Nat]
  BY TimeAssumption DEF TypeOK
<1>1. u \in Seq(Nat)
  BY <1>0, UnexpiredFacts
<1>2. ~Room(u) => StallDuration(u, t) \in Nat
  BY <1>0, StallIsPositive
<1>3. Pass(e, u, t) \/ Stall(e, u, t) \/ Discard(e, u)
  BY DEF Check
<1> HIDE DEF u
<1>4. CASE Pass(e, u, t)
  <2>1. Append(u, t) \in Seq(Nat)
    BY <1>1, AppendProperties
  <2>2. wake' \in [Event -> Nat] /\ timestamps' \in Seq(Nat)
    BY <1>0, <1>1, <1>4, <2>1 DEF Pass
  <2>3. QED BY <1>4, <2>2 DEF Pass
<1>5. CASE Stall(e, u, t)
  BY <1>0, <1>1, <1>2, <1>5 DEF Stall
<1>6. CASE Discard(e, u)
  BY <1>0, <1>1, <1>6 DEF Discard
<1>7. QED BY <1>3, <1>4, <1>5, <1>6

LEMMA InitOrder == Init => OrderInv
<1> SUFFICES ASSUME Init PROVE OrderInv
  OBVIOUS
<1>1. TypeOK
  <2>1. N \in Nat /\ MaxTime \in Nat
    BY CountAssumption, TimeAssumption
  <2>2. QED BY <2>1 DEF Init, TypeOK
<1>2. QED BY <1>1 DEF Init, OrderInv, NowIsPast, ArriveInOrder, QueueInOrder, HolderStalls, OlderPassed

\* A message that is handled when all before it have passed (or, when none
\* waits, are through) keeps the order.
LEMMA HandledInOrder ==
  ASSUME OrderInv, NEW e \in Event, NEW t \in Nat, Check(e, t), UNCHANGED <<strategy, clock>>,
         queue' \in Seq(Event), now' \in [Event -> Nat], pc[e] # "passed",
         \A d \in Event : now'[d] <= clock,
         \A d \in Event : d < e => pc[d] # "new",
         \A d \in Event \ {e} : pc[d] # "stalled",
         strategy = "stall" => \A d \in Event : d < e => pc[d] = "passed",
         strategy = "discard" => queue' = <<>>,
         \A i \in 1 .. Len(queue') : pc[queue'[i]] = "queued" /\ queue'[i] # e,
         \A i, j \in 1 .. Len(queue') : i < j => queue'[i] < queue'[j],
         \A d \in Event \ {e} : pc[d] = "queued" => \E i \in 1 .. Len(queue') : queue'[i] = d
  PROVE  OrderInv'
<1> USE DEF OrderInv
<1>1. /\ timestamps' \in Seq(Nat) /\ wake' \in [Event -> Nat]
      /\ \/ /\ pc' = [pc EXCEPT ![e] = "passed"] /\ holder' = {}
            /\ passedAt' = [passedAt EXCEPT ![e] = clock]
         \/ /\ pc' = [pc EXCEPT ![e] = "stalled"] /\ holder' = {e}
            /\ strategy = "stall" /\ passedAt' = passedAt
         \/ /\ pc' = [pc EXCEPT ![e] = "discarded"] /\ holder' = {}
            /\ strategy = "discard" /\ passedAt' = passedAt
  BY CheckOutcome
<1>2. Event \subseteq Nat
  BY CountAssumption DEF Event
<1>3. clock \in Nat /\ clock' = clock /\ strategy' = strategy
  BY TimeAssumption DEF TypeOK
<1>4. pc \in [Event -> {"new", "queued", "stalled", "passed", "discarded"}]
  BY DEF TypeOK
<1>5. /\ pc' \in [Event -> {"new", "queued", "stalled", "passed", "discarded"}]
      /\ pc'[e] \in {"passed", "stalled", "discarded"}
      /\ \A d \in Event \ {e} : pc'[d] = pc[d]
  <2>1. PICK x \in {"passed", "stalled", "discarded"} : pc' = [pc EXCEPT ![e] = x]
    BY <1>1
  <2>2. QED BY <2>1, <1>4
<1>6. TypeOK'
  <2>1. holder' \in SUBSET Event
    BY <1>1
  <2>2. passedAt' \in [Event -> Nat]
    <3>1. passedAt \in [Event -> Nat]
      BY DEF TypeOK
    <3>2. passedAt' = passedAt \/ passedAt' = [passedAt EXCEPT ![e] = clock]
      BY <1>1
    <3>3. QED BY <3>1, <3>2, <1>3
  <2>3. strategy' \in {"stall", "discard"} /\ clock' \in 0 .. MaxTime
    BY <1>3 DEF TypeOK
  <2>4. QED BY <1>1, <1>5, <2>1, <2>2, <2>3 DEF TypeOK
<1>7. NowIsPast'
  BY <1>1, <1>3, <1>4 DEF NowIsPast, TypeOK
<1>8. ArriveInOrder'
  BY <1>5 DEF ArriveInOrder
<1>9. QueueInOrder'
  <2>1. \A i \in 1 .. Len(queue') : queue'[i] \in Event \ {e} /\ pc[queue'[i]] = "queued"
    OBVIOUS
  <2>2. \A i \in 1 .. Len(queue') : pc'[queue'[i]] = "queued"
    BY <2>1, <1>5
  <2>3. \A d \in Event : pc'[d] = "queued" => \E i \in 1 .. Len(queue') : queue'[i] = d
    BY <1>5
  <2>4. QED BY <2>2, <2>3 DEF QueueInOrder
<1>10. HolderStalls'
  BY <1>1, <1>3, <1>4 DEF HolderStalls
<1>11. OlderPassed'
  <2> SUFFICES ASSUME strategy = "stall", NEW c \in Event, NEW d \in Event, c < d,
                      pc'[d] \in {"stalled", "passed"}
               PROVE  pc'[c] = "passed"
    BY <1>3 DEF OlderPassed
  <2>1. CASE d = e
    BY <2>1, <1>2, <1>5
  <2>2. CASE d # e
    <3>1. pc[d] \in {"stalled", "passed"}
      BY <2>2, <1>5
    <3>2. pc[c] = "passed"
      BY <3>1 DEF OlderPassed
    <3>3. QED BY <3>2, <1>5
  <2>3. QED BY <2>1, <2>2
<1>12. QED BY <1>6, <1>7, <1>8, <1>9, <1>10, <1>11

LEMMA ArriveOrder ==
  ASSUME OrderInv, NEW e \in Event, Arrive(e)
  PROVE  OrderInv'
<1> USE DEF OrderInv
<1>1. /\ pc[e] = "new" /\ \A d \in 1 .. e - 1 : pc[d] # "new"
      /\ now' = [now EXCEPT ![e] = clock] /\ UNCHANGED <<strategy, clock>>
  BY DEF Arrive
<1>2. Event \subseteq Nat /\ \A d \in Event : d < e => d \in 1 .. e - 1
  BY CountAssumption DEF Event
<1>3. clock \in Nat /\ now \in [Event -> Nat] /\ queue \in Seq(Event)
  BY TimeAssumption DEF TypeOK
<1>4. now' \in [Event -> Nat] /\ \A d \in Event : now'[d] <= clock
  BY <1>1, <1>3 DEF NowIsPast
<1>5. pc \in [Event -> {"new", "queued", "stalled", "passed", "discarded"}]
  BY DEF TypeOK
<1>6. CASE LockIsFree /\ Check(e, clock) /\ UNCHANGED queue
  <2>1. queue = <<>> /\ queue' = <<>> /\ holder = {}
    BY <1>6 DEF LockIsFree
  <2>2. \A d \in Event : pc[d] # "queued" /\ pc[d] # "stalled"
    BY <2>1 DEF QueueInOrder, HolderStalls
  <2>3. strategy = "stall" => \A d \in Event : d < e => pc[d] = "passed"
    BY <1>1, <1>2, <1>5, <2>2 DEF HolderStalls
  <2>4. QED BY <1>1, <1>2, <1>3, <1>4, <1>6, <2>1, <2>2, <2>3, HandledInOrder
<1>7. CASE /\ ~LockIsFree
           /\ queue' = Append(queue, e)
           /\ pc' = [pc EXCEPT ![e] = "queued"]
           /\ UNCHANGED <<timestamps, holder, wake, passedAt>>
  <2>1. /\ pc' \in [Event -> {"new", "queued", "stalled", "passed", "discarded"}]
        /\ pc'[e] = "queued" /\ \A d \in Event \ {e} : pc'[d] = pc[d]
    BY <1>5, <1>7
  <2>2. /\ queue' \in Seq(Event) /\ Len(queue') = Len(queue) + 1 /\ Len(queue) \in Nat
        /\ queue'[Len(queue) + 1] = e
        /\ \A i \in 1 .. Len(queue) : queue'[i] = queue[i] /\ queue[i] \in Event
    BY <1>3, <1>7, AppendProperties
  <2>3. TypeOK'
    BY <1>1, <1>4, <1>7, <2>1, <2>2 DEF TypeOK
  <2>4. NowIsPast'
    BY <1>1, <1>4, <1>5, <1>7, <2>1 DEF NowIsPast
  <2>5. ArriveInOrder'
    <3> SUFFICES ASSUME NEW c \in Event, NEW d \in Event, c < d, pc'[c] = "new" PROVE pc'[d] = "new"
      BY DEF ArriveInOrder
    <3>1. c # e /\ pc[c] = "new" /\ pc[d] = "new"
      BY <2>1 DEF ArriveInOrder
    <3>2. d # e
      BY <3>1, <1>1, <1>2
    <3>3. QED BY <3>1, <3>2, <2>1
  <2>6. QueueInOrder'
    <3>1. \A i \in 1 .. Len(queue) : pc[queue[i]] = "queued" /\ queue[i] # e /\ queue[i] < e
      <4> SUFFICES ASSUME NEW i \in 1 .. Len(queue)
                   PROVE  pc[queue[i]] = "queued" /\ queue[i] # e /\ queue[i] < e
        OBVIOUS
      <4>1. queue[i] \in Event /\ pc[queue[i]] = "queued"
        BY <2>2 DEF QueueInOrder
      <4>2. ~(e < queue[i])
        BY <4>1, <1>1 DEF ArriveInOrder
      <4>3. queue[i] # e
        BY <4>1, <1>1
      <4>4. queue[i] \in Nat /\ e \in Nat
        BY <4>1, <1>2
      <4>5. QED BY <4>1, <4>2, <4>3, <4>4
    <3>2. \A i \in 1 .. Len(queue') : pc'[queue'[i]] = "queued"
      BY <2>1, <2>2, <3>1
    <3>3. \A i, j \in 1 .. Len(queue') : i < j => queue'[i] < queue'[j]
      BY <2>2, <3>1 DEF QueueInOrder
    <3>4. \A d \in Event : pc'[d] = "queued" => \E i \in 1 .. Len(queue') : queue'[i] = d
      <4> SUFFICES ASSUME NEW d \in Event, pc'[d] = "queued"
                   PROVE  \E i \in 1 .. Len(queue') : queue'[i] = d
        OBVIOUS
      <4>1. CASE d = e
        BY <4>1, <2>2
      <4>2. CASE d # e
        BY <4>2, <2>1, <2>2 DEF QueueInOrder
      <4>3. QED BY <4>1, <4>2
    <3>5. QED BY <3>2, <3>3, <3>4 DEF QueueInOrder
  <2>7. HolderStalls'
    <3>1. strategy # "discard"
      BY <1>7 DEF LockIsFree, HolderStalls
    <3>2. holder' = {d \in Event : pc'[d] = "stalled"}
      BY <1>1, <1>7, <2>1 DEF HolderStalls
    <3>3. QED BY <1>1, <2>1, <3>1, <3>2 DEF HolderStalls
  <2>8. OlderPassed'
    BY <1>1, <2>1 DEF OlderPassed
  <2>9. QED BY <2>3, <2>4, <2>5, <2>6, <2>7, <2>8
<1>8. QED BY <1>6, <1>7 DEF Arrive

LEMMA GrantedOrder ==
  ASSUME OrderInv, NEW e \in Event, Granted(e)
  PROVE  /\ OrderInv' /\ strategy = "stall"
         /\ \A d \in Event : d < e => pc[d] = "passed"
<1> USE DEF OrderInv
<1>1. /\ holder = {} /\ queue # <<>> /\ Head(queue) = e /\ queue' = Tail(queue)
      /\ Check(e, now[e]) /\ UNCHANGED <<strategy, clock, now>>
  BY DEF Granted
<1>2. Event \subseteq Nat /\ now \in [Event -> Nat] /\ queue \in Seq(Event)
  BY CountAssumption DEF Event, TypeOK
<1>3. /\ queue' \in Seq(Event) /\ Len(queue') = Len(queue) - 1 /\ Len(queue) \in Nat \ {0}
      /\ \A i \in 1 .. Len(queue') : queue'[i] = queue[i + 1]
      /\ queue[1] = e
  BY <1>1, <1>2, HeadTailProperties, EmptySeq
<1>4. /\ \A i \in 1 .. Len(queue') : pc[queue'[i]] = "queued" /\ queue'[i] # e
      /\ \A i, j \in 1 .. Len(queue') : i < j => queue'[i] < queue'[j]
  <2>1. \A i \in 1 .. Len(queue') : /\ i + 1 \in 1 .. Len(queue) /\ queue[i + 1] \in Event
                                    /\ pc[queue[i + 1]] = "queued" /\ e < queue[i + 1]
    BY <1>2, <1>3 DEF QueueInOrder
  <2>2. \A i \in 1 .. Len(queue') : queue'[i] = queue[i + 1] /\ e \in Nat
    BY <1>2, <1>3
  <2>3. \A i \in 1 .. Len(queue') : pc[queue'[i]] = "queued" /\ queue'[i] # e
    <3> SUFFICES ASSUME NEW i \in 1 .. Len(queue') PROVE pc[queue'[i]] = "queued" /\ queue'[i] # e
      OBVIOUS
    <3>1. queue[i + 1] # e
      BY <2>1, <2>2, <1>2
    <3>2. QED BY <2>1, <2>2, <3>1
  <2>4. \A i, j \in 1 .. Len(queue') : i < j => queue'[i] < queue'[j]
    <3> SUFFICES ASSUME NEW i \in 1 .. Len(queue'), NEW j \in 1 .. Len(queue'), i < j
                 PROVE  queue'[i] < queue'[j]
      OBVIOUS
    <3>1. i + 1 < j + 1 /\ i + 1 \in 1 .. Len(queue) /\ j + 1 \in 1 .. Len(queue)
      BY <2>1
    <3>2. queue[i + 1] < queue[j + 1]
      BY <3>1 DEF QueueInOrder
    <3>3. QED BY <2>2, <3>2
  <2>5. QED BY <2>3, <2>4
<1>5. \A d \in Event : pc[d] = "queued" => d = e \/ e < d
  BY <1>2, <1>3 DEF QueueInOrder
<1>6. \A d \in Event \ {e} : pc[d] = "queued" => \E i \in 1 .. Len(queue') : queue'[i] = d
  <2> SUFFICES ASSUME NEW d \in Event \ {e}, pc[d] = "queued"
               PROVE  \E i \in 1 .. Len(queue') : queue'[i] = d
    OBVIOUS
  <2>1. PICK i \in 1 .. Len(queue) : queue[i] = d
    BY DEF QueueInOrder
  <2>2. i - 1 \in 1 .. Len(queue') /\ queue'[i - 1] = d
    BY <2>1, <1>3
  <2>3. QED BY <2>2
<1>7. strategy = "stall"
  BY <1>1 DEF HolderStalls, TypeOK
<1>8. pc[e] = "queued" /\ \A d \in Event : pc[d] # "stalled" /\ pc[d] # "discarded"
  BY <1>1, <1>3, <1>7 DEF QueueInOrder, HolderStalls
<1>9. \A d \in Event : d < e => pc[d] = "passed"
  <2> SUFFICES ASSUME NEW d \in Event, d < e PROVE pc[d] = "passed"
    OBVIOUS
  <2>1. pc[d] # "new"
    BY <1>8 DEF ArriveInOrder
  <2>2. pc[d] # "queued"
    BY <1>2, <1>5
  <2>3. QED BY <2>1, <2>2, <1>8 DEF TypeOK
<1>10. now[e] \in Nat /\ now' \in [Event -> Nat] /\ \A d \in Event : now'[d] <= clock
  BY <1>1, <1>2 DEF NowIsPast
<1>11. OrderInv'
  BY <1>1, <1>3, <1>4, <1>6, <1>7, <1>8, <1>9, <1>10, HandledInOrder
<1>12. QED BY <1>7, <1>9, <1>11

LEMMA WakeOrder ==
  ASSUME OrderInv, NEW e \in Event, Wake(e)
  PROVE  /\ OrderInv' /\ strategy = "stall"
         /\ \A d \in Event : d < e => pc[d] = "passed"
<1> USE DEF OrderInv
<1>1. /\ pc[e] = "stalled" /\ now' = [now EXCEPT ![e] = clock]
      /\ Check(e, clock) /\ UNCHANGED <<strategy, clock, queue>>
  BY DEF Wake
<1>2. clock \in Nat /\ now \in [Event -> Nat] /\ queue \in Seq(Event) /\ Event \subseteq Nat
  BY TimeAssumption, CountAssumption DEF TypeOK, Event
<1>3. now' \in [Event -> Nat] /\ \A d \in Event : now'[d] <= clock
  BY <1>1, <1>2 DEF NowIsPast
<1>4. strategy = "stall" /\ e \in holder
  BY <1>1 DEF HolderStalls, TypeOK
<1>5. \A d \in Event : d < e => pc[d] = "passed"
  BY <1>1, <1>4 DEF OlderPassed
<1>6. \A d \in Event \ {e} : pc[d] # "stalled"
  <2> SUFFICES ASSUME NEW d \in Event \ {e}, pc[d] = "stalled" PROVE FALSE
    OBVIOUS
  <2>1. CASE d < e
    BY <2>1, <1>5
  <2>2. CASE e < d
    BY <2>2, <1>1, <1>4 DEF OlderPassed
  <2>3. QED BY <2>1, <2>2, <1>2
<1>7. \A i \in 1 .. Len(queue) : queue[i] \in Event /\ pc[queue[i]] = "queued" /\ queue[i] # e
  BY <1>1, <1>2 DEF QueueInOrder
<1>8. /\ \A i, j \in 1 .. Len(queue) : i < j => queue[i] < queue[j]
      /\ \A d \in Event : pc[d] = "queued" => \E i \in 1 .. Len(queue) : queue[i] = d
  BY DEF QueueInOrder
<1>9. OrderInv'
  BY <1>1, <1>2, <1>3, <1>4, <1>5, <1>6, <1>7, <1>8, HandledInOrder
<1>10. QED BY <1>4, <1>5, <1>9

LEMMA TickOrder == OrderInv /\ Tick => OrderInv'
<1> SUFFICES ASSUME OrderInv, Tick PROVE OrderInv'
  OBVIOUS
<1> USE DEF OrderInv
<1>1. /\ clock' = clock + 1 /\ clock < MaxTime
      /\ UNCHANGED <<strategy, timestamps, holder, queue, pc, now, wake, passedAt>>
  BY DEF Tick
<1>2. clock \in Nat /\ MaxTime \in Nat
  BY TimeAssumption DEF TypeOK
<1>3. TypeOK'
  BY <1>1, <1>2 DEF TypeOK
<1>4. NowIsPast'
  BY <1>1, <1>2 DEF NowIsPast, TypeOK
<1>5. ArriveInOrder' /\ QueueInOrder' /\ HolderStalls' /\ OlderPassed'
  BY <1>1 DEF ArriveInOrder, QueueInOrder, HolderStalls, OlderPassed
<1>6. QED BY <1>3, <1>4, <1>5

LEMMA GrantedWasQueued ==
  ASSUME OrderInv, NEW e \in Event, Granted(e)
  PROVE  pc[e] = "queued"
<1>1. queue # <<>> /\ Head(queue) = e /\ queue \in Seq(Event)
  BY DEF Granted, OrderInv, TypeOK
<1>2. queue[1] = e /\ 1 \in 1 .. Len(queue)
  BY <1>1, EmptySeq
<1>3. QED BY <1>2 DEF OrderInv, QueueInOrder

LEMMA OrderStep == OrderInv /\ [Next]_vars => OrderInv'
<1> SUFFICES ASSUME OrderInv, [Next]_vars PROVE OrderInv'
  OBVIOUS
<1>1. CASE Tick
  BY <1>1, TickOrder
<1>2. ASSUME NEW e \in Event, Arrive(e) PROVE OrderInv'
  BY <1>2, ArriveOrder
<1>3. ASSUME NEW e \in Event, Granted(e) PROVE OrderInv'
  BY <1>3, GrantedOrder
<1>4. ASSUME NEW e \in Event, Wake(e) PROVE OrderInv'
  BY <1>4, WakeOrder
<1>5. CASE UNCHANGED vars
  BY <1>5 DEF vars, OrderInv, TypeOK, NowIsPast, ArriveInOrder, QueueInOrder, HolderStalls,
     OlderPassed
<1>6. QED BY <1>1, <1>2, <1>3, <1>4, <1>5 DEF Next

LEMMA OrderHolds == Spec => []OrderInv
<1>1. QED BY InitOrder, OrderStep, PTL DEF Spec

\* The state of the stage has its types: the deque holds times, the lock's queue
\* messages.
THEOREM TypeCorrect == Spec => []TypeOK
<1>1. OrderInv => TypeOK
  BY DEF OrderInv
<1>2. QED BY <1>1, OrderHolds, PTL

\* Stalling never changes the order of a session's messages, however many of them
\* queue for the lock while one sleeps in it.
THEOREM Ordered == Spec => []InOrder
<1>1. OrderInv => InOrder
  BY DEF OrderInv, OlderPassed, InOrder
<1>2. QED BY <1>1, OrderHolds, PTL

(***************************************************************************)
(* How many messages pass in a window                                      *)
(***************************************************************************)

\* A set that n entries of a log list has at most n members.
LEMMA CoverBound ==
  ASSUME NEW n \in Nat, NEW log \in [1 .. n -> Event], NEW S,
         \A y \in S : \E i \in 1 .. n : log[i] = y
  PROVE  Cardinality(S) <= n
<1> DEFINE T == {log[i] : i \in 1 .. n}
<1>1. IsFiniteSet(1 .. n) /\ Cardinality(1 .. n) = n
  BY FS_Interval
<1>2. log \in Surjection(1 .. n, T)
  BY DEF Surjection
<1>3. IsFiniteSet(T) /\ Cardinality(T) <= n
  <2> HIDE DEF T
  <2>1. QED BY <1>1, <1>2, FS_Surjection
<1>4. S \in SUBSET T
  OBVIOUS
<1>5. Cardinality(S) <= Cardinality(T) /\ Cardinality(S) \in Nat /\ Cardinality(T) \in Nat
  <2> HIDE DEF T
  <2>1. QED BY <1>3, <1>4, FS_Subset, FS_CardinalityType
<1> HIDE DEF T
<1>6. QED BY <1>3, <1>5

\* Pruning loses no pass of the last window: a timestamp that is older than its
\* pass is guarded by one before it that stays.
LEMMA PruneLogged ==
  ASSUME NEW ts \in Seq(Nat), NEW p, NEW at \in [Event -> Nat], NEW c \in Nat,
         NEW t \in Nat, t <= c, Logged(ts, p, at, c)
  PROVE  Logged(Unexpired(ts, t), p, at, c)
<1> DEFINE u == Unexpired(ts, t)
<1>1. PICK m \in 1 .. Len(ts) + 1 :
        /\ u \in Seq(Nat)
        /\ Len(u) = Len(ts) + 1 - m
        /\ \A i \in 1 .. Len(ts) + 1 - m : u[i] = ts[m + i - 1]
        /\ \A i \in 1 .. m - 1 : ts[i] < t - Window
  BY UnexpiredFacts
<1> HIDE DEF u
<1>2. /\ Len(ts) \in Nat /\ m \in Nat /\ Window \in Nat
      /\ \A i \in 1 .. Len(ts) : ts[i] \in Nat
  BY TimeAssumption
<1>3. PICK log \in [1 .. Len(ts) -> Event] :
        /\ \A i \in 1 .. Len(ts) : p[log[i]] = "passed"
        /\ Covers(log, Len(ts), p, at, c)
        /\ Guarded(log, ts, at, c)
  BY DEF Logged
<1> DEFINE rest == [i \in 1 .. Len(u) |-> log[m + i - 1]]
<1>4. \A i \in 1 .. Len(u) : m + i - 1 \in 1 .. Len(ts)
  BY <1>1, <1>2
<1>5. rest \in [1 .. Len(u) -> Event] /\ \A i \in 1 .. Len(u) : rest[i] = log[m + i - 1]
  BY <1>4
<1>6. \A j \in 1 .. Len(ts) : at[log[j]] + Window >= c =>
        \E i \in m .. j : ts[i] >= at[log[j]]
  <2> SUFFICES ASSUME NEW j \in 1 .. Len(ts), at[log[j]] + Window >= c
               PROVE  \E i \in m .. j : ts[i] >= at[log[j]]
    OBVIOUS
  <2>1. PICK i \in 1 .. j : ts[i] >= at[log[j]]
    BY <1>3 DEF Guarded
  <2>2. at[log[j]] \in Nat
    OBVIOUS
  <2>3. ASSUME i < m PROVE FALSE
    <3>1. ts[i] < t - Window /\ ts[i] \in Nat
      BY <1>1, <1>2, <2>3
    <3>2. QED BY <3>1, <2>1, <2>2, <1>2
  <2>4. i \in m .. j
    BY <2>3, <1>2
  <2>5. QED BY <2>1, <2>4
<1> HIDE DEF rest
<1>7. \A i \in 1 .. Len(u) : p[rest[i]] = "passed"
  BY <1>3, <1>4, <1>5
<1>8. Covers(rest, Len(u), p, at, c)
  <2> SUFFICES ASSUME NEW x \in Event, p[x] = "passed", at[x] + Window >= c
               PROVE  \E i \in 1 .. Len(u) : rest[i] = x
    BY DEF Covers
  <2>1. PICK j \in 1 .. Len(ts) : log[j] = x
    BY <1>3 DEF Covers
  <2>2. m <= j
    <3>1. PICK i \in m .. j : ts[i] >= at[log[j]]
      BY <2>1, <1>6
    <3>2. QED BY <3>1, <1>2
  <2>3. j - m + 1 \in 1 .. Len(u) /\ m + (j - m + 1) - 1 = j
    BY <2>2, <1>1, <1>2
  <2>4. rest[j - m + 1] = x
    BY <2>1, <2>3, <1>5
  <2>5. QED BY <2>3, <2>4
<1>9. Guarded(rest, u, at, c)
  <2> SUFFICES ASSUME NEW j \in 1 .. Len(u), at[rest[j]] + Window >= c
               PROVE  \E i \in 1 .. j : u[i] >= at[rest[j]]
    BY DEF Guarded
  <2>1. rest[j] = log[m + j - 1] /\ m + j - 1 \in 1 .. Len(ts)
    BY <1>4, <1>5
  <2>2. PICK i \in m .. (m + j - 1) : ts[i] >= at[rest[j]]
    BY <2>1, <1>6
  <2>3. i - m + 1 \in 1 .. j /\ i - m + 1 \in 1 .. Len(ts) + 1 - m /\ m + (i - m + 1) - 1 = i
    BY <1>1, <1>2
  <2>4. u[i - m + 1] = ts[i]
    BY <1>1, <2>3
  <2>5. QED BY <2>2, <2>3, <2>4
<1>10. QED BY <1>5, <1>7, <1>8, <1>9 DEF Logged, u

\* A recent timestamp survives the pruning.
LEMMA PruneKeepsRecent ==
  ASSUME NEW ts \in Seq(Nat), NEW c \in Nat, NEW t \in Nat, t <= c,
         \E i \in 1 .. Len(ts) : ts[i] >= c
  PROVE  \E i \in 1 .. Len(Unexpired(ts, t)) : Unexpired(ts, t)[i] >= c
<1> DEFINE u == Unexpired(ts, t)
<1>1. PICK m \in 1 .. Len(ts) + 1 :
        /\ Len(u) = Len(ts) + 1 - m
        /\ \A i \in 1 .. Len(ts) + 1 - m : u[i] = ts[m + i - 1]
        /\ \A i \in 1 .. m - 1 : ts[i] < t - Window
  BY UnexpiredFacts
<1> HIDE DEF u
<1>2. PICK i \in 1 .. Len(ts) : ts[i] >= c
  OBVIOUS
<1>3. Len(ts) \in Nat /\ m \in Nat /\ Window \in Nat /\ ts[i] \in Nat
  BY TimeAssumption
<1>4. ~(i < m)
  <2> SUFFICES ASSUME i < m PROVE FALSE
    OBVIOUS
  <2>1. ts[i] < t - Window
    BY <1>1, <1>3
  <2>2. QED BY <2>1, <1>2, <1>3
<1>5. i - m + 1 \in 1 .. Len(ts) + 1 - m /\ m + (i - m + 1) - 1 = i
  BY <1>3, <1>4
<1>6. u[i - m + 1] = ts[i]
  BY <1>1, <1>5
<1>7. \E k \in 1 .. Len(u) : u[k] >= c
  BY <1>1, <1>2, <1>5, <1>6
<1>8. QED BY <1>7 DEF u

\* A pass that is recorded with the present time, or behind a timestamp that is
\* as recent, keeps the log.
LEMMA PassLogged ==
  ASSUME NEW ts \in Seq(Nat), NEW c \in Nat, NEW t \in Nat, NEW e \in Event,
         NEW p \in [Event -> {"new", "queued", "stalled", "passed", "discarded"}],
         NEW at \in [Event -> Nat], p[e] # "passed", Logged(ts, p, at, c),
         t = c \/ \E i \in 1 .. Len(ts) : ts[i] >= c
  PROVE  Logged(Append(ts, t), [p EXCEPT ![e] = "passed"], [at EXCEPT ![e] = c], c)
<1> DEFINE q  == Append(ts, t)
           p2 == [p EXCEPT ![e] = "passed"]
           at2 == [at EXCEPT ![e] = c]
           n  == Len(ts)
<1>1. n \in Nat /\ Len(q) = n + 1 /\ q[n + 1] = t /\ \A i \in 1 .. n : q[i] = ts[i]
  BY AppendProperties
<1>2. /\ p2[e] = "passed" /\ \A x \in Event \ {e} : p2[x] = p[x]
      /\ at2[e] = c /\ \A x \in Event \ {e} : at2[x] = at[x]
  OBVIOUS
<1>3. PICK log \in [1 .. n -> Event] :
        /\ \A i \in 1 .. n : p[log[i]] = "passed"
        /\ Covers(log, n, p, at, c)
        /\ Guarded(log, ts, at, c)
  BY DEF Logged
<1> HIDE DEF q, p2, at2, n
<1> DEFINE more == [i \in 1 .. n + 1 |-> IF i = n + 1 THEN e ELSE log[i]]
<1>4. /\ more \in [1 .. n + 1 -> Event] /\ more[n + 1] = e
      /\ \A i \in 1 .. n : more[i] = log[i] /\ more[i] # e
  BY <1>1, <1>3
<1> HIDE DEF more
<1>5. \A i \in 1 .. n + 1 : i = n + 1 \/ i \in 1 .. n
  BY <1>1
<1>6. \A i \in 1 .. n + 1 : p2[more[i]] = "passed"
  BY <1>2, <1>3, <1>4, <1>5
<1>7. Covers(more, n + 1, p2, at2, c)
  <2> SUFFICES ASSUME NEW x \in Event, p2[x] = "passed", at2[x] + Window >= c
               PROVE  \E i \in 1 .. n + 1 : more[i] = x
    BY DEF Covers
  <2>1. CASE x = e
    BY <2>1, <1>1, <1>4
  <2>2. CASE x # e
    <3>1. PICK i \in 1 .. n : log[i] = x
      BY <2>2, <1>2, <1>3 DEF Covers
    <3>2. i \in 1 .. n + 1 /\ more[i] = x
      BY <3>1, <1>1, <1>4
    <3>3. QED BY <3>2
  <2>3. QED BY <2>1, <2>2
<1>8. Guarded(more, q, at2, c)
  <2> SUFFICES ASSUME NEW j \in 1 .. n + 1, at2[more[j]] + Window >= c
               PROVE  \E i \in 1 .. j : q[i] >= at2[more[j]]
    BY <1>1 DEF Guarded
  <2>1. CASE j = n + 1
    <3>1. at2[more[j]] = c
      BY <2>1, <1>2, <1>4
    <3>2. CASE t = c
      BY <3>1, <3>2, <2>1, <1>1
    <3>3. CASE \E i \in 1 .. n : ts[i] >= c
      <4>1. PICK i \in 1 .. n : ts[i] >= c
        BY <3>3
      <4>2. i \in 1 .. j /\ q[i] >= c
        BY <4>1, <2>1, <1>1
      <4>3. QED BY <4>2, <3>1
    <3>4. QED BY <3>2, <3>3 DEF n
  <2>2. CASE j \in 1 .. n
    <3>1. at2[more[j]] = at[log[j]]
      BY <2>2, <1>2, <1>4
    <3>2. PICK i \in 1 .. j : ts[i] >= at[log[j]]
      BY <3>1, <2>2, <1>3 DEF Guarded, n
    <3>3. i \in 1 .. n /\ q[i] = ts[i]
      BY <2>2, <1>1
    <3>4. QED BY <3>1, <3>2, <3>3
  <2>3. QED BY <2>1, <2>2, <1>5
<1>9. Logged(q, p2, at2, c)
  BY <1>1, <1>4, <1>6, <1>7, <1>8 DEF Logged
<1>10. QED BY <1>9 DEF q, p2, at2

\* The log outlives a step after which no other message has passed, and time.
LEMMA KeepLogged ==
  ASSUME NEW ts, NEW p, NEW p2, NEW at \in [Event -> Nat], NEW c \in Nat, NEW c2 \in Nat,
         c <= c2, Logged(ts, p, at, c),
         \A x \in Event : p2[x] = "passed" <=> p[x] = "passed"
  PROVE  Logged(ts, p2, at, c2)
<1>1. PICK log \in [1 .. Len(ts) -> Event] :
        /\ \A i \in 1 .. Len(ts) : p[log[i]] = "passed"
        /\ Covers(log, Len(ts), p, at, c)
        /\ Guarded(log, ts, at, c)
  BY DEF Logged
<1>2. \A x \in Event : at[x] + Window >= c2 => at[x] + Window >= c
  BY TimeAssumption
<1>3. \A i \in 1 .. Len(ts) : log[i] \in Event
  BY <1>1
<1>4. \A i \in 1 .. Len(ts) : p2[log[i]] = "passed"
  BY <1>1, <1>3
<1>5. Covers(log, Len(ts), p2, at, c2)
  BY <1>1, <1>2 DEF Covers
<1>6. Guarded(log, ts, at, c2)
  BY <1>1, <1>2, <1>3 DEF Guarded
<1>7. QED BY <1>1, <1>4, <1>5, <1>6 DEF Logged

\* Who pass does not matter beyond whether they have: the bound is about those
\* that have, and when.
LEMMA KeepBound ==
  ASSUME WindowBound, UNCHANGED passedAt,
         \A x \in Event : pc'[x] = "passed" <=> pc[x] = "passed"
  PROVE  WindowBound'
<1>1. \A a, b : PassedIn(a, b)' = PassedIn(a, b)
  BY DEF PassedIn
<1>2. QED BY <1>1 DEF WindowBound, PassedIn

\* One round of the loop that is given a fresh `now`, or one behind which a
\* fresh timestamp stands in the deque, keeps the log and the bound.
LEMMA CheckBound ==
  ASSUME OrderInv, Count > 0, Logged(timestamps, pc, passedAt, clock), WindowBound,
         NEW e \in Event, NEW t \in Nat, t <= clock, Check(e, t), pc[e] # "passed",
         t = clock \/ \E i \in 1 .. Len(timestamps) : timestamps[i] >= clock
  PROVE  /\ Logged(timestamps', pc', passedAt', clock)
         /\ WindowBound'
         /\ \/ holder' # {}
            \/ strategy = "discard"
            \/ \E i \in 1 .. Len(timestamps') : timestamps'[i] >= clock
<1> DEFINE u == Unexpired(timestamps, t)
<1>1. /\ timestamps \in Seq(Nat) /\ clock \in Nat /\ passedAt \in [Event -> Nat]
      /\ pc \in [Event -> {"new", "queued", "stalled", "passed", "discarded"}]
  BY TimeAssumption DEF OrderInv, TypeOK
<1>2. u \in Seq(Nat)
  BY <1>1, UnexpiredFacts
<1>3. Logged(u, pc, passedAt, clock)
  BY <1>1, PruneLogged
<1>4. t = clock \/ \E i \in 1 .. Len(u) : u[i] >= clock
  BY <1>1, PruneKeepsRecent
<1>5. Pass(e, u, t) \/ Stall(e, u, t) \/ Discard(e, u)
  BY DEF Check
<1> HIDE DEF u
<1>6. CASE Pass(e, u, t)
  <2>1. /\ Len(u) < Count /\ timestamps' = Append(u, t)
        /\ pc' = [pc EXCEPT ![e] = "passed"] /\ passedAt' = [passedAt EXCEPT ![e] = clock]
    BY <1>6, CountAssumption DEF Pass, Room
  <2>2. Len(u) \in Nat /\ Len(timestamps') = Len(u) + 1 /\ Len(timestamps') <= Count
        /\ timestamps'[Len(u) + 1] = t /\ \A i \in 1 .. Len(u) : timestamps'[i] = u[i]
    <3>1. /\ Len(u) \in Nat /\ Len(timestamps') = Len(u) + 1
          /\ timestamps'[Len(u) + 1] = t /\ \A i \in 1 .. Len(u) : timestamps'[i] = u[i]
      BY <1>2, <2>1, AppendProperties
    <3>2. QED BY <3>1, <2>1, CountAssumption
  <2>3. Logged(timestamps', pc', passedAt', clock)
    BY <1>1, <1>2, <1>3, <1>4, <2>1, PassLogged
  <2>4. WindowBound'
    <3> SUFFICES ASSUME NEW x \in Event, pc'[x] = "passed"
                 PROVE  Cardinality(PassedIn(passedAt[x], passedAt[x] + Window)') <= Count
      BY DEF WindowBound
    <3> DEFINE S == PassedIn(passedAt[x], passedAt[x] + Window)'
    <3>1. S = {y \in Event : pc'[y] = "passed" /\ passedAt'[y] \in passedAt'[x] .. passedAt'[x] + Window}
      BY DEF PassedIn
    <3>2. /\ pc'[e] = "passed" /\ passedAt'[e] = clock
          /\ \A y \in Event \ {e} : pc'[y] = pc[y] /\ passedAt'[y] = passedAt[y]
          /\ passedAt' \in [Event -> Nat]
      BY <1>1, <2>1
    <3>3. CASE passedAt'[x] + Window >= clock
      <4>1. PICK log \in [1 .. Len(timestamps') -> Event] :
              Covers(log, Len(timestamps'), pc', passedAt', clock)
        BY <2>3 DEF Logged
      <4>2. \A y \in S : pc'[y] = "passed" /\ passedAt'[y] + Window >= clock /\ y \in Event
        BY <1>1, <3>1, <3>2, <3>3, TimeAssumption
      <4> HIDE DEF S
      <4>3. \A y \in S : \E i \in 1 .. Len(timestamps') : log[i] = y
        BY <4>1, <4>2 DEF Covers
      <4>4. Cardinality(S) <= Len(timestamps') /\ S \subseteq Event
        BY <2>2, <4>1, <4>2, <4>3, CoverBound
      <4>5. Cardinality(S) \in Nat
        <5>1. IsFiniteSet(Event)
          BY FS_Interval, CountAssumption DEF Event
        <5>2. IsFiniteSet(S)
          BY <4>4, <5>1, FS_Subset
        <5>3. QED BY <5>2, FS_CardinalityType
      <4>6. Cardinality(S) <= Count
        BY <2>2, <4>4, <4>5, CountAssumption
      <4>7. QED BY <4>6 DEF S
    <3>4. CASE ~(passedAt'[x] + Window >= clock)
      <4>1. x # e
        BY <3>2, <3>4, <1>1, TimeAssumption
      <4>2. pc[x] = "passed" /\ passedAt'[x] = passedAt[x]
        BY <3>2, <4>1
      <4>3. ~(passedAt'[e] \in passedAt'[x] .. passedAt'[x] + Window)
        BY <1>1, <3>2, <3>4, TimeAssumption
      <4>4. S = PassedIn(passedAt[x], passedAt[x] + Window)
        BY <3>1, <3>2, <4>2, <4>3 DEF PassedIn
      <4> HIDE DEF S
      <4>5. Cardinality(S) <= Count
        BY <4>2, <4>4 DEF WindowBound
      <4>6. QED BY <4>5 DEF S
    <3>5. QED BY <3>3, <3>4
  <2>5. \E i \in 1 .. Len(timestamps') : timestamps'[i] >= clock
    <3>1. CASE t = clock
      BY <3>1, <2>2, <1>1
    <3>2. CASE \E i \in 1 .. Len(u) : u[i] >= clock
      <4>1. PICK i \in 1 .. Len(u) : u[i] >= clock
        BY <3>2
      <4>2. i \in 1 .. Len(timestamps') /\ timestamps'[i] >= clock
        BY <4>1, <2>2
      <4>3. QED BY <4>2
    <3>3. QED BY <1>4, <3>1, <3>2
  <2>6. QED BY <2>3, <2>4, <2>5
<1>7. CASE Stall(e, u, t) \/ Discard(e, u)
  <2>1. /\ timestamps' = u /\ passedAt' = passedAt
        /\ \A x \in Event : pc'[x] = "passed" <=> pc[x] = "passed"
        /\ holder' # {} \/ strategy = "discard"
    BY <1>1, <1>7 DEF Stall, Discard
  <2>2. Logged(timestamps', pc', passedAt', clock)
    BY <1>1, <1>3, <2>1, KeepLogged
  <2>3. WindowBound'
    BY <2>1, KeepBound
  <2>4. QED BY <2>1, <2>2, <2>3
<1>8. QED BY <1>5, <1>6, <1>7

LEMMA BoundStep == IInv /\ [Next]_vars => IInv'
<1> SUFFICES ASSUME IInv, [Next]_vars PROVE IInv'
  OBVIOUS
<1>1. OrderInv /\ OrderInv'
  BY OrderStep DEF IInv
<1>2. /\ clock \in Nat /\ passedAt \in [Event -> Nat] /\ now \in [Event -> Nat]
      /\ timestamps \in Seq(Nat)
      /\ pc \in [Event -> {"new", "queued", "stalled", "passed", "discarded"}]
  BY <1>1, TimeAssumption DEF OrderInv, TypeOK
<1>3. CASE ~(Count > 0)
  BY <1>1, <1>3 DEF IInv, WindowBound
<1>4. CASE Count > 0
  <2> USE <1>4
  <2>1. Logged(timestamps, pc, passedAt, clock) /\ JustPassed /\ WindowBound
    BY DEF IInv
  <2> SUFFICES Logged(timestamps, pc, passedAt, clock)' /\ JustPassed' /\ WindowBound'
    BY <1>1 DEF IInv
  <2>2. CASE Tick
    <3>1. /\ clock' = clock + 1 /\ UNCHANGED <<timestamps, pc, passedAt, holder, queue>>
          /\ holder = {} => queue = <<>>
      BY <2>2 DEF Tick
    <3>2. Logged(timestamps, pc, passedAt, clock + 1)
      BY <1>2, <2>1, KeepLogged
    <3>3. QED BY <2>1, <3>1, <3>2, KeepBound DEF JustPassed
  <2>3. ASSUME NEW e \in Event, Arrive(e)
        PROVE  Logged(timestamps, pc, passedAt, clock)' /\ JustPassed' /\ WindowBound'
    <3>1. pc[e] = "new" /\ clock' = clock
      BY <2>3 DEF Arrive
    <3>2. CASE LockIsFree /\ Check(e, clock) /\ UNCHANGED queue
      <4>1. queue' = <<>>
        BY <3>2 DEF LockIsFree
      <4>2. Logged(timestamps', pc', passedAt', clock) /\ WindowBound'
        BY <1>1, <1>2, <2>1, <3>1, <3>2, CheckBound
      <4>3. QED BY <3>1, <4>1, <4>2 DEF JustPassed
    <3>3. CASE /\ ~LockIsFree
               /\ pc' = [pc EXCEPT ![e] = "queued"]
               /\ UNCHANGED <<timestamps, holder, wake, passedAt>>
      <4>1. \A x \in Event : pc'[x] = "passed" <=> pc[x] = "passed"
        BY <1>2, <3>1, <3>3
      <4>2. WindowBound'
        BY <2>1, <3>3, <4>1, KeepBound
      <4>3. clock <= clock
        BY <1>2
      <4>4. Logged(timestamps, pc', passedAt, clock)
        BY <1>2, <2>1, <4>1, <4>3, KeepLogged
      <4>5. JustPassed'
        BY <2>1, <3>1, <3>3 DEF JustPassed, LockIsFree
      <4>6. QED BY <3>1, <3>3, <4>2, <4>4, <4>5
    <3>4. QED BY <2>3, <3>2, <3>3 DEF Arrive
  <2>4. ASSUME NEW e \in Event, Granted(e)
        PROVE  Logged(timestamps, pc, passedAt, clock)' /\ JustPassed' /\ WindowBound'
    <3>1. holder = {} /\ queue # <<>> /\ Check(e, now[e]) /\ clock' = clock
      BY <2>4 DEF Granted
    <3>2. \E i \in 1 .. Len(timestamps) : timestamps[i] >= clock
      BY <2>1, <3>1 DEF JustPassed
    <3>3. now[e] \in Nat /\ now[e] <= clock
      BY <1>1, <1>2 DEF OrderInv, NowIsPast
    <3>4. strategy = "stall" /\ pc[e] # "passed"
      BY <1>1, <2>4, GrantedOrder, GrantedWasQueued
    <3>5. /\ Logged(timestamps', pc', passedAt', clock) /\ WindowBound'
          /\ holder' # {} \/ \E i \in 1 .. Len(timestamps') : timestamps'[i] >= clock
      BY <1>1, <2>1, <3>1, <3>2, <3>3, <3>4, CheckBound
    <3>6. QED BY <3>1, <3>5 DEF JustPassed
  <2>5. ASSUME NEW e \in Event, Wake(e)
        PROVE  Logged(timestamps, pc, passedAt, clock)' /\ JustPassed' /\ WindowBound'
    <3>1. pc[e] = "stalled" /\ Check(e, clock) /\ clock' = clock
      BY <2>5 DEF Wake
    <3>2. strategy = "stall"
      BY <1>1, <2>5, WakeOrder
    <3>3. /\ Logged(timestamps', pc', passedAt', clock) /\ WindowBound'
          /\ holder' # {} \/ \E i \in 1 .. Len(timestamps') : timestamps'[i] >= clock
      BY <1>1, <1>2, <2>1, <3>1, <3>2, CheckBound
    <3>4. QED BY <3>1, <3>3 DEF JustPassed
  <2>6. CASE UNCHANGED vars
    <3>1. UNCHANGED <<clock, timestamps, pc, passedAt, holder, queue>>
      BY <2>6 DEF vars
    <3>2. QED BY <2>1, <3>1, KeepBound DEF JustPassed
  <2>7. QED BY <2>2, <2>3, <2>4, <2>5, <2>6 DEF Next
<1>5. QED BY <1>3, <1>4

\* Over any window of time, both ends included, at most rate_limit_count messages
\* of a session pass the stage, whatever the limit and the window, though the
\* message that queued for the lock is recorded with the time it arrived.
THEOREM Bounded == Spec => []WindowBound
<1>1. Init => IInv
  <2> SUFFICES ASSUME Init PROVE IInv
    OBVIOUS
  <2>1. /\ timestamps = <<>> /\ queue = <<>> /\ \A e \in Event : pc[e] # "passed"
    BY DEF Init
  <2>2. WindowBound /\ JustPassed
    BY <2>1 DEF WindowBound, JustPassed
  <2>3. Logged(timestamps, pc, passedAt, clock)
    <3> DEFINE log == [i \in 1 .. Len(timestamps) |-> i]
    <3>1. 1 .. Len(timestamps) = {}
      BY <2>1
    <3>2. log \in [1 .. Len(timestamps) -> Event]
      BY <3>1
    <3> HIDE DEF log
    <3>3. /\ \A i \in 1 .. Len(timestamps) : pc[log[i]] = "passed"
          /\ Guarded(log, timestamps, passedAt, clock)
      BY <3>1 DEF Guarded
    <3>4. Covers(log, Len(timestamps), pc, passedAt, clock)
      BY <2>1 DEF Covers
    <3>5. QED BY <3>2, <3>3, <3>4 DEF Logged
  <2>4. QED BY <2>2, <2>3, InitOrder DEF IInv
<1>2. IInv => WindowBound
  BY DEF IInv
<1>3. QED BY <1>1, <1>2, BoundStep, PTL DEF Spec
=============================================================================

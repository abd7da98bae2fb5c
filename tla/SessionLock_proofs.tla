------------------------- MODULE SessionLock_proofs -------------------------
(* Proofs about SessionLock for every set of tasks, sessions and loops. *)
EXTENDS SessionLock, FiniteSetTheorems, TLAPS

\* Dropping a task from a deque that holds it once keeps the others in order.
LEMMA DropFacts ==
  ASSUME NEW q \in Seq(Task), NEW t \in Task, \E i \in DOMAIN q : q[i] = t,
         \A i, j \in DOMAIN q : q[i] = q[j] => i = j
  PROVE  /\ Drop(q, t) \in Seq(Task)
         /\ Len(Drop(q, t)) = Len(q) - 1
         /\ \A i \in DOMAIN Drop(q, t) : Drop(q, t)[i] # t /\ \E j \in DOMAIN q : q[j] = Drop(q, t)[i]
         /\ \A i, j \in DOMAIN Drop(q, t) : Drop(q, t)[i] = Drop(q, t)[j] => i = j
         /\ \A j \in DOMAIN q : q[j] # t => \E i \in DOMAIN Drop(q, t) : Drop(q, t)[i] = q[j]
         /\ q[1] # t => Drop(q, t) # <<>> /\ Drop(q, t)[1] = q[1]
<1> DEFINE d == Drop(q, t)
<1>1. PICK k \in DOMAIN q : k = CHOOSE i \in DOMAIN q : q[i] = t
  OBVIOUS
<1>2. q[k] = t /\ k \in 1 .. Len(q) /\ Len(q) \in Nat
  BY <1>1
<1>3. d = [j \in 1 .. Len(q) - 1 |-> IF j < k THEN q[j] ELSE q[j + 1]]
  BY <1>1 DEF Drop
<1>4. d \in Seq(Task) /\ Len(d) = Len(q) - 1 /\ DOMAIN d = 1 .. Len(q) - 1
  BY <1>2, <1>3
<1>5. \A i \in DOMAIN d : d[i] # t /\ \E j \in DOMAIN q : q[j] = d[i]
  BY <1>2, <1>3, <1>4
<1>6. \A i, j \in DOMAIN d : d[i] = d[j] => i = j
  BY <1>2, <1>3, <1>4
<1>7. ASSUME NEW j \in DOMAIN q, q[j] # t PROVE \E i \in DOMAIN d : d[i] = q[j]
  <2>1. CASE j < k
    BY <2>1, <1>2, <1>3, <1>4
  <2>2. CASE j > k
    <3>1. j - 1 \in DOMAIN d /\ d[j - 1] = q[j]
      BY <2>2, <1>2, <1>3, <1>4
    <3>2. QED BY <3>1
  <2>3. j # k /\ j \in Int /\ k \in Int
    BY <1>2, <1>7
  <2>4. QED BY <2>1, <2>2, <2>3
<1>8. ASSUME q[1] # t PROVE d # <<>> /\ d[1] = q[1]
  <2>1. k # 1 /\ k > 1 /\ Len(q) - 1 >= 1
    BY <1>2, <1>8
  <2>2. 1 \in DOMAIN d /\ d[1] = q[1]
    BY <1>2, <1>3, <1>4, <2>1
  <2>3. QED BY <2>2, <1>4
<1>9. QED BY <1>4, <1>5, <1>6, <1>7, <1>8

\* A wake-up changes the state of at most one future, from pending to done.
LEMMA WakeFirstFacts ==
  ASSUME NEW q \in Seq(Task), NEW p \in [Task -> PC]
  PROVE  /\ WakeFirst(q, p) \in [Task -> PC]
         /\ \A t \in Task : \/ WakeFirst(q, p)[t] = p[t]
                            \/ /\ p[t] = "waiting" /\ WakeFirst(q, p)[t] = "woken"
                               /\ q # <<>> /\ q[1] = t
         /\ q # <<>> => WakeFirst(q, p)[q[1]] # "waiting"
BY DEF WakeFirst, PC, Queued

---------------------------------------------------------------------------
LEMMA InitIInv == Init => IInv
<1> SUFFICES ASSUME Init PROVE IInv
  OBVIOUS
<1>1. TypeOK
  BY DEF Init, TypeOK, PC, Queued
<1>2. EntryIsStable
  BY DEF Init, EntryIsStable
<1>3. NoLeak
  <2>1. \A k \in Key : Engaged(k) = {}
    BY DEF Init, Engaged
  <2>2. QED BY <2>1, FS_EmptySet DEF Init, NoLeak
<1>4. WaitersMatchPC /\ WokenIsHead /\ OneInside /\ NoLostWakeup
  BY DEF Init, WaitersMatchPC, WokenIsHead, OneInside, NoLostWakeup, Queued
<1>5. QED BY <1>1, <1>2, <1>3, <1>4 DEF IInv

LEMMA KeyOfType == ASSUME TypeOK, NEW t \in Task PROVE KeyOf(t) \in Key
BY LoopAssumption DEF TypeOK, KeyOf, Key

\* Engaged(k) is a finite set of tasks.
LEMMA EngagedFinite == ASSUME NEW k PROVE IsFiniteSet(Engaged(k))
<1>1. Engaged(k) \in SUBSET Task
  BY DEF Engaged
<1>2. QED BY <1>1, TaskAssumption, FS_Subset

\* What the `finally` of acquire_lock does when task t leaves: the count stays
\* the number of users, and the entry goes exactly with the last of them.
LEMMA Leaving ==
  ASSUME IInv, NEW t \in Task, pc[t] # "idle", pc' \in [Task -> PC], pc'[t] = "idle",
         \A u \in Task : u # t => (pc'[u] = "idle" <=> pc[u] = "idle"),
         Forget(KeyOf(t)), UNCHANGED <<sess, ref>>
  PROVE  /\ locks' \in [Key -> LockId \cup {NoLock}]
         /\ count' \in [Key -> Nat]
         /\ NoLeak'
         /\ EntryIsStable'
<1>1. TypeOK /\ NoLeak /\ EntryIsStable
  BY DEF IInv
<1> PICK k \in Key : k = KeyOf(t)
  BY <1>1, KeyOfType
<1>2. \A u \in Task : KeyOf(u)' = KeyOf(u) /\ KeyOf(u) \in Key
  BY <1>1, KeyOfType DEF KeyOf
<1>3. Engaged(k)' = Engaged(k) \ {t} /\ t \in Engaged(k)
  BY <1>2 DEF Engaged
<1>4. \A j \in Key : j # k => Engaged(j)' = Engaged(j)
  BY <1>2 DEF Engaged
<1>5. /\ count[k] = Cardinality(Engaged(k))
      /\ Cardinality(Engaged(k)) \in Nat
      /\ Cardinality(Engaged(k)') = Cardinality(Engaged(k)) - 1
      /\ IsFiniteSet(Engaged(k)')
      /\ Cardinality(Engaged(k)') \in Nat
  <2>1. IsFiniteSet(Engaged(k)) /\ IsFiniteSet(Engaged(k) \ {t})
    BY EngagedFinite, FS_RemoveElement
  <2>2. QED BY <1>1, <1>3, <2>1, FS_RemoveElement, FS_CardinalityType DEF NoLeak
<1>6. /\ count' = [count EXCEPT ![k] = @ - 1]
      /\ locks' = IF count[k] = 1 THEN [locks EXCEPT ![k] = NoLock] ELSE locks
  BY DEF Forget
<1>7. count' \in [Key -> Nat] /\ locks' \in [Key -> LockId \cup {NoLock}]
  BY <1>1, <1>5, <1>6 DEF TypeOK
<1>8. NoLeak'
  <2>1. SUFFICES ASSUME NEW j \in Key
                 PROVE  count'[j] = Cardinality(Engaged(j)') /\ (locks'[j] = NoLock <=> count'[j] = 0)
    BY DEF NoLeak
  <2>2. CASE j = k
    <3>1. count'[k] = count[k] - 1 /\ count[k] \in Nat /\ count[k] >= 1
      BY <1>1, <1>5, <1>6 DEF TypeOK
    <3>2. count'[k] = Cardinality(Engaged(k)')
      BY <3>1, <1>5
    <3>3. locks[k] # NoLock
      BY <3>1, <1>1 DEF NoLeak
    <3>4. locks'[k] = NoLock <=> count[k] = 1
      BY <3>3, <1>1, <1>6 DEF TypeOK
    <3>5. locks'[k] = NoLock <=> count'[k] = 0
      BY <3>1, <3>4
    <3>6. QED BY <2>2, <3>2, <3>5
  <2>3. CASE j # k
    BY <2>3, <1>1, <1>4, <1>6 DEF TypeOK, NoLeak
  <2>4. QED BY <2>2, <2>3
<1>9. EntryIsStable'
  <2>1. ASSUME NEW u \in Task, pc'[u] # "idle" PROVE locks'[KeyOf(u)'] = ref'[u]
    <3>1. u # t /\ pc[u] # "idle" /\ locks[KeyOf(u)] = ref[u]
      BY <2>1, <1>1 DEF EntryIsStable
    <3>2. CASE KeyOf(u) = k
      <4>1. u \in Engaged(k)'
        BY <3>2, <1>2, <2>1 DEF Engaged
      <4>2. Cardinality(Engaged(k)') # 0
        BY <4>1, <1>5, FS_EmptySet
      <4>3. count[k] # 1
        BY <4>2, <1>5
      <4>4. QED BY <4>3, <1>2, <1>6, <3>1
    <3>3. CASE KeyOf(u) # k
      BY <3>3, <3>1, <1>1, <1>2, <1>6 DEF TypeOK
    <3>4. QED BY <3>2, <3>3
  <2>2. \A i, j \in Key : locks'[i] = locks'[j] /\ locks'[i] # NoLock => i = j
    BY <1>1, <1>6 DEF TypeOK, EntryIsStable
  <2>3. QED BY <2>1, <2>2 DEF EntryIsStable
<1>10. QED BY <1>7, <1>8, <1>9

---------------------------------------------------------------------------
\* What is left of the invariant when no lock table is touched.
Waiting == WaitersMatchPC /\ WokenIsHead /\ OneInside /\ NoLostWakeup

LEMMA AcquireStep ==
  ASSUME IInv, NEW t \in Task, NEW s \in Session, Acquire(t, s)
  PROVE  IInv'
<1> DEFINE k == <<LoopOf[t], s>>
<1>1. TypeOK /\ EntryIsStable /\ NoLeak /\ Waiting
  BY DEF IInv, Waiting
<1>2. k \in Key /\ pc[t] = "idle"
  BY LoopAssumption DEF Key, Acquire
<1>3. PICK l \in LockId :
        /\ Lookup(k, l)
        /\ locks' = [locks EXCEPT ![k] = l]
        /\ count' = [count EXCEPT ![k] = @ + 1]
        /\ sess' = [sess EXCEPT ![t] = s]
        /\ ref' = [ref EXCEPT ![t] = l]
        /\ \/ /\ CanEnter(l)
              /\ locked' = [locked EXCEPT ![l] = TRUE]
              /\ pc' = [pc EXCEPT ![t] = "critical"]
              /\ UNCHANGED waiters
           \/ /\ ~CanEnter(l)
              /\ waiters' = [waiters EXCEPT ![l] = Append(@, t)]
              /\ pc' = [pc EXCEPT ![t] = "waiting"]
              /\ UNCHANGED locked
  BY DEF Acquire
<1>4. TypeOK'
  <2>1. /\ locks' \in [Key -> LockId \cup {NoLock}] /\ count' \in [Key -> Nat]
        /\ sess' \in [Task -> Session] /\ ref' \in [Task -> LockId]
    BY <1>1, <1>2, <1>3 DEF TypeOK
  <2>2. locked' \in [LockId -> BOOLEAN]
    BY <1>1, <1>3 DEF TypeOK
  <2>3. pc' \in [Task -> PC]
    BY <1>1, <1>3 DEF TypeOK, PC, Queued
  <2>4. waiters' \in [LockId -> Seq(Task)]
    <3>1. waiters \in [LockId -> Seq(Task)] /\ Append(waiters[l], t) \in Seq(Task)
      BY <1>1, <1>3 DEF TypeOK
    <3>2. waiters' = waiters \/ waiters' = [waiters EXCEPT ![l] = Append(waiters[l], t)]
      BY <1>3
    <3>3. QED BY <3>1, <3>2
  <2>5. QED BY <2>1, <2>2, <2>3, <2>4 DEF TypeOK
<1>5. /\ KeyOf(t)' = k
      /\ pc'[t] # "idle" /\ ref'[t] = l
      /\ \A u \in Task : u # t => KeyOf(u)' = KeyOf(u) /\ pc'[u] = pc[u] /\ ref'[u] = ref[u]
  BY <1>1, <1>3 DEF TypeOK, KeyOf
<1>6. EntryIsStable'
  <2>1. ASSUME NEW u \in Task, pc'[u] # "idle" PROVE locks'[KeyOf(u)'] = ref'[u]
    <3>1. CASE u = t
      BY <3>1, <1>1, <1>2, <1>3, <1>5 DEF TypeOK
    <3>2. CASE u # t
      <4>1. locks[KeyOf(u)] = ref[u] /\ ref[u] # NoLock /\ KeyOf(u) \in Key
        BY <3>2, <2>1, <1>1, <1>5, LockAssumption, KeyOfType DEF EntryIsStable, TypeOK
      <4>2. KeyOf(u) = k => locks[k] = l
        BY <4>1, <1>3 DEF Lookup
      <4>3. QED BY <3>2, <4>1, <4>2, <1>1, <1>3, <1>5 DEF TypeOK
    <3>3. QED BY <3>1, <3>2
  <2>2. \A j \in Key : j # k => locks[j] # l
    BY <1>1, <1>2, <1>3, LockAssumption DEF Lookup, InUse, EntryIsStable
  <2>3. \A i, j \in Key : locks'[i] = locks'[j] /\ locks'[i] # NoLock => i = j
    BY <2>2, <1>1, <1>2, <1>3 DEF EntryIsStable, TypeOK
  <2>4. QED BY <2>1, <2>3 DEF EntryIsStable
<1>7. NoLeak'
  <2>1. Engaged(k)' = Engaged(k) \cup {t} /\ t \notin Engaged(k)
    BY <1>2, <1>5 DEF Engaged
  <2>2. \A j \in Key : j # k => Engaged(j)' = Engaged(j)
    BY <1>2, <1>5 DEF Engaged
  <2>3. Cardinality(Engaged(k)') = Cardinality(Engaged(k)) + 1
    BY <2>1, EngagedFinite, FS_AddElement
  <2>4. count[k] = Cardinality(Engaged(k)) /\ count[k] \in Nat
    BY <1>1, <1>2 DEF NoLeak, TypeOK
  <2>5. ASSUME NEW j \in Key
        PROVE  count'[j] = Cardinality(Engaged(j)') /\ (locks'[j] = NoLock <=> count'[j] = 0)
    <3>1. CASE j = k
      BY <3>1, <2>3, <2>4, <1>1, <1>2, <1>3, LockAssumption DEF TypeOK
    <3>2. CASE j # k
      BY <3>2, <2>2, <1>1, <1>3 DEF TypeOK, NoLeak
    <3>3. QED BY <3>1, <3>2
  <2>6. QED BY <2>5 DEF NoLeak
<1>8. Waiting'
  <2>1. CASE CanEnter(l) /\ locked' = [locked EXCEPT ![l] = TRUE]
             /\ pc' = [pc EXCEPT ![t] = "critical"] /\ UNCHANGED waiters
    <3>1. WaitersMatchPC'
      <4>1. \A m \in LockId : \A i \in DOMAIN waiters[m] :
              pc'[waiters[m][i]] \in Queued /\ ref'[waiters[m][i]] = m
        <5>1. SUFFICES ASSUME NEW m \in LockId, NEW i \in DOMAIN waiters[m]
                       PROVE  pc'[waiters[m][i]] \in Queued /\ ref'[waiters[m][i]] = m
          OBVIOUS
        <5>2. waiters[m][i] \in Task /\ pc[waiters[m][i]] \in Queued /\ ref[waiters[m][i]] = m
          BY <1>1 DEF Waiting, WaitersMatchPC, TypeOK
        <5>3. waiters[m][i] # t
          BY <5>2, <1>2 DEF Queued
        <5>4. QED BY <5>2, <5>3, <1>5
      <4>2. \A u \in Task : pc'[u] \in Queued => u # t
        BY <2>1, <1>1 DEF TypeOK, Queued
      <4>3. QED BY <4>1, <4>2, <2>1, <1>1, <1>5 DEF Waiting, WaitersMatchPC
    <3>2. \A u \in Task : pc[u] = "woken" => ref[u] # l
      BY <2>1, <1>1 DEF CanEnter, Waiting, WaitersMatchPC, TypeOK, Queued
    <3>3. WokenIsHead'
      BY <2>1, <3>2, <1>1, <1>5 DEF Waiting, WokenIsHead, TypeOK
    <3>4. \A u \in Task : pc[u] = "critical" => ref[u] # l
      BY <2>1, <1>1 DEF CanEnter, Waiting, OneInside
    <3>5. OneInside'
      BY <2>1, <3>4, <1>1, <1>5 DEF Waiting, OneInside, TypeOK
    <3>6. NoLostWakeup'
      BY <2>1, <1>1, <1>5 DEF Waiting, NoLostWakeup, WaitersMatchPC, TypeOK, Queued
    <3>7. QED BY <3>1, <3>3, <3>5, <3>6 DEF Waiting
  <2>2. CASE ~CanEnter(l) /\ waiters' = [waiters EXCEPT ![l] = Append(@, t)]
             /\ pc' = [pc EXCEPT ![t] = "waiting"] /\ UNCHANGED locked
    <3>1. waiters[l] \in Seq(Task) /\ waiters'[l] = Append(waiters[l], t)
          /\ \A m \in LockId : m # l => waiters'[m] = waiters[m]
      BY <2>2, <1>1 DEF TypeOK
    <3>2. \A i \in DOMAIN waiters[l] : waiters[l][i] # t /\ waiters'[l][i] = waiters[l][i]
      BY <3>1, <1>1, <1>2 DEF Waiting, WaitersMatchPC, Queued
    <3>3. WaitersMatchPC'
      <4>1. \A m \in LockId : \A i \in DOMAIN waiters'[m] :
              pc'[waiters'[m][i]] \in Queued /\ ref'[waiters'[m][i]] = m
        BY <2>2, <3>1, <3>2, <1>1, <1>2, <1>5 DEF Waiting, WaitersMatchPC, TypeOK, Queued
      <4>2. \A m \in LockId : \A i, j \in DOMAIN waiters'[m] :
              waiters'[m][i] = waiters'[m][j] => i = j
        BY <3>1, <3>2, <1>1 DEF Waiting, WaitersMatchPC
      <4>3. ASSUME NEW u \in Task, pc'[u] \in Queued
            PROVE  \E i \in DOMAIN waiters'[ref'[u]] : waiters'[ref'[u]][i] = u
        <5>1. CASE u = t
          <6>1. Len(waiters[l]) + 1 \in DOMAIN waiters'[l]
                /\ waiters'[l][Len(waiters[l]) + 1] = t
            BY <3>1
          <6>2. QED BY <5>1, <6>1, <1>5
        <5>2. CASE u # t
          <6>1. PICK i \in DOMAIN waiters[ref[u]] : waiters[ref[u]][i] = u
            BY <5>2, <4>3, <1>1, <1>5 DEF Waiting, WaitersMatchPC
          <6>2. i \in DOMAIN waiters'[ref[u]] /\ waiters'[ref[u]][i] = u
            <7>1. CASE ref[u] = l
              BY <7>1, <6>1, <3>1, <3>2
            <7>2. CASE ref[u] # l
              BY <7>2, <6>1, <3>1, <1>1 DEF TypeOK
            <7>3. QED BY <7>1, <7>2
          <6>3. QED BY <6>2, <5>2, <1>5
        <5>3. QED BY <5>1, <5>2
      <4>4. QED BY <4>1, <4>2, <4>3 DEF WaitersMatchPC
    <3>4. WokenIsHead'
      <4>1. SUFFICES ASSUME NEW u \in Task, pc'[u] = "woken"
                     PROVE  ~locked'[ref'[u]] /\ waiters'[ref'[u]][1] = u
        BY DEF WokenIsHead
      <4>2. u # t
        BY <4>1, <2>2, <1>1 DEF TypeOK
      <4>3. pc[u] = "woken" /\ ref'[u] = ref[u] /\ ~locked[ref[u]] /\ waiters[ref[u]][1] = u
        BY <4>1, <4>2, <1>1, <1>5 DEF Waiting, WokenIsHead
      <4>4. 1 \in DOMAIN waiters[ref[u]]
        BY <4>3, <1>1 DEF Waiting, WaitersMatchPC, TypeOK, Queued
      <4>5. QED BY <4>3, <4>4, <2>2, <3>1, <3>2, <1>1 DEF TypeOK
    <3>5. OneInside'
      BY <2>2, <1>1, <1>2, <1>5 DEF Waiting, OneInside, TypeOK
    <3>6. NoLostWakeup'
      <4>1. SUFFICES ASSUME NEW m \in LockId, ~locked'[m], waiters'[m] # <<>>
                     PROVE  pc'[Head(waiters'[m])] # "waiting"
        BY DEF NoLostWakeup
      <4>2. CASE m # l
        <5>1. ~locked[m] /\ waiters'[m] = waiters[m] /\ waiters[m] # <<>> /\ waiters[m] \in Seq(Task)
          BY <4>1, <4>2, <2>2, <3>1, <1>1 DEF TypeOK
        <5>2. pc[Head(waiters[m])] # "waiting" /\ Head(waiters[m]) \in Task
          BY <5>1, <1>1 DEF Waiting, NoLostWakeup
        <5>3. Head(waiters[m]) = waiters[m][1] /\ 1 \in DOMAIN waiters[m]
          BY <5>1
        <5>4. Head(waiters[m]) # t
          BY <5>3, <1>1, <1>2 DEF Waiting, WaitersMatchPC, Queued
        <5>5. QED BY <5>1, <5>2, <5>4, <1>5
      <4>3. CASE m = l
        <5>1. waiters[l] # <<>>
          BY <4>1, <4>3, <2>2, <3>1 DEF CanEnter
        <5>2. Head(waiters'[l]) = Head(waiters[l]) /\ Head(waiters[l]) # t /\ Head(waiters[l]) \in Task
          BY <5>1, <3>1, <3>2
        <5>3. QED BY <4>1, <4>3, <5>1, <5>2, <2>2, <1>1, <1>5 DEF Waiting, NoLostWakeup
      <4>4. QED BY <4>2, <4>3
    <3>7. QED BY <3>3, <3>4, <3>5, <3>6 DEF Waiting
  <2>3. QED BY <2>1, <2>2, <1>3
<1>9. QED BY <1>4, <1>6, <1>7, <1>8 DEF IInv, Waiting

---------------------------------------------------------------------------
\* A step that moves no task in or out of acquire_lock leaves the tables right.
LEMMA SameUsers ==
  ASSUME IInv, pc' \in [Task -> PC], UNCHANGED <<locks, count, sess, ref>>,
         \A u \in Task : pc'[u] = "idle" <=> pc[u] = "idle"
  PROVE  EntryIsStable' /\ NoLeak'
<1>1. EntryIsStable /\ NoLeak
  BY DEF IInv
<1>2. \A u \in Task : KeyOf(u)' = KeyOf(u)
  BY DEF KeyOf
<1>3. \A k \in Key : Engaged(k)' = Engaged(k)
  BY <1>2 DEF Engaged
<1>4. QED BY <1>1, <1>2, <1>3 DEF EntryIsStable, NoLeak

\* A step that moves no task in or out of a deque leaves the deques right.
LEMMA SameWaiters ==
  ASSUME TypeOK, WaitersMatchPC, UNCHANGED <<waiters, ref>>,
         \A u \in Task : pc'[u] \in Queued <=> pc[u] \in Queued
  PROVE  WaitersMatchPC'
<1>1. \A m \in LockId : \A i \in DOMAIN waiters[m] : waiters[m][i] \in Task
  BY DEF TypeOK
<1>2. QED BY <1>1 DEF WaitersMatchPC

\* A task that leaves its deque leaves the others in it, in order.
LEMMA LeavingDeque ==
  ASSUME TypeOK, WaitersMatchPC, NEW t \in Task, pc[t] \in Queued, pc'[t] \notin Queued,
         waiters' = [waiters EXCEPT ![ref[t]] = Drop(@, t)], UNCHANGED ref,
         \A u \in Task : u # t => (pc'[u] \in Queued <=> pc[u] \in Queued)
  PROVE  /\ waiters' \in [LockId -> Seq(Task)]
         /\ WaitersMatchPC'
         /\ \A u \in Task : u # t /\ pc[u] \in Queued /\ waiters[ref[u]][1] = u
                           => waiters'[ref[u]] # <<>> /\ waiters'[ref[u]][1] = u
<1> PICK l \in LockId : l = ref[t]
  BY DEF TypeOK
<1> PICK q \in Seq(Task) : q = waiters[l]
  BY DEF TypeOK
<1> DEFINE d == Drop(q, t)
<1>1. /\ d \in Seq(Task)
      /\ \A i \in DOMAIN d : d[i] # t /\ \E j \in DOMAIN q : q[j] = d[i]
      /\ \A i, j \in DOMAIN d : d[i] = d[j] => i = j
      /\ \A j \in DOMAIN q : q[j] # t => \E i \in DOMAIN d : d[i] = q[j]
      /\ q[1] # t => d # <<>> /\ d[1] = q[1]
  <2>1. (\E i \in DOMAIN q : q[i] = t) /\ \A i, j \in DOMAIN q : q[i] = q[j] => i = j
    BY DEF WaitersMatchPC
  <2>2. QED BY <2>1, DropFacts
<1>2. waiters'[l] = d /\ \A m \in LockId : m # l => waiters'[m] = waiters[m]
  BY DEF TypeOK
<1>3. waiters' \in [LockId -> Seq(Task)]
  BY <1>1 DEF TypeOK
<1>4. WaitersMatchPC'
  <2>1. ASSUME NEW m \in LockId, NEW i \in DOMAIN waiters'[m]
        PROVE  pc'[waiters'[m][i]] \in Queued /\ ref'[waiters'[m][i]] = m
    <3>1. CASE m = l
      <4>1. PICK j \in DOMAIN q : q[j] = d[i] /\ d[i] # t /\ d[i] \in Task
        BY <1>1, <1>2, <2>1, <3>1
      <4>2. pc[q[j]] \in Queued /\ ref[q[j]] = l
        BY <4>1 DEF WaitersMatchPC
      <4>3. QED BY <1>2, <3>1, <4>1, <4>2
    <3>2. CASE m # l
      <4>1. waiters[m][i] \in Task /\ pc[waiters[m][i]] \in Queued /\ ref[waiters[m][i]] = m
        BY <1>2, <2>1, <3>2 DEF WaitersMatchPC, TypeOK
      <4>2. waiters[m][i] # t
        BY <3>2, <4>1
      <4>3. QED BY <1>2, <3>2, <4>1, <4>2
    <3>3. QED BY <3>1, <3>2
  <2>2. \A m \in LockId : \A i, j \in DOMAIN waiters'[m] : waiters'[m][i] = waiters'[m][j] => i = j
    BY <1>1, <1>2 DEF WaitersMatchPC
  <2>3. ASSUME NEW u \in Task, pc'[u] \in Queued
        PROVE  \E i \in DOMAIN waiters'[ref'[u]] : waiters'[ref'[u]][i] = u
    <3>1. u # t /\ pc[u] \in Queued /\ ref'[u] = ref[u] /\ ref[u] \in LockId
      BY <2>3 DEF TypeOK
    <3>2. PICK j \in DOMAIN waiters[ref[u]] : waiters[ref[u]][j] = u
      BY <3>1 DEF WaitersMatchPC
    <3>3. CASE ref[u] = l
      BY <3>1, <3>2, <3>3, <1>1, <1>2
    <3>4. CASE ref[u] # l
      BY <3>1, <3>2, <3>4, <1>2
    <3>5. QED BY <3>3, <3>4
  <2>4. QED BY <2>1, <2>2, <2>3 DEF WaitersMatchPC
<1>5. ASSUME NEW u \in Task, u # t, pc[u] \in Queued, waiters[ref[u]][1] = u
      PROVE  waiters'[ref[u]] # <<>> /\ waiters'[ref[u]][1] = u
  <2>1. ref[u] \in LockId
    BY DEF TypeOK
  <2>2. CASE ref[u] = l
    BY <2>2, <1>5, <1>1, <1>2
  <2>3. CASE ref[u] # l
    <3>1. waiters[ref[u]] # <<>>
      BY <1>5, <2>1 DEF WaitersMatchPC, TypeOK
    <3>2. QED BY <2>1, <2>3, <3>1, <1>5, <1>2
  <2>4. QED BY <2>2, <2>3
<1>6. QED BY <1>3, <1>4, <1>5

---------------------------------------------------------------------------
LEMMA ResumeStep == ASSUME IInv, NEW t \in Task, Resume(t) PROVE IInv'
<1>1. TypeOK /\ WaitersMatchPC /\ WokenIsHead /\ OneInside /\ NoLostWakeup
  BY DEF IInv
<1> PICK l \in LockId : l = ref[t]
  BY <1>1 DEF TypeOK
<1>2. /\ pc[t] = "woken" /\ UNCHANGED <<locks, count, sess, ref>>
      /\ waiters' = [waiters EXCEPT ![ref[t]] = Drop(@, t)]
      /\ locked' = [locked EXCEPT ![l] = TRUE]
      /\ pc' = [pc EXCEPT ![t] = "critical"]
  BY DEF Resume
<1>3. pc' \in [Task -> PC] /\ pc'[t] = "critical" /\ \A u \in Task : u # t => pc'[u] = pc[u]
  BY <1>1, <1>2 DEF TypeOK, PC
<1>4. EntryIsStable' /\ NoLeak'
  BY <1>2, <1>3, SameUsers
<1>5. /\ waiters' \in [LockId -> Seq(Task)] /\ WaitersMatchPC'
      /\ \A u \in Task : u # t /\ pc[u] \in Queued /\ waiters[ref[u]][1] = u
                         => waiters'[ref[u]] # <<>> /\ waiters'[ref[u]][1] = u
  BY <1>1, <1>2, <1>3, LeavingDeque DEF Queued
<1>6. TypeOK'
  BY <1>1, <1>2, <1>3, <1>5 DEF TypeOK
<1>7. ~locked[l] /\ \A u \in Task : pc[u] = "woken" /\ u # t => ref[u] # l
  BY <1>1, <1>2 DEF WokenIsHead
<1>8. WokenIsHead'
  BY <1>1, <1>2, <1>3, <1>5, <1>7 DEF WokenIsHead, TypeOK, Queued
<1>9. OneInside'
  BY <1>1, <1>2, <1>3, <1>7 DEF OneInside, TypeOK
<1>10. NoLostWakeup'
  <2>1. SUFFICES ASSUME NEW m \in LockId, ~locked'[m], waiters'[m] # <<>>
                 PROVE  pc'[Head(waiters'[m])] # "waiting"
    BY DEF NoLostWakeup
  <2>2. m # l /\ waiters'[m] = waiters[m] /\ ~locked[m] /\ waiters[m] \in Seq(Task)
    BY <2>1, <1>1, <1>2 DEF TypeOK
  <2>3. pc[Head(waiters[m])] # "waiting" /\ Head(waiters[m]) \in Task
    BY <2>1, <2>2, <1>1 DEF NoLostWakeup
  <2>4. QED BY <2>2, <2>3, <1>3
<1>11. QED BY <1>4, <1>5, <1>6, <1>8, <1>9, <1>10 DEF IInv

LEMMA CancelStep == ASSUME IInv, NEW t \in Task, Cancel(t) PROVE IInv'
<1>1. TypeOK /\ WaitersMatchPC /\ WokenIsHead /\ OneInside /\ NoLostWakeup
  BY DEF IInv
<1>2. /\ pc[t] \in {"waiting", "woken"} /\ UNCHANGED <<locks, count, locked, waiters, sess, ref>>
      /\ pc' = [pc EXCEPT ![t] = IF @ = "waiting" THEN "cancelled" ELSE "wokenCancelled"]
  BY DEF Cancel
<1>3. /\ pc' \in [Task -> PC] /\ pc'[t] \in {"cancelled", "wokenCancelled"}
      /\ \A u \in Task : u # t => pc'[u] = pc[u]
  BY <1>1, <1>2 DEF TypeOK, PC, Queued
<1>4. EntryIsStable' /\ NoLeak'
  BY <1>2, <1>3, SameUsers
<1>5. WaitersMatchPC'
  BY <1>1, <1>2, <1>3, SameWaiters DEF Queued
<1>6. TypeOK'
  BY <1>1, <1>2, <1>3 DEF TypeOK
<1>7. WokenIsHead' /\ OneInside'
  BY <1>1, <1>2, <1>3 DEF WokenIsHead, OneInside
<1>8. NoLostWakeup'
  <2>1. \A m \in LockId : waiters[m] # <<>> => Head(waiters[m]) \in Task
    BY <1>1 DEF TypeOK
  <2>2. QED BY <2>1, <1>1, <1>2, <1>3 DEF NoLostWakeup
<1>9. QED BY <1>4, <1>5, <1>6, <1>7, <1>8 DEF IInv

LEMMA ReleaseStep == ASSUME IInv, NEW t \in Task, Release(t) PROVE IInv'
<1>1. TypeOK /\ WaitersMatchPC /\ WokenIsHead /\ OneInside /\ NoLostWakeup
  BY DEF IInv
<1> PICK l \in LockId : l = ref[t]
  BY <1>1 DEF TypeOK
<1> PICK q \in Seq(Task) : q = waiters[l]
  BY <1>1 DEF TypeOK
<1> PICK w \in [Task -> PC] : w = WakeFirst(q, pc)
  BY <1>1, WakeFirstFacts DEF TypeOK
<1>2. /\ pc[t] = "critical" /\ Forget(KeyOf(t)) /\ UNCHANGED <<waiters, sess, ref>>
      /\ locked' = [locked EXCEPT ![l] = FALSE]
      /\ pc' = [w EXCEPT ![t] = "idle"]
  BY DEF Release
<1>3. /\ \A u \in Task : \/ w[u] = pc[u]
                         \/ pc[u] = "waiting" /\ w[u] = "woken" /\ q # <<>> /\ q[1] = u
      /\ q # <<>> => w[q[1]] # "waiting"
  <2>1. pc \in [Task -> PC]
    BY <1>1 DEF TypeOK
  <2>2. /\ \A u \in Task : \/ WakeFirst(q, pc)[u] = pc[u]
                           \/ /\ pc[u] = "waiting" /\ WakeFirst(q, pc)[u] = "woken"
                              /\ q # <<>> /\ q[1] = u
        /\ q # <<>> => WakeFirst(q, pc)[q[1]] # "waiting"
    BY <2>1, WakeFirstFacts
  <2>3. QED BY <2>2
<1>4. pc' \in [Task -> PC] /\ pc'[t] = "idle" /\ \A u \in Task : u # t => pc'[u] = w[u]
  BY <1>2 DEF PC
<1>5. /\ locks' \in [Key -> LockId \cup {NoLock}] /\ count' \in [Key -> Nat]
      /\ NoLeak' /\ EntryIsStable'
  BY <1>2, <1>3, <1>4, Leaving
<1>6. WaitersMatchPC'
  BY <1>1, <1>2, <1>3, <1>4, SameWaiters DEF Queued
<1>7. TypeOK'
  BY <1>1, <1>2, <1>4, <1>5 DEF TypeOK
<1>8. \A u \in Task : u # t /\ ref[u] = l => pc[u] # "critical" /\ pc[u] # "woken"
  BY <1>1, <1>2 DEF OneInside, WokenIsHead
<1>9. \A u \in Task : q # <<>> /\ q[1] = u => ref[u] = l
  BY <1>1 DEF WaitersMatchPC
<1>10. WokenIsHead'
  BY <1>1, <1>2, <1>3, <1>4, <1>8, <1>9 DEF WokenIsHead, TypeOK
<1>11. OneInside'
  <2>1. \A u \in Task : pc'[u] = "critical" => u # t /\ pc[u] = "critical" /\ ref[u] # l
    BY <1>3, <1>4, <1>8
  <2>2. \A u \in Task : ref[u] # l => locked'[ref[u]] = locked[ref[u]]
    BY <1>1, <1>2 DEF TypeOK
  <2>3. QED BY <2>1, <2>2, <1>1, <1>2 DEF OneInside
<1>12. NoLostWakeup'
  <2>1. SUFFICES ASSUME NEW m \in LockId, ~locked'[m], waiters[m] # <<>>
                 PROVE  pc'[waiters[m][1]] # "waiting"
    BY <1>2 DEF NoLostWakeup
  <2>2. waiters[m][1] \in Task
    BY <2>1, <1>1 DEF TypeOK
  <2>3. CASE m = l
    BY <2>1, <2>2, <2>3, <1>3, <1>4
  <2>4. CASE m # l
    BY <2>1, <2>2, <2>4, <1>1, <1>2, <1>3, <1>4 DEF NoLostWakeup, TypeOK
  <2>5. QED BY <2>3, <2>4
<1>13. QED BY <1>5, <1>6, <1>7, <1>10, <1>11, <1>12 DEF IInv

LEMMA UnwindStep == ASSUME IInv, NEW t \in Task, Unwind(t) PROVE IInv'
<1>1. TypeOK /\ WaitersMatchPC /\ WokenIsHead /\ OneInside /\ NoLostWakeup
  BY DEF IInv
<1> PICK l \in LockId : l = ref[t]
  BY <1>1 DEF TypeOK
<1>2. t \in Task /\ pc[t] \in {"cancelled", "wokenCancelled"}
  BY DEF Unwind
<1>3. \E i \in DOMAIN waiters[l] : waiters[l][i] = t
  BY <1>1, <1>2 DEF WaitersMatchPC, Queued
<1>4. Drop(waiters[l], t) \in Seq(Task) /\ \A i \in DOMAIN Drop(waiters[l], t) : Drop(waiters[l], t)[i] # t
  BY <1>1, <1>3, DropFacts DEF TypeOK, WaitersMatchPC
<1> PICK q \in Seq(Task) : q = Drop(waiters[l], t)
  BY <1>4
<1> PICK w \in [Task -> PC] : w = IF locked[l] THEN pc ELSE WakeFirst(q, pc)
  BY <1>1, WakeFirstFacts DEF TypeOK
<1>5. /\ Forget(KeyOf(t)) /\ UNCHANGED <<locked, sess, ref>>
      /\ waiters' = [waiters EXCEPT ![ref[t]] = Drop(@, t)]
      /\ pc' = [w EXCEPT ![t] = "idle"]
      /\ waiters'[l] = q
  BY <1>1 DEF Unwind, TypeOK
<1>6. /\ \A u \in Task : \/ w[u] = pc[u]
                         \/ /\ pc[u] = "waiting" /\ w[u] = "woken" /\ q # <<>> /\ q[1] = u
                            /\ ~locked[l]
      /\ ~locked[l] /\ q # <<>> => w[q[1]] # "waiting"
  <2>1. pc \in [Task -> PC]
    BY <1>1 DEF TypeOK
  <2>2. QED BY <2>1, WakeFirstFacts
<1>7. pc' \in [Task -> PC] /\ pc'[t] = "idle" /\ \A u \in Task : u # t => pc'[u] = w[u]
  BY <1>5 DEF PC
<1>8. /\ locks' \in [Key -> LockId \cup {NoLock}] /\ count' \in [Key -> Nat]
      /\ NoLeak' /\ EntryIsStable'
  BY <1>2, <1>5, <1>6, <1>7, Leaving
<1>9. /\ waiters' \in [LockId -> Seq(Task)] /\ WaitersMatchPC'
      /\ \A u \in Task : u # t /\ pc[u] \in Queued /\ waiters[ref[u]][1] = u
                         => waiters'[ref[u]] # <<>> /\ waiters'[ref[u]][1] = u
  <2>1. /\ pc[t] \in Queued /\ pc'[t] \notin Queued
        /\ \A u \in Task : u # t => (pc'[u] \in Queued <=> pc[u] \in Queued)
    BY <1>2, <1>6, <1>7 DEF Queued
  <2>2. QED BY <1>1, <1>5, <2>1, LeavingDeque
<1>10. TypeOK'
  BY <1>1, <1>5, <1>7, <1>8, <1>9 DEF TypeOK
<1>11. \A u \in Task : q # <<>> /\ q[1] = u => ref[u] = l /\ u # t
  BY <1>4, <1>5, <1>9 DEF WaitersMatchPC
<1>12. WokenIsHead'
  <2>1. SUFFICES ASSUME NEW u \in Task, pc'[u] = "woken"
                 PROVE  ~locked[ref[u]] /\ waiters'[ref[u]][1] = u
    BY <1>5 DEF WokenIsHead
  <2>2. u # t /\ w[u] = "woken"
    BY <2>1, <1>7
  <2>3. CASE pc[u] = "woken"
    BY <2>2, <2>3, <1>1, <1>9 DEF WokenIsHead, Queued
  <2>4. CASE pc[u] = "waiting" /\ q # <<>> /\ q[1] = u /\ ~locked[l]
    BY <2>4, <1>5, <1>11
  <2>5. QED BY <2>2, <2>3, <2>4, <1>6
<1>13. OneInside'
  BY <1>1, <1>2, <1>5, <1>6, <1>7 DEF OneInside, TypeOK
<1>14. NoLostWakeup'
  <2>1. SUFFICES ASSUME NEW m \in LockId, ~locked[m], waiters'[m] # <<>>
                 PROVE  pc'[waiters'[m][1]] # "waiting"
    BY <1>5 DEF NoLostWakeup
  <2>2. CASE m = l
    <3>1. q[1] \in Task /\ q[1] # t
      BY <2>1, <2>2, <1>5, <1>11
    <3>2. QED BY <2>1, <2>2, <3>1, <1>5, <1>6, <1>7
  <2>3. CASE m # l
    <3>1. waiters'[m] = waiters[m] /\ waiters[m][1] \in Task /\ pc[waiters[m][1]] # "waiting"
      BY <2>1, <2>3, <1>1, <1>5 DEF TypeOK, NoLostWakeup
    <3>2. QED BY <3>1, <1>6, <1>7
  <2>4. QED BY <2>2, <2>3
<1>15. QED BY <1>8, <1>9, <1>10, <1>12, <1>13, <1>14 DEF IInv

LEMMA StutterStep == ASSUME IInv, UNCHANGED vars PROVE IInv'
<1>1. TypeOK' /\ WaitersMatchPC' /\ WokenIsHead' /\ OneInside' /\ NoLostWakeup'
  BY DEF IInv, vars, TypeOK, WaitersMatchPC, WokenIsHead, OneInside, NoLostWakeup
<1>2. EntryIsStable' /\ NoLeak'
  BY SameUsers DEF IInv, TypeOK, vars
<1>3. QED BY <1>1, <1>2 DEF IInv

THEOREM Inductive == Spec => []IInv
<1>1. IInv /\ [Next]_vars => IInv'
  <2>1. SUFFICES ASSUME IInv, [Next]_vars PROVE IInv'
    OBVIOUS
  <2>2. ASSUME NEW t \in Task, NEW s \in Session, Acquire(t, s) PROVE IInv'
    BY <2>1, <2>2, AcquireStep
  <2>3. ASSUME NEW t \in Task, Resume(t) PROVE IInv'
    BY <2>1, <2>3, ResumeStep
  <2>4. ASSUME NEW t \in Task, Release(t) PROVE IInv'
    BY <2>1, <2>4, ReleaseStep
  <2>5. ASSUME NEW t \in Task, Cancel(t) PROVE IInv'
    BY <2>1, <2>5, CancelStep
  <2>6. ASSUME NEW t \in Task, Unwind(t) PROVE IInv'
    BY <2>1, <2>6, UnwindStep
  <2>7. CASE UNCHANGED vars
    BY <2>1, <2>7, StutterStep
  <2>8. QED BY <2>1, <2>2, <2>3, <2>4, <2>5, <2>6, <2>7 DEF Next
<1>2. QED BY InitIInv, <1>1, PTL DEF Spec

\* The variables of acquire_lock keep their types.
THEOREM TypeCorrect == Spec => []TypeOK
<1>1. IInv => TypeOK
  BY DEF IInv
<1>2. QED BY <1>1, Inductive, PTL

\* For any tasks, sessions and loops: no two tasks of one loop are inside the
\* same session at once (session_lock.py:23).
THEOREM Exclusive == Spec => []MutualExclusion
<1>1. IInv => MutualExclusion
  BY DEF IInv, EntryIsStable, OneInside, MutualExclusion
<1>2. QED BY <1>1, Inductive, PTL

\* For any tasks, sessions and loops: a task's lock stays in `_locks` while it
\* holds or waits for it (session_lock.py:27-30).
THEOREM Stable == Spec => []EntryIsStable
<1>1. IInv => EntryIsStable
  BY DEF IInv
<1>2. QED BY <1>1, Inductive, PTL

\* `_lock_count` counts the users, and an entry exists only while there is one.
THEOREM LeakFree == Spec => []NoLeak
<1>1. IInv => NoLeak
  BY DEF IInv
<1>2. QED BY <1>1, Inductive, PTL

\* A free lock with waiters always has a wake-up under way.
THEOREM WakeupKept == Spec => []NoLostWakeup
<1>1. IInv => NoLostWakeup
  BY DEF IInv
<1>2. QED BY <1>1, Inductive, PTL

---------------------------------------------------------------------------
\* The refinement of KeyedMutex.

\* A task that leaves a deque leaves the order of the others alone.
LEMMA DropBefore ==
  ASSUME NEW q \in Seq(Task), NEW t \in Task, \E i \in DOMAIN q : q[i] = t,
         \A i, j \in DOMAIN q : q[i] = q[j] => i = j
  PROVE  \A u, v \in Task : u # t /\ v # t => (Before(Drop(q, t), u, v) <=> Before(q, u, v))
<1> DEFINE d == Drop(q, t)
<1>1. PICK k \in DOMAIN q : k = CHOOSE i \in DOMAIN q : q[i] = t
  OBVIOUS
<1>2. q[k] = t /\ k \in 1 .. Len(q) /\ Len(q) \in Nat
  BY <1>1
<1>3. d = [j \in 1 .. Len(q) - 1 |-> IF j < k THEN q[j] ELSE q[j + 1]]
  BY <1>1 DEF Drop
<1>4. DOMAIN d = 1 .. Len(q) - 1 /\ DOMAIN q = 1 .. Len(q)
  BY <1>2, <1>3
<1>5. SUFFICES ASSUME NEW u \in Task, NEW v \in Task, u # t, v # t
               PROVE  Before(d, u, v) <=> Before(q, u, v)
  OBVIOUS
<1>6. ASSUME Before(d, u, v) PROVE Before(q, u, v)
  <2>1. PICK i \in DOMAIN d, j \in DOMAIN d : i < j /\ d[i] = u /\ d[j] = v
    BY <1>6 DEF Before
  <2>2. \E a, b \in DOMAIN q : a < b /\ q[a] = u /\ q[b] = v
    <3> DEFINE a == IF i < k THEN i ELSE i + 1
               b == IF j < k THEN j ELSE j + 1
    <3>1. a \in DOMAIN q /\ b \in DOMAIN q /\ a < b
      BY <2>1, <1>2, <1>4
    <3>2. q[a] = u /\ q[b] = v
      BY <2>1, <1>2, <1>3, <1>4
    <3>3. QED BY <3>1, <3>2
  <2>3. QED BY <2>2 DEF Before
<1>7. ASSUME Before(q, u, v) PROVE Before(d, u, v)
  <2>1. PICK a \in DOMAIN q, b \in DOMAIN q : a < b /\ q[a] = u /\ q[b] = v
    BY <1>7 DEF Before
  <2>2. a # k /\ b # k
    BY <2>1, <1>2, <1>5
  <2>3. \E i, j \in DOMAIN d : i < j /\ d[i] = u /\ d[j] = v
    <3> DEFINE i == IF a < k THEN a ELSE a - 1
               j == IF b < k THEN b ELSE b - 1
    <3>1. i \in DOMAIN d /\ j \in DOMAIN d /\ i < j
      BY <2>1, <2>2, <1>2, <1>4
    <3>2. d[i] = u /\ d[j] = v
      BY <2>1, <2>2, <1>2, <1>3, <1>4
    <3>3. QED BY <3>1, <3>2
  <2>4. QED BY <2>3 DEF Before
<1>8. QED BY <1>6, <1>7

\* A task that joins a deque is behind all that are in it.
LEMMA AppendBefore ==
  ASSUME NEW q \in Seq(Task), NEW t \in Task, \A i \in DOMAIN q : q[i] # t
  PROVE  /\ \A u, v \in Task : v # t => (Before(Append(q, t), u, v) <=> Before(q, u, v))
         /\ \A u \in Task : Before(Append(q, t), u, t) <=> \E i \in DOMAIN q : q[i] = u
<1> DEFINE d == Append(q, t)
<1>1. /\ DOMAIN d = 1 .. Len(q) + 1 /\ DOMAIN q = 1 .. Len(q) /\ Len(q) \in Nat
      /\ d[Len(q) + 1] = t /\ \A i \in DOMAIN q : d[i] = q[i]
  OBVIOUS
<1>2. ASSUME NEW u \in Task, NEW v \in Task, v # t
      PROVE  Before(d, u, v) <=> Before(q, u, v)
  <2>1. ASSUME NEW i \in DOMAIN d, NEW j \in DOMAIN d, i < j, d[i] = u, d[j] = v
        PROVE  i \in DOMAIN q /\ j \in DOMAIN q /\ q[i] = u /\ q[j] = v
    BY <2>1, <1>1, <1>2
  <2>2. DOMAIN q \subseteq DOMAIN d
    BY <1>1
  <2>3. QED BY <2>1, <2>2, <1>1 DEF Before
<1>3. ASSUME NEW u \in Task PROVE Before(d, u, t) <=> \E i \in DOMAIN q : q[i] = u
  <2>1. ASSUME NEW i \in DOMAIN q, q[i] = u PROVE Before(d, u, t)
    <3>1. i \in DOMAIN d /\ Len(q) + 1 \in DOMAIN d /\ i < Len(q) + 1 /\ d[i] = u
      BY <2>1, <1>1
    <3>2. QED BY <3>1, <1>1 DEF Before
  <2>2. ASSUME NEW i \in DOMAIN d, NEW j \in DOMAIN d, i < j, d[i] = u
        PROVE  i \in DOMAIN q /\ q[i] = u
    BY <2>2, <1>1
  <2>3. QED BY <2>1, <2>2 DEF Before
<1>4. QED BY <1>2, <1>3

\* The waiters of a key are in the deque of its entry, and nobody else is.
LEMMA SameDeque ==
  ASSUME IInv
  PROVE  /\ \A k \in Key, u \in Task : u \in Waiters(k) \/ u \in Inside(k) => ref[u] = locks[k]
         /\ \A k \in Key : Waiters(k) # {} \/ Inside(k) # {} => locks[k] \in LockId
         /\ \A k \in Key, u \in Task :
              u \in Waiters(k) <=> Live(u) /\ locks[k] \in LockId
                                   /\ \E i \in DOMAIN waiters[locks[k]] : waiters[locks[k]][i] = u
<1>1. TypeOK /\ EntryIsStable /\ WaitersMatchPC
  BY DEF IInv
<1>2. ASSUME NEW k \in Key, NEW u \in Task, u \in Waiters(k) \/ u \in Inside(k)
      PROVE  ref[u] = locks[k] /\ locks[k] \in LockId
  BY <1>2, <1>1 DEF Waiters, Inside, Live, EntryIsStable, TypeOK
<1>3. ASSUME NEW k \in Key, NEW u \in Task, u \in Waiters(k)
      PROVE  Live(u) /\ \E i \in DOMAIN waiters[locks[k]] : waiters[locks[k]][i] = u
  BY <1>2, <1>3, <1>1 DEF Waiters, Live, WaitersMatchPC, Queued
<1>4. ASSUME NEW k \in Key, NEW u \in Task, Live(u), locks[k] \in LockId,
             \E i \in DOMAIN waiters[locks[k]] : waiters[locks[k]][i] = u
      PROVE  u \in Waiters(k)
  <2>1. ref[u] = locks[k] /\ locks[KeyOf(u)] = ref[u] /\ KeyOf(u) \in Key
    BY <1>4, <1>1, KeyOfType DEF WaitersMatchPC, EntryIsStable, Live
  <2>2. KeyOf(u) = k
    BY <2>1, <1>4, <1>1, LockAssumption DEF EntryIsStable
  <2>3. QED BY <2>2, <1>4 DEF Waiters
<1>5. ASSUME NEW k \in Key, Waiters(k) # {} \/ Inside(k) # {} PROVE locks[k] \in LockId
  <2>1. \E u \in Task : u \in Waiters(k) \/ u \in Inside(k)
    BY <1>5 DEF Waiters, Inside
  <2>2. QED BY <2>1, <1>2
<1>6. ASSUME NEW k \in Key, NEW u \in Task
      PROVE  u \in Waiters(k) <=> Live(u) /\ locks[k] \in LockId
                                  /\ \E i \in DOMAIN waiters[locks[k]] : waiters[locks[k]][i] = u
  BY <1>2, <1>3, <1>4
<1>7. QED BY <1>2, <1>5, <1>6

LEMMA AcquireMaps ==
  ASSUME IInv, NEW t \in Task, NEW s \in Session, Acquire(t, s)
  PROVE  Abstract!KNext
<1> DEFINE k == <<LoopOf[t], s>>
<1>1. TypeOK /\ EntryIsStable /\ WaitersMatchPC /\ OneInside
  BY DEF IInv
<1>2. k \in Key /\ pc[t] = "idle"
  BY LoopAssumption DEF Key, Acquire
<1>3. PICK l \in LockId :
        /\ Lookup(k, l)
        /\ sess' = [sess EXCEPT ![t] = s]
        /\ ref' = [ref EXCEPT ![t] = l]
        /\ \/ /\ CanEnter(l)
              /\ pc' = [pc EXCEPT ![t] = "critical"]
              /\ UNCHANGED waiters
           \/ /\ ~CanEnter(l)
              /\ waiters' = [waiters EXCEPT ![l] = Append(@, t)]
              /\ pc' = [pc EXCEPT ![t] = "waiting"]
  BY DEF Acquire
<1>4. /\ KeyOf(t)' = k /\ ref'[t] = l
      /\ \A u \in Task : u # t => KeyOf(u)' = KeyOf(u) /\ pc'[u] = pc[u] /\ ref'[u] = ref[u]
  BY <1>1, <1>3 DEF TypeOK, KeyOf
<1>5. Abstract!KIdle(t)
  BY <1>2 DEF Abstract!KIdle, Inside, Waiters, Live
<1>6. /\ \A m \in LockId : waiters[m] \in Seq(Task)
      /\ \A m \in LockId : \A i \in DOMAIN waiters[m] : waiters[m][i] # t
  <2>1. \A m \in LockId : waiters[m] \in Seq(Task)
    BY <1>1 DEF TypeOK
  <2>2. \A m \in LockId : \A i \in DOMAIN waiters[m] : pc[waiters[m][i]] # "idle"
    BY <1>1 DEF WaitersMatchPC, Queued
  <2>3. QED BY <2>1, <2>2, <1>2
<1>7. \A u \in Task : u \in Waiters(k) <=> Live(u) /\ \E i \in DOMAIN waiters[l] : waiters[l][i] = u
  <2>1. CASE locks[k] = NoLock
    <3>1. Waiters(k) = {}
      BY <2>1, <1>2, SameDeque, LockAssumption
    <3>2. \A u \in Task : Live(u) => ref[u] # l
      BY <2>1, <1>3 DEF Lookup, InUse, Live
    <3>3. \A i \in DOMAIN waiters[l] : ref[waiters[l][i]] = l
      BY <1>1 DEF WaitersMatchPC
    <3>4. QED BY <3>1, <3>2, <3>3
  <2>2. CASE locks[k] # NoLock
    <3>1. locks[k] = l
      BY <2>2, <1>3 DEF Lookup
    <3>2. QED BY <3>1, <1>2, SameDeque
  <2>3. QED BY <2>1, <2>2
<1>8. CASE CanEnter(l) /\ pc' = [pc EXCEPT ![t] = "critical"] /\ UNCHANGED waiters
  <2>1. /\ pc'[t] = "critical"
        /\ \A u \in Task : u # t => (Live(u)' <=> Live(u))
        /\ ~Live(t) /\ ~Live(t)'
    BY <1>8, <1>1, <1>2, <1>4 DEF TypeOK, Live
  <2>2. Waiters(k) = {}
    <3>1. \A i \in DOMAIN waiters[l] : ~Live(waiters[l][i])
      BY <1>8 DEF CanEnter, Live
    <3>2. \A u \in Task : u \notin Waiters(k)
      BY <3>1, <1>7
    <3>3. QED BY <3>2 DEF Waiters
  <2>3. Inside(k) = {}
    <3>1. ASSUME NEW u \in Task, u \in Inside(k) PROVE FALSE
      <4>1. ref[u] = locks[k] /\ locks[k] \in LockId /\ pc[u] = "critical"
        BY <3>1, <1>2, SameDeque DEF Inside
      <4>2. locks[k] = l
        BY <4>1, <1>3, LockAssumption DEF Lookup
      <4>3. locked[l]
        BY <4>1, <4>2, <1>1 DEF OneInside
      <4>4. QED BY <4>3, <1>8 DEF CanEnter
    <3>2. QED BY <3>1 DEF Inside
  <2>4. /\ Inside(k)' = {t}
        /\ \A j \in Key : j # k => Inside(j)' = Inside(j)
    BY <2>1, <2>3, <1>2, <1>4 DEF Inside
  <2>5. \A j \in Key : Waiters(j)' = Waiters(j)
    BY <2>1, <1>4 DEF Waiters
  <2>6. \A u \in Task : Ahead(u)' = Ahead(u)
    BY <2>1, <1>4, <1>8 DEF Ahead
  <2>7. Abstract!KEnter(t, k)
    BY <2>2, <2>3, <2>4, <2>5, <2>6, <1>2, <1>5 DEF Abstract!KEnter
  <2>8. QED BY <2>7, <1>2 DEF Abstract!KNext
<1>9. CASE waiters' = [waiters EXCEPT ![l] = Append(@, t)] /\ pc' = [pc EXCEPT ![t] = "waiting"]
  <2>1. /\ pc'[t] = "waiting" /\ Live(t)' /\ ~Live(t)
        /\ \A u \in Task : u # t => (Live(u)' <=> Live(u))
    BY <1>9, <1>1, <1>2, <1>4 DEF TypeOK, Live
  <2>2. /\ waiters'[l] = Append(waiters[l], t)
        /\ \A m \in LockId : m # l => waiters'[m] = waiters[m]
    BY <1>9, <1>1 DEF TypeOK
  <2>3. \A j \in Key : Inside(j)' = Inside(j)
    BY <2>1, <1>2, <1>4 DEF Inside
  <2>4. /\ Waiters(k)' = Waiters(k) \cup {t}
        /\ \A j \in Key : j # k => Waiters(j)' = Waiters(j)
    BY <2>1, <1>2, <1>4 DEF Waiters
  <2>5. Ahead(t)' = Waiters(k)
    <3>1. \A u \in Task : Before(waiters'[l], u, t) <=> \E i \in DOMAIN waiters[l] : waiters[l][i] = u
      BY <2>2, <1>6, AppendBefore
    <3>2. \A u \in Task : (u \in Ahead(t))' <=> Live(u)' /\ Before(waiters'[l], u, t)
      BY <2>1, <1>4 DEF Ahead, Before
    <3>3. \A u \in Task : (u \in Ahead(t))' <=> u \in Waiters(k)
      BY <3>1, <3>2, <2>1, <1>6, <1>7
    <3>4. QED BY <3>3 DEF Ahead, Waiters
  <2>6. ASSUME NEW u \in Task, u # t PROVE Ahead(u)' = Ahead(u)
    <3>1. ref[u] \in LockId /\ ref'[u] = ref[u]
      BY <2>6, <1>1, <1>4 DEF TypeOK
    <3>2. \A v \in Task : Before(waiters'[ref[u]], v, u) <=> Before(waiters[ref[u]], v, u)
      <4>1. CASE ref[u] = l
        BY <4>1, <2>2, <2>6, <1>6, AppendBefore
      <4>2. CASE ref[u] # l
        BY <4>2, <2>2, <3>1
      <4>3. QED BY <4>1, <4>2
    <3>3. ~Before(waiters[ref[u]], t, u)
      BY <3>1, <1>6 DEF Before
    <3>4. \A v \in Task : (v \in Ahead(u))' <=> Live(v)' /\ Live(u)' /\ Before(waiters'[ref[u]], v, u)
      BY <3>1 DEF Ahead, Before
    <3>5. \A v \in Task : (v \in Ahead(u))' <=> v \in Ahead(u)
      BY <3>2, <3>3, <3>4, <2>1, <2>6 DEF Ahead
    <3>6. QED BY <3>5 DEF Ahead
  <2>7. Abstract!KJoin(t, k)
    BY <2>3, <2>4, <2>5, <2>6, <1>2, <1>5 DEF Abstract!KJoin
  <2>8. QED BY <2>7, <1>2 DEF Abstract!KNext
<1>10. QED BY <1>3, <1>8, <1>9

\* A task that leaves its deque is behind nobody and ahead of nobody; the order
\* of the others stays.
LEMMA LeavingOrder ==
  ASSUME IInv, NEW t \in Task, pc[t] \in Queued,
         waiters' = [waiters EXCEPT ![ref[t]] = Drop(@, t)], UNCHANGED ref,
         ~Live(t)', \A u \in Task : u # t => (Live(u)' <=> Live(u))
  PROVE  \A u \in Task : Ahead(u)' = IF u = t THEN {} ELSE Ahead(u) \ {t}
<1>1. TypeOK /\ WaitersMatchPC
  BY DEF IInv
<1> PICK l \in LockId : l = ref[t]
  BY <1>1 DEF TypeOK
<1>2. /\ waiters[l] \in Seq(Task)
      /\ \E i \in DOMAIN waiters[l] : waiters[l][i] = t
      /\ \A i, j \in DOMAIN waiters[l] : waiters[l][i] = waiters[l][j] => i = j
  BY <1>1 DEF TypeOK, WaitersMatchPC
<1>3. waiters'[l] = Drop(waiters[l], t) /\ \A m \in LockId : m # l => waiters'[m] = waiters[m]
  BY <1>1 DEF TypeOK
<1>4. ASSUME NEW u \in Task, u # t PROVE Ahead(u)' = Ahead(u) \ {t}
  <2>1. ref[u] \in LockId /\ ref'[u] = ref[u]
    BY <1>1 DEF TypeOK
  <2>2. \A v \in Task : v # t => (Before(waiters'[ref[u]], v, u) <=> Before(waiters[ref[u]], v, u))
    <3>1. CASE ref[u] = l
      BY <3>1, <1>2, <1>3, <1>4, DropBefore
    <3>2. CASE ref[u] # l
      BY <3>2, <2>1, <1>3
    <3>3. QED BY <3>1, <3>2
  <2>3. \A v \in Task : (v \in Ahead(u))' <=> Live(v)' /\ Live(u)' /\ Before(waiters'[ref[u]], v, u)
    BY <2>1 DEF Ahead, Before
  <2>4. \A v \in Task : (v \in Ahead(u))' <=> v \in Ahead(u) /\ v # t
    BY <2>2, <2>3, <1>4 DEF Ahead
  <2>5. QED BY <2>4 DEF Ahead
<1>5. Ahead(t)' = {}
  BY DEF Ahead
<1>6. QED BY <1>4, <1>5

LEMMA ResumeMaps == ASSUME IInv, NEW t \in Task, Resume(t) PROVE Abstract!KNext
<1>1. TypeOK /\ EntryIsStable /\ WaitersMatchPC /\ WokenIsHead /\ OneInside
  BY DEF IInv
<1> PICK k \in Key : k = KeyOf(t)
  BY <1>1, KeyOfType
<1>2. /\ pc[t] = "woken" /\ k \in Key /\ UNCHANGED <<sess, ref>>
      /\ waiters' = [waiters EXCEPT ![ref[t]] = Drop(@, t)]
      /\ pc'[t] = "critical" /\ \A u \in Task : u # t => pc'[u] = pc[u]
  BY <1>1, KeyOfType DEF Resume, TypeOK
<1>3. /\ \A u \in Task : KeyOf(u)' = KeyOf(u)
      /\ Live(t) /\ ~Live(t)' /\ pc[t] \in Queued
      /\ \A u \in Task : u # t => (Live(u)' <=> Live(u))
  BY <1>2 DEF KeyOf, Live, Queued
<1>4. t \in Waiters(k)
  BY <1>3 DEF Waiters
<1>5. Ahead(t) = {}
  <2>1. ASSUME NEW u \in Task, Before(waiters[ref[t]], u, t) PROVE FALSE
    <3>1. PICK i \in DOMAIN waiters[ref[t]], j \in DOMAIN waiters[ref[t]] :
            i < j /\ waiters[ref[t]][j] = t
      BY <2>1 DEF Before
    <3>2. ref[t] \in LockId /\ waiters[ref[t]] \in Seq(Task) /\ waiters[ref[t]][1] = t
      BY <1>1, <1>2 DEF TypeOK, WokenIsHead
    <3>3. 1 \in DOMAIN waiters[ref[t]] /\ i \in Nat /\ i >= 1 /\ j \in Nat
      BY <3>1, <3>2
    <3>4. j = 1
      BY <3>1, <3>2, <3>3, <1>1 DEF WaitersMatchPC
    <3>5. QED BY <3>1, <3>3, <3>4
  <2>2. QED BY <2>1 DEF Ahead
<1>6. Inside(k) = {}
  <2>1. ~locked[ref[t]] /\ locks[k] = ref[t]
    BY <1>1, <1>2 DEF WokenIsHead, EntryIsStable
  <2>2. \A u \in Task : pc[u] = "critical" /\ KeyOf(u) = k => ref[u] = ref[t]
    BY <2>1, <1>1 DEF EntryIsStable
  <2>3. QED BY <2>1, <2>2, <1>1 DEF OneInside, Inside
<1>7. /\ Inside(k)' = {t} /\ \A j \in Key : j # k => Inside(j)' = Inside(j)
      /\ Waiters(k)' = Waiters(k) \ {t} /\ \A j \in Key : j # k => Waiters(j)' = Waiters(j)
  <2>1. Inside(k)' = {t} /\ \A j \in Key : j # k => Inside(j)' = Inside(j)
    BY <1>2, <1>3, <1>6 DEF Inside
  <2>2. Waiters(k)' = Waiters(k) \ {t} /\ \A j \in Key : j # k => Waiters(j)' = Waiters(j)
    BY <1>3 DEF Waiters
  <2>3. QED BY <2>1, <2>2
<1>8. \A u \in Task : Ahead(u)' = IF u = t THEN {} ELSE Ahead(u) \ {t}
  BY <1>2, <1>3, LeavingOrder
<1>9. Abstract!KGrant(t, k)
  BY <1>2, <1>4, <1>5, <1>6, <1>7, <1>8 DEF Abstract!KGrant, Abstract!KLeaveQueue
<1>10. QED BY <1>2, <1>9 DEF Abstract!KNext

LEMMA CancelMaps == ASSUME IInv, NEW t \in Task, Cancel(t) PROVE Abstract!KNext
<1>1. TypeOK
  BY DEF IInv
<1> PICK k \in Key : k = KeyOf(t)
  BY <1>1, KeyOfType
<1>2. /\ pc[t] \in {"waiting", "woken"} /\ k \in Key /\ UNCHANGED <<waiters, sess, ref>>
      /\ pc'[t] \in {"cancelled", "wokenCancelled"} /\ \A u \in Task : u # t => pc'[u] = pc[u]
  BY <1>1, KeyOfType DEF Cancel, TypeOK
<1>3. /\ \A u \in Task : KeyOf(u)' = KeyOf(u)
      /\ Live(t) /\ ~Live(t)'
      /\ \A u \in Task : u # t => (Live(u)' <=> Live(u))
  BY <1>2 DEF KeyOf, Live
<1>4. t \in Waiters(k) /\ Waiters(k)' = Waiters(k) \ {t}
      /\ \A j \in Key : j # k => Waiters(j)' = Waiters(j)
  BY <1>3 DEF Waiters
<1>5. \A j \in Key : Inside(j)' = Inside(j)
  BY <1>2, <1>3 DEF Inside
<1>6. \A u \in Task : Ahead(u)' = IF u = t THEN {} ELSE Ahead(u) \ {t}
  BY <1>2, <1>3 DEF Ahead
<1>7. Abstract!KGiveUp(t, k)
  BY <1>2, <1>4, <1>5, <1>6 DEF Abstract!KGiveUp, Abstract!KLeaveQueue
<1>8. QED BY <1>2, <1>7 DEF Abstract!KNext

LEMMA ReleaseMaps == ASSUME IInv, NEW t \in Task, Release(t) PROVE Abstract!KNext
<1>1. TypeOK /\ EntryIsStable /\ OneInside
  BY DEF IInv
<1> PICK k \in Key : k = KeyOf(t)
  BY <1>1, KeyOfType
<1>2. /\ pc[t] = "critical" /\ k \in Key /\ UNCHANGED <<waiters, sess, ref>>
      /\ pc' = [WakeFirst(waiters[ref[t]], pc) EXCEPT ![t] = "idle"]
  BY <1>1, KeyOfType DEF Release
<1>3. waiters[ref[t]] \in Seq(Task) /\ pc \in [Task -> PC]
  BY <1>1 DEF TypeOK
<1>4. /\ pc'[t] = "idle"
      /\ \A u \in Task : u # t => pc'[u] = pc[u] \/ (pc[u] = "waiting" /\ pc'[u] = "woken")
  <2>1. \A u \in Task : \/ WakeFirst(waiters[ref[t]], pc)[u] = pc[u]
                        \/ pc[u] = "waiting" /\ WakeFirst(waiters[ref[t]], pc)[u] = "woken"
    BY <1>3, WakeFirstFacts
  <2>2. WakeFirst(waiters[ref[t]], pc) \in [Task -> PC]
    BY <1>3, WakeFirstFacts
  <2>3. PICK w \in [Task -> PC] : w = WakeFirst(waiters[ref[t]], pc)
    BY <1>3, <2>2
  <2>4. \A u \in Task : w[u] = pc[u] \/ (pc[u] = "waiting" /\ w[u] = "woken")
    BY <2>1, <2>3
  <2>5. pc' = [w EXCEPT ![t] = "idle"]
    BY <1>2, <2>3
  <2>6. QED BY <2>4, <2>5
<1>5. /\ \A u \in Task : KeyOf(u)' = KeyOf(u)
      /\ \A u \in Task : Live(u)' <=> Live(u)
  BY <1>2, <1>4 DEF KeyOf, Live
<1>6. \A u \in Task : pc[u] = "critical" /\ KeyOf(u) = k => u = t
  BY <1>1, <1>2 DEF EntryIsStable, OneInside
<1>7. t \in Inside(k) /\ Inside(k)' = {} /\ \A j \in Key : j # k => Inside(j)' = Inside(j)
  BY <1>2, <1>4, <1>5, <1>6 DEF Inside
<1>8. /\ \A j \in Key : Waiters(j)' = Waiters(j)
      /\ \A u \in Task : Ahead(u)' = Ahead(u)
  BY <1>2, <1>5 DEF Waiters, Ahead
<1>9. Abstract!KLeave(t, k)
  BY <1>2, <1>7, <1>8 DEF Abstract!KLeave
<1>10. QED BY <1>2, <1>9 DEF Abstract!KNext

LEMMA UnwindMaps == ASSUME IInv, NEW t \in Task, Unwind(t) PROVE UNCHANGED Abstract!kvars
<1>1. TypeOK /\ WaitersMatchPC
  BY DEF IInv
<1> DEFINE q == Drop(waiters[ref[t]], t)
<1>2. /\ pc[t] \in {"cancelled", "wokenCancelled"} /\ UNCHANGED <<sess, ref>>
      /\ waiters' = [waiters EXCEPT ![ref[t]] = Drop(@, t)]
      /\ pc' = [(IF locked[ref[t]] THEN pc ELSE WakeFirst(q, pc)) EXCEPT ![t] = "idle"]
  BY DEF Unwind
<1>3. q \in Seq(Task) /\ pc \in [Task -> PC]
  <2>1. /\ waiters[ref[t]] \in Seq(Task) /\ pc \in [Task -> PC]
        /\ \E i \in DOMAIN waiters[ref[t]] : waiters[ref[t]][i] = t
        /\ \A i, j \in DOMAIN waiters[ref[t]] : waiters[ref[t]][i] = waiters[ref[t]][j] => i = j
    BY <1>1, <1>2 DEF TypeOK, WaitersMatchPC, Queued
  <2>2. QED BY <2>1, DropFacts
<1>4. /\ pc'[t] = "idle"
      /\ \A u \in Task : u # t => pc'[u] = pc[u] \/ (pc[u] = "waiting" /\ pc'[u] = "woken")
  <2>1. \A u \in Task : \/ WakeFirst(q, pc)[u] = pc[u]
                        \/ pc[u] = "waiting" /\ WakeFirst(q, pc)[u] = "woken"
    BY <1>3, WakeFirstFacts
  <2>2. WakeFirst(q, pc) \in [Task -> PC]
    BY <1>3, WakeFirstFacts
  <2>3. PICK w \in [Task -> PC] : w = IF locked[ref[t]] THEN pc ELSE WakeFirst(q, pc)
    BY <1>3, <2>2
  <2>4. \A u \in Task : w[u] = pc[u] \/ (pc[u] = "waiting" /\ w[u] = "woken")
    BY <2>1, <2>3
  <2>5. pc' = [w EXCEPT ![t] = "idle"]
    BY <1>2, <2>3
  <2>6. QED BY <2>4, <2>5
<1>5. /\ \A u \in Task : KeyOf(u)' = KeyOf(u)
      /\ ~Live(t) /\ ~Live(t)' /\ pc[t] \in Queued
      /\ \A u \in Task : Live(u)' <=> Live(u)
  BY <1>2, <1>4 DEF KeyOf, Live, Queued
<1>6. /\ \A j \in Key : Inside(j)' = Inside(j)
      /\ \A j \in Key : Waiters(j)' = Waiters(j)
  BY <1>2, <1>4, <1>5 DEF Inside, Waiters
<1>7. \A u \in Task : Ahead(u)' = IF u = t THEN {} ELSE Ahead(u) \ {t}
  BY <1>2, <1>5, LeavingOrder
<1>8. \A u \in Task : Ahead(u)' = Ahead(u)
  BY <1>5, <1>7 DEF Ahead
<1>9. QED BY <1>6, <1>8 DEF Abstract!kvars

\* session_lock.py is a first-come first-served mutex per key: a step of a task
\* is an operation of KeyedMutex or, when a cancelled waiter unwinds, none.
THEOREM IsKeyedMutex == Spec => ImplementsKeyedMutex
<1>1. Init => Abstract!KInit
  BY DEF Init, Abstract!KInit, Inside, Waiters, Ahead, Live
<1>2. IInv /\ [Next]_vars => [Abstract!KNext]_Abstract!kvars
  <2>1. SUFFICES ASSUME IInv, [Next]_vars PROVE [Abstract!KNext]_Abstract!kvars
    OBVIOUS
  <2>2. ASSUME NEW t \in Task, NEW s \in Session, Acquire(t, s) PROVE Abstract!KNext
    BY <2>1, <2>2, AcquireMaps
  <2>3. ASSUME NEW t \in Task, Resume(t) PROVE Abstract!KNext
    BY <2>1, <2>3, ResumeMaps
  <2>4. ASSUME NEW t \in Task, Release(t) PROVE Abstract!KNext
    BY <2>1, <2>4, ReleaseMaps
  <2>5. ASSUME NEW t \in Task, Cancel(t) PROVE Abstract!KNext
    BY <2>1, <2>5, CancelMaps
  <2>6. ASSUME NEW t \in Task, Unwind(t) PROVE UNCHANGED Abstract!kvars
    BY <2>1, <2>6, UnwindMaps
  <2>7. CASE UNCHANGED vars
    BY <2>7 DEF vars, Abstract!kvars, Inside, Waiters, Ahead, Live, KeyOf
  <2>8. QED BY <2>1, <2>2, <2>3, <2>4, <2>5, <2>6, <2>7 DEF Next
<1>3. QED BY <1>1, <1>2, Inductive, PTL DEF Spec, ImplementsKeyedMutex, Abstract!KSpec
=============================================================================

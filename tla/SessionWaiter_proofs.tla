------------------------ MODULE SessionWaiter_proofs ------------------------
(***************************************************************************)
(* Proofs about SessionWaiter for any waiters, messages, sessions and      *)
(* filters: its types, that a waiter's handler takes one message at a      *)
(* time, and that a waiter which shares nothing is listed until its end.   *)
(***************************************************************************)
EXTENDS SessionWaiter, SequenceTheorems, WellFoundedInduction, TLAPS

(***************************************************************************)
(* The inductive invariant                                                 *)
(***************************************************************************)

TablesOK ==
  /\ userSessions \in [Session -> Waiter \cup {None}] /\ filters \in Seq(Filter)
  /\ waiter \in [Waiter -> {"idle", "waiting", "over"}]
  /\ future \in [Waiter -> {"pending", "result", "error"}]
  /\ \A w \in crossed : w \in Waiter

MessagesOK ==
  /\ queue \in [Waiter -> Seq(Msg)]
  /\ msg \in [Msg -> {"new", "queued", "running", "over"}]
  /\ next \in [Msg -> Nat \ {0}] /\ target \in [Msg -> Waiter \cup {None}]

\* The table of sessions names waiters of that session that wait.
EntryWaits == \A s \in Session :
  userSessions[s] # None => /\ waiter[userSessions[s]] = "waiting"
                            /\ SessionOf[userSessions[s]] = s

\* Two that wait at the same time and share something have both been marked.
SharersCrossed == \A v, w \in Waiter :
  /\ v # w /\ waiter[v] = "waiting" /\ waiter[w] = "waiting"
  /\ SessionOf[v] = SessionOf[w] \/ FilterOf[v] = FilterOf[w]
  => v \in crossed /\ w \in crossed

TableInv == TablesOK /\ EntryWaits /\ SharersCrossed /\ LiveWaiterIsFound

\* The line q of each lock, with states st and targets tg: it holds once each of
\* the messages that trigger the waiter, and only the first may be running.
InLine(q, st, tg) ==
  /\ \A w \in Waiter : \A i, j \in 1 .. Len(q[w]) : q[w][i] = q[w][j] => i = j
  /\ \A w \in Waiter : \A i \in 1 .. Len(q[w]) :
       /\ st[q[w][i]] \in {"queued", "running"} /\ tg[q[w][i]] = w
       /\ st[q[w][i]] = "running" => i = 1
  /\ \A m \in Msg : st[m] \in {"queued", "running"} =>
       /\ tg[m] \in Waiter
       /\ \E i \in 1 .. Len(q[tg[m]]) : q[tg[m]][i] = m

LineInv == TablesOK /\ MessagesOK /\ InLine(queue, msg, target)

(***************************************************************************)
(* Helpers                                                                 *)
(***************************************************************************)

\* A set of naturals that is not empty has a least member.
LEMMA MinIsMember ==
  ASSUME NEW T \in SUBSET Nat, T # {}
  PROVE  Min(T) \in T /\ \A y \in T : Min(T) <= y
<1>1. PICK x \in T : \A y \in T : ~(<<y, x>> \in OpToRel(<, Nat))
  BY NatLessThanWellFounded, WFMin, Zenon
<1>2. ASSUME NEW y \in T PROVE x <= y
  <2>1. ~(<<y, x>> \in OpToRel(<, Nat))
    BY <1>1
  <2>2. x \in Nat /\ y \in Nat
    OBVIOUS
  <2>3. y < x => <<y, x>> \in OpToRel(<, Nat)
    BY <2>2 DEF OpToRel
  <2>4. ~(y < x)
    BY <2>1, <2>3, Zenon
  <2>5. QED BY <2>2, <2>4
<1>3. QED BY <1>1, <1>2 DEF Min

\* Taking the first e out of a sequence leaves what is not e in it.
LEMMA FirstRemoved ==
  ASSUME NEW s \in Seq(Filter), NEW e
  PROVE  /\ RemoveFirst(s, e) \in Seq(Filter)
         /\ \A x \in ToSet(s) : x # e => x \in ToSet(RemoveFirst(s, e))
<1> DEFINE I == {i \in 1 .. Len(s) : s[i] = e}
<1>1. Len(s) \in Nat /\ DOMAIN s = 1 .. Len(s) /\ \A i \in 1 .. Len(s) : s[i] \in Filter
  BY LenProperties, ElementOfSeq
<1>2. CASE I = {}
  <2>1. RemoveFirst(s, e) = s
    BY <1>2 DEF RemoveFirst
  <2>2. QED BY <2>1
<1>3. CASE I # {}
  <2> DEFINE k == Min(I)
             a == SubSeq(s, 1, k - 1)
             b == SubSeq(s, k + 1, Len(s))
             r == RemoveFirst(s, e)
  <2>1. k \in 1 .. Len(s) /\ s[k] = e
    <3>1. I \in SUBSET Nat
      OBVIOUS
    <3>2. k \in I
      BY <1>3, <3>1, MinIsMember
    <3>3. QED BY <3>2
  <2>2. r = a \o b
    BY <1>3 DEF RemoveFirst, RemoveAt, SelectInSeq
  <2> HIDE DEF I, k, a, b, r
  <2>3. /\ \A i \in 1 .. k - 1 : s[i] \in Filter
        /\ \A i \in k + 1 .. Len(s) : s[i] \in Filter
        /\ k \in Int /\ k - 1 \in Int /\ k + 1 \in Int /\ Len(s) \in Int
    BY <1>1, <2>1
  <2>4. /\ a \in Seq(Filter) /\ Len(a) = k - 1
        /\ \A i \in 1 .. k - 1 : a[i] = s[i]
    <3>1. /\ a \in Seq(Filter) /\ Len(a) = IF 1 <= k - 1 THEN k - 1 - 1 + 1 ELSE 0
          /\ \A i \in 1 .. (k - 1) - 1 + 1 : a[i] = s[1 + i - 1]
      BY <2>3, SubSeqProperties DEF a
    <3>2. QED BY <2>1, <3>1, <1>1
  <2>5. /\ b \in Seq(Filter) /\ Len(b) = Len(s) - k
        /\ \A i \in 1 .. Len(s) - k : b[i] = s[k + i]
    <3>1. PICK l \in Int : l = k + 1
      BY <2>3
    <3>2. PICK n \in Int : n = Len(s)
      BY <2>3
    <3>3. \A i \in l .. n : s[i] \in Filter
      BY <2>3, <3>1, <3>2
    <3>4. /\ SubSeq(s, l, n) \in Seq(Filter)
          /\ Len(SubSeq(s, l, n)) = IF l <= n THEN n - l + 1 ELSE 0
          /\ \A i \in 1 .. n - l + 1 : SubSeq(s, l, n)[i] = s[l + i - 1]
      BY <3>3, SubSeqProperties, Z3
    <3>5. b = SubSeq(s, l, n)
      BY <3>1, <3>2 DEF b
    <3>6. Len(b) = Len(s) - k
      <4>1. (IF l <= n THEN n - l + 1 ELSE 0) = Len(s) - k
        <5>1. k \in Nat /\ n \in Nat /\ k <= n
          BY <1>1, <2>1, <3>2
        <5>2. (IF l <= n THEN n - l + 1 ELSE 0) = n - k
          BY <3>1, <5>1
        <5>3. QED BY <3>2, <5>2
      <4>2. QED BY <3>4, <3>5, <4>1, Zenon
    <3>7. \A i \in 1 .. Len(s) - k : i \in 1 .. n - l + 1 /\ l + i - 1 = k + i
      BY <1>1, <2>1, <3>1, <3>2
    <3>8. QED BY <3>4, <3>5, <3>6, <3>7
  <2>6. /\ a \o b \in Seq(Filter) /\ Len(a \o b) = Len(a) + Len(b)
        /\ \A i \in 1 .. Len(a) + Len(b) : (a \o b)[i] = IF i <= Len(a) THEN a[i] ELSE b[i - Len(a)]
    <3>1. a \in Seq(Filter) /\ b \in Seq(Filter)
      BY <2>4, <2>5
    <3>2. QED BY <3>1, ConcatProperties
  <2> DEFINE c == a \o b
  <2> HIDE DEF c
  <2>7. /\ c \in Seq(Filter) /\ Len(c) = Len(s) - 1 /\ DOMAIN c = 1 .. Len(c)
        /\ \A i \in 1 .. k - 1 : c[i] = s[i]
        /\ \A i \in k .. Len(s) - 1 : c[i] = s[i + 1]
    <3>1. c \in Seq(Filter) /\ Len(c) = Len(s) - 1
      BY <1>1, <2>1, <2>4, <2>5, <2>6 DEF c
    <3>2. \A i \in 1 .. k - 1 : c[i] = s[i]
      BY <1>1, <2>1, <2>4, <2>5, <2>6 DEF c
    <3>3. ASSUME NEW i \in k .. Len(s) - 1 PROVE c[i] = s[i + 1]
      <4>1. i \in 1 .. Len(a) + Len(b) /\ ~(i <= Len(a)) /\ i - Len(a) = i - k + 1
        BY <1>1, <2>1, <2>4, <2>5
      <4>2. c[i] = b[i - k + 1]
        BY <2>6, <4>1 DEF c
      <4>3. i - k + 1 \in 1 .. Len(s) - k /\ k + (i - k + 1) = i + 1
        BY <1>1, <2>1
      <4>4. QED BY <2>5, <4>2, <4>3
    <3>4. QED BY <3>1, <3>2, <3>3
  <2>8. ASSUME NEW x \in ToSet(s), x # e PROVE x \in ToSet(c)
    <3>1. PICK i \in 1 .. Len(s) : s[i] = x
      BY <1>1 DEF ToSet
    <3>2. i # k
      BY <2>1, <2>8, <3>1
    <3>3. CASE i < k
      <4>1. i \in 1 .. k - 1 /\ i \in DOMAIN c
        BY <1>1, <2>1, <2>7, <3>3
      <4>2. QED BY <2>7, <3>1, <4>1 DEF ToSet
    <3>4. CASE i > k
      <4>1. i - 1 \in k .. Len(s) - 1 /\ i - 1 \in DOMAIN c /\ (i - 1) + 1 = i
        BY <1>1, <2>1, <2>7, <3>4
      <4>2. c[i - 1] = x
        BY <2>7, <3>1, <4>1
      <4>3. QED BY <4>1, <4>2 DEF ToSet
    <3>5. QED BY <1>1, <2>1, <3>2, <3>3, <3>4
  <2>9. QED BY <2>2, <2>7, <2>8 DEF c, r
<1>4. QED BY <1>2, <1>3

\* What the loop over the filters does next with message m: it is over, or m
\* joins the line of a waiter that is not done.
ScanOutcome(m, q, f) ==
  \/ /\ msg' = [msg EXCEPT ![m] = "over"] /\ next' = [next EXCEPT ![m] = 1]
     /\ target' = [target EXCEPT ![m] = None] /\ queue' = q
  \/ \E w \in Waiter, j \in Nat \ {0} :
       /\ f[w] = "pending"
       /\ msg' = [msg EXCEPT ![m] = IF q[w] = <<>> THEN "running" ELSE "queued"]
       /\ next' = [next EXCEPT ![m] = j]
       /\ target' = [target EXCEPT ![m] = w]
       /\ queue' = [q EXCEPT ![w] = Append(@, m)]

LEMMA ScanFacts ==
  ASSUME TablesOK, MessagesOK, NEW m \in Msg, NEW n \in Nat \ {0}, NEW q, NEW f,
         Scan(m, n, q, f)
  PROVE  ScanOutcome(m, q, f)
<1> DEFINE hits == Hits(m, n, f)
<1>1. CASE hits = {}
  BY <1>1 DEF Scan, ScanOutcome
<1>2. CASE hits # {}
  <2> DEFINE i == Min(hits)
             w == userSessions[Key[filters[i]][m]]
  <2>1. Len(filters) \in Nat /\ \A k \in 1 .. Len(filters) : filters[k] \in Filter
    BY LenProperties, ElementOfSeq DEF TablesOK
  <2>2. hits \in SUBSET Nat
    BY <2>1 DEF Hits
  <2>3. i \in hits
    BY <1>2, <2>2, MinIsMember
  <2>4. i \in n .. Len(filters) /\ w # None /\ f[w] = "pending"
    BY <2>3 DEF Hits
  <2>5. i \in 1 .. Len(filters) /\ i + 1 \in Nat \ {0}
    BY <2>1, <2>4
  <2>6. w \in Waiter
    <3>1. Key[filters[i]][m] \in Session
      BY <2>1, <2>5, WaiterAssumption
    <3>2. QED BY <2>4, <3>1 DEF TablesOK
  <2>7. /\ msg' = [msg EXCEPT ![m] = IF q[w] = <<>> THEN "running" ELSE "queued"]
        /\ next' = [next EXCEPT ![m] = i + 1]
        /\ target' = [target EXCEPT ![m] = w]
        /\ queue' = [q EXCEPT ![w] = Append(@, m)]
    BY <1>2 DEF Scan
  <2> HIDE DEF hits, i, w
  <2>8. QED BY <2>4, <2>5, <2>6, <2>7 DEF ScanOutcome
<1>3. QED BY <1>1, <1>2

(***************************************************************************)
(* The tables                                                              *)
(***************************************************************************)

LEMMA TablesInit == Init => TableInv
<1> SUFFICES ASSUME Init PROVE TableInv
  OBVIOUS
<1>1. filters = <<>> /\ <<>> \in Seq(Filter)
  BY EmptySeq DEF Init
<1>2. TablesOK
  BY <1>1 DEF Init, TablesOK
<1>3. QED BY <1>2 DEF Init, TableInv, EntryWaits, SharersCrossed, LiveWaiterIsFound

LEMMA RegisterTables == ASSUME TableInv, NEW w \in Waiter, Register(w) PROVE TableInv'
<1> DEFINE rivals == {v \in Waiter : /\ waiter[v] = "waiting"
                                     /\ \/ SessionOf[v] = SessionOf[w]
                                        \/ FilterOf[v] = FilterOf[w]}
<1>1. TablesOK /\ EntryWaits /\ SharersCrossed /\ LiveWaiterIsFound
  BY DEF TableInv
<1>2. /\ waiter[w] = "idle" /\ waiter' = [waiter EXCEPT ![w] = "waiting"]
      /\ filters' = Append(filters, FilterOf[w])
      /\ userSessions' = [userSessions EXCEPT ![SessionOf[w]] = w]
      /\ crossed' = IF rivals = {} THEN crossed ELSE crossed \cup rivals \cup {w}
      /\ future' = future
  BY DEF Register
<1>3. FilterOf[w] \in Filter /\ SessionOf[w] \in Session
  BY WaiterAssumption
<1>4. filters' \in Seq(Filter) /\ FilterOf[w] \in ToSet(filters')
                               /\ \A x \in ToSet(filters) : x \in ToSet(filters')
  <2> DEFINE a == Append(filters, FilterOf[w])
  <2>1. filters \in Seq(Filter) /\ Len(filters) \in Nat /\ DOMAIN filters = 1 .. Len(filters)
    BY <1>1, LenProperties DEF TablesOK
  <2>2. /\ a \in Seq(Filter) /\ Len(a) = Len(filters) + 1
        /\ \A i \in 1 .. Len(filters) : a[i] = filters[i]
        /\ a[Len(filters) + 1] = FilterOf[w]
    BY <1>3, <2>1, AppendProperties
  <2> HIDE DEF a
  <2>3. DOMAIN a = 1 .. Len(filters) + 1
    BY <2>2, LenProperties
  <2>4. /\ Len(filters) + 1 \in DOMAIN a
        /\ \A i \in 1 .. Len(filters) : i \in DOMAIN a
    BY <2>1, <2>3
  <2>5. FilterOf[w] \in ToSet(a) /\ \A x \in ToSet(filters) : x \in ToSet(a)
    BY <2>1, <2>2, <2>4 DEF ToSet
  <2>6. QED BY <1>2, <2>2, <2>5 DEF a
<1>5. TablesOK'
  BY <1>1, <1>2, <1>3, <1>4 DEF TablesOK
<1>6. EntryWaits'
  <2> SUFFICES ASSUME NEW s \in Session, userSessions'[s] # None
               PROVE  waiter'[userSessions'[s]] = "waiting" /\ SessionOf[userSessions'[s]] = s
    BY DEF EntryWaits
  <2>1. CASE s = SessionOf[w]
    BY <1>1, <1>2, <2>1 DEF TablesOK
  <2>2. CASE s # SessionOf[w]
    <3>1. userSessions'[s] = userSessions[s] /\ userSessions[s] \in Waiter
      BY <1>1, <1>2, <2>2 DEF TablesOK
    <3>2. waiter[userSessions[s]] = "waiting" /\ SessionOf[userSessions[s]] = s
      BY <1>1, <3>1 DEF EntryWaits
    <3>3. QED BY <1>1, <1>2, <3>1, <3>2 DEF TablesOK
  <2>3. QED BY <2>1, <2>2
<1>7. \A v \in Waiter \ {w} : waiter'[v] = waiter[v]
  BY <1>1, <1>2 DEF TablesOK
<1>8. /\ \A v \in crossed : v \in crossed'
      /\ \A v \in rivals : v \in crossed' /\ w \in crossed'
  BY <1>2
<1>9. SharersCrossed'
  <2> SUFFICES ASSUME NEW v \in Waiter, NEW u \in Waiter, v # u,
                      waiter'[v] = "waiting", waiter'[u] = "waiting",
                      SessionOf[v] = SessionOf[u] \/ FilterOf[v] = FilterOf[u]
               PROVE  v \in crossed' /\ u \in crossed'
    BY DEF SharersCrossed
  <2>1. CASE v = w
    BY <1>7, <1>8, <2>1
  <2>2. CASE u = w
    BY <1>7, <1>8, <2>2
  <2>3. CASE v # w /\ u # w
    BY <1>1, <1>7, <1>8, <2>3 DEF SharersCrossed
  <2>4. QED BY <2>1, <2>2, <2>3
<1>10. LiveWaiterIsFound'
  <2>1. ASSUME NEW v \in Waiter, v \notin crossed', waiter'[v] = "waiting"
        PROVE  userSessions'[SessionOf[v]] = v /\ FilterOf[v] \in ToSet(filters')
    <3>1. CASE v = w
      BY <1>1, <1>2, <1>3, <1>4, <3>1 DEF TablesOK
    <3>2. CASE v # w
      <4>1. SessionOf[v] # SessionOf[w] /\ v \notin crossed /\ waiter[v] = "waiting"
        BY <1>7, <1>8, <2>1, <3>2
      <4>2. userSessions[SessionOf[v]] = v /\ FilterOf[v] \in ToSet(filters)
        BY <1>1, <4>1 DEF LiveWaiterIsFound
      <4>3. userSessions'[SessionOf[v]] = userSessions[SessionOf[v]]
        BY <1>1, <1>2, <4>1, WaiterAssumption DEF TablesOK
      <4>4. QED BY <1>4, <4>2, <4>3
    <3>3. QED BY <3>1, <3>2
  <2>2. QED BY <1>6, <2>1 DEF EntryWaits, LiveWaiterIsFound
<1>11. QED BY <1>5, <1>6, <1>9, <1>10 DEF TableInv

\* What a waiter's _cleanup takes out is its own, unless it shared it.
LEMMA ResumeTables == ASSUME TableInv, NEW w \in Waiter, Resume(w) PROVE TableInv'
<1>1. TablesOK /\ EntryWaits /\ SharersCrossed /\ LiveWaiterIsFound
  BY DEF TableInv
<1> DEFINE once == RemoveFirst(filters, FilterOf[w])
<1>2. /\ waiter[w] = "waiting" /\ waiter' = [waiter EXCEPT ![w] = "over"]
      /\ userSessions' = [userSessions EXCEPT ![SessionOf[w]] = None]
      /\ filters' = IF future[w] = "error" THEN RemoveFirst(once, FilterOf[w]) ELSE once
      /\ crossed' = crossed /\ future' = future
  BY DEF Resume
<1>3. /\ filters' \in Seq(Filter)
      /\ \A x \in ToSet(filters) : x # FilterOf[w] => x \in ToSet(filters')
  <2>1. filters \in Seq(Filter)
    BY <1>1 DEF TablesOK
  <2>2. once \in Seq(Filter) /\ \A x \in ToSet(filters) : x # FilterOf[w] => x \in ToSet(once)
    BY <2>1, FirstRemoved
  <2> DEFINE twice == RemoveFirst(once, FilterOf[w])
  <2>3. twice \in Seq(Filter) /\ \A x \in ToSet(once) : x # FilterOf[w] => x \in ToSet(twice)
    BY <2>2, FirstRemoved
  <2> HIDE DEF once, twice
  <2>4. filters' = twice \/ filters' = once
    BY <1>2 DEF twice
  <2>5. QED BY <2>2, <2>3, <2>4
<1> HIDE DEF once
<1>4. TablesOK'
  BY <1>1, <1>2, <1>3 DEF TablesOK
<1>5. \A v \in Waiter \ {w} : waiter'[v] = waiter[v]
  BY <1>1, <1>2 DEF TablesOK
<1>6. waiter'[w] = "over"
  BY <1>1, <1>2 DEF TablesOK
<1>7. \A s \in Session : userSessions'[s] = IF s = SessionOf[w] THEN None ELSE userSessions[s]
  BY <1>1, <1>2 DEF TablesOK
<1>8. EntryWaits'
  <2> SUFFICES ASSUME NEW s \in Session, userSessions'[s] # None
               PROVE  waiter'[userSessions'[s]] = "waiting" /\ SessionOf[userSessions'[s]] = s
    BY DEF EntryWaits
  <2>1. s # SessionOf[w] /\ userSessions'[s] = userSessions[s]
    BY <1>7
  <2>2. waiter[userSessions[s]] = "waiting" /\ SessionOf[userSessions[s]] = s
    BY <1>1, <2>1 DEF EntryWaits
  <2>3. userSessions[s] \in Waiter \ {w}
    BY <1>1, <2>1, <2>2 DEF TablesOK
  <2>4. QED BY <1>5, <2>1, <2>2, <2>3
<1>9. SharersCrossed'
  BY <1>1, <1>2, <1>5, <1>6 DEF SharersCrossed
<1>10. ASSUME NEW v \in Waiter, v \notin crossed', waiter'[v] = "waiting"
       PROVE  userSessions'[SessionOf[v]] = v /\ FilterOf[v] \in ToSet(filters')
  <2>1. v # w /\ waiter[v] = "waiting" /\ v \notin crossed
    BY <1>2, <1>5, <1>6, <1>10
  <2>2. SessionOf[v] # SessionOf[w] /\ FilterOf[v] # FilterOf[w]
    BY <1>1, <1>2, <2>1 DEF SharersCrossed
  <2>3. userSessions[SessionOf[v]] = v /\ FilterOf[v] \in ToSet(filters)
    BY <1>1, <2>1 DEF LiveWaiterIsFound
  <2>4. SessionOf[v] \in Session
    BY WaiterAssumption
  <2>5. QED BY <1>3, <1>7, <2>2, <2>3, <2>4
<1>11. LiveWaiterIsFound'
  BY <1>8, <1>10 DEF EntryWaits, LiveWaiterIsFound
<1>12. QED BY <1>4, <1>8, <1>9, <1>11 DEF TableInv

\* The steps of the messages leave the tables alone.
LEMMA OtherTables ==
  ASSUME TableInv,
         UNCHANGED vars \/ (\E w \in Waiter : TimesOut(w)) \/ (\E m \in Msg : MsgStep(m))
  PROVE  TableInv'
<1>1. UNCHANGED <<userSessions, filters, waiter, crossed>>
  BY DEF vars, tableVars, TimesOut, MsgStep, Arrive, Acquire, HandlerStops, HandlerEnds,
         HandlerReturns, HandlerRaises
<1> DEFINE F(f) == f \in [Waiter -> {"pending", "result", "error"}]
<1>2. F(future')
  <2>1. F(future)
    BY DEF TableInv, TablesOK
  <2>2. CASE UNCHANGED vars
    BY <2>1, <2>2 DEF vars
  <2>3. ASSUME NEW w \in Waiter, TimesOut(w) PROVE F(future')
    BY <2>1, <2>3 DEF TimesOut
  <2>4. ASSUME NEW m \in Msg, MsgStep(m) PROVE F(future')
    <3>1. CASE Arrive(m) \/ Acquire(m) \/ HandlerReturns(m)
      BY <2>1, <3>1 DEF Arrive, Acquire, HandlerReturns
    <3>2. CASE HandlerStops(m) \/ HandlerRaises(m)
      BY <2>1, <3>2 DEF HandlerStops, HandlerRaises
    <3>3. QED BY <2>4, <3>1, <3>2 DEF MsgStep, HandlerEnds
  <2>5. QED BY <2>2, <2>3, <2>4
<1>3. TablesOK'
  BY <1>1, <1>2 DEF TableInv, TablesOK
<1>4. EntryWaits' /\ SharersCrossed' /\ LiveWaiterIsFound'
  BY <1>1 DEF TableInv, EntryWaits, SharersCrossed, LiveWaiterIsFound
<1>5. QED BY <1>3, <1>4 DEF TableInv

LEMMA TablesHold == Spec => []TableInv
<1>1. TableInv /\ [Next]_vars => TableInv'
  <2> SUFFICES ASSUME TableInv, [Next]_vars PROVE TableInv'
    OBVIOUS
  <2>1. ASSUME NEW w \in Waiter, Register(w) PROVE TableInv'
    BY <2>1, RegisterTables
  <2>2. ASSUME NEW w \in Waiter, Resume(w) PROVE TableInv'
    BY <2>2, ResumeTables
  <2>3. QED BY <2>1, <2>2, OtherTables DEF Next, WaiterStep
<1>2. QED BY <1>1, TablesInit, PTL DEF Spec

\* The tables name only waiters that wait, and a waiter that never shared its
\* session or its filter with one that waited at the same time stays entered
\* under both until it is over: no cleanup of another takes its entries.
THEOREM Found == Spec => []LiveWaiterIsFound
<1>1. TableInv => LiveWaiterIsFound
  BY DEF TableInv
<1>2. QED BY <1>1, TablesHold, PTL

(***************************************************************************)
(* The lines of the locks                                                  *)
(***************************************************************************)

\* The holder of a lock leaves its line ...
LEMMA Leave ==
  ASSUME NEW q \in [Waiter -> Seq(Msg)], NEW st \in [Msg -> {"new", "queued", "running", "over"}],
         NEW tg \in [Msg -> Waiter \cup {None}], InLine(q, st, tg),
         NEW m \in Msg, st[m] \in {"queued", "running"}, Head(q[tg[m]]) = m
  PROVE  /\ [q EXCEPT ![tg[m]] = Tail(@)] \in [Waiter -> Seq(Msg)]
         /\ InLine([q EXCEPT ![tg[m]] = Tail(@)], [st EXCEPT ![m] = "over"], [tg EXCEPT ![m] = None])
<1> DEFINE w == tg[m]
           r == [q EXCEPT ![w] = Tail(@)]
           s == [st EXCEPT ![m] = "over"]
           t == [tg EXCEPT ![m] = None]
<1>1. w \in Waiter /\ q[w] \in Seq(Msg) /\ q[w] # <<>> /\ Len(q[w]) \in Nat /\ 1 \in 1 .. Len(q[w])
      /\ q[w][1] = m
  <2>1. w \in Waiter /\ \E i \in 1 .. Len(q[w]) : q[w][i] = m
    BY DEF InLine
  <2>2. q[w] \in Seq(Msg)
    BY <2>1
  <2>3. Len(q[w]) \in Nat /\ 1 \in 1 .. Len(q[w])
    BY <2>1, <2>2, LenProperties
  <2>4. q[w] # <<>>
    BY <2>3, EmptySeq
  <2>5. QED BY <2>1, <2>2, <2>3, <2>4
<1>2. /\ Tail(q[w]) \in Seq(Msg) /\ Len(Tail(q[w])) = Len(q[w]) - 1
      /\ \A i \in 1 .. Len(q[w]) - 1 : Tail(q[w])[i] = q[w][i + 1]
  BY <1>1, HeadTailProperties
<1>3. r \in [Waiter -> Seq(Msg)] /\ r[w] = Tail(q[w]) /\ \A v \in Waiter \ {w} : r[v] = q[v]
  BY <1>1, <1>2
<1>4. \A i \in 1 .. Len(q[w]) - 1 : i \in 1 .. Len(q[w]) /\ i + 1 \in 1 .. Len(q[w]) /\ i + 1 # 1
  BY <1>1
\* where the elements of the new lines come from
<1>5. ASSUME NEW v \in Waiter, NEW i \in 1 .. Len(r[v])
      PROVE  /\ r[v][i] = q[v][IF v = w THEN i + 1 ELSE i]
             /\ (IF v = w THEN i + 1 ELSE i) \in 1 .. Len(q[v])
             /\ r[v][i] \in Msg \ {m}
  <2>1. CASE v = w
    <3>1. i \in 1 .. Len(q[w]) - 1
      BY <1>2, <1>3, <2>1
    <3>2. r[v][i] = q[w][i + 1] /\ i + 1 \in 1 .. Len(q[w]) /\ i + 1 # 1
      BY <1>2, <1>3, <1>4, <2>1, <3>1
    <3>3. q[w][i + 1] \in Msg
      BY <1>1, <3>2, ElementOfSeq
    <3>4. q[w][i + 1] # m
      BY <1>1, <3>2 DEF InLine
    <3>5. QED BY <2>1, <3>2, <3>3, <3>4
  <2>2. CASE v # w
    <3>1. r[v] = q[v] /\ q[v] \in Seq(Msg)
      BY <1>3, <2>2
    <3>2. q[v][i] \in Msg
      BY <3>1, ElementOfSeq
    <3>3. q[v][i] # m
      BY <2>2, <3>1 DEF InLine
    <3>4. QED BY <2>2, <3>1, <3>2, <3>3
  <2>3. QED BY <2>1, <2>2
<1>6. \A k \in Msg \ {m} : s[k] = st[k] /\ t[k] = tg[k]
  OBVIOUS
<1>7. s[m] = "over"
  OBVIOUS
<1> HIDE DEF r, s, t, w
<1>8. ASSUME NEW v \in Waiter, NEW i \in 1 .. Len(r[v]), NEW j \in 1 .. Len(r[v]), r[v][i] = r[v][j]
      PROVE  i = j
  <2>1. i \in Nat /\ j \in Nat
    <3>1. r[v] \in Seq(Msg)
      BY <1>3
    <3>2. QED BY <3>1, LenProperties
  <2> DEFINE k == IF v = w THEN i + 1 ELSE i
             l == IF v = w THEN j + 1 ELSE j
  <2>2. k \in 1 .. Len(q[v]) /\ l \in 1 .. Len(q[v]) /\ q[v][k] = q[v][l]
    BY <1>5, <1>8
  <2>3. k = l => i = j
    BY <2>1
  <2> HIDE DEF k, l
  <2>4. QED BY <2>2, <2>3 DEF InLine
<1>9. ASSUME NEW v \in Waiter, NEW i \in 1 .. Len(r[v])
      PROVE  s[r[v][i]] \in {"queued", "running"} /\ t[r[v][i]] = v /\ (s[r[v][i]] = "running" => i = 1)
  <2> DEFINE k == IF v = w THEN i + 1 ELSE i
  <2>1. i \in Nat /\ i >= 1
    <3>1. r[v] \in Seq(Msg)
      BY <1>3
    <3>2. QED BY <3>1, LenProperties
  <2>2. r[v][i] = q[v][k] /\ k \in 1 .. Len(q[v]) /\ r[v][i] \in Msg \ {m}
    BY <1>5
  <2>3. k = 1 => i = 1
    BY <2>1
  <2> HIDE DEF k
  <2>4. /\ st[q[v][k]] \in {"queued", "running"} /\ tg[q[v][k]] = v
        /\ st[q[v][k]] = "running" => k = 1
    BY <2>2 DEF InLine
  <2>5. QED BY <1>6, <2>2, <2>3, <2>4
<1>10. ASSUME NEW k \in Msg, s[k] \in {"queued", "running"}
       PROVE  t[k] \in Waiter /\ \E i \in 1 .. Len(r[t[k]]) : r[t[k]][i] = k
  <2>1. k # m
    BY <1>7, <1>10
  <2>2. s[k] = st[k] /\ t[k] = tg[k]
    BY <1>6, <2>1
  <2>3. tg[k] \in Waiter
    BY <1>10, <2>2 DEF InLine
  <2>4. PICK i \in 1 .. Len(q[tg[k]]) : q[tg[k]][i] = k
    BY <1>10, <2>2 DEF InLine
  <2>5. CASE tg[k] # w
    BY <1>3, <2>2, <2>3, <2>4, <2>5
  <2>6. CASE tg[k] = w
    <3>1. i # 1
      BY <1>1, <2>1, <2>4, <2>6
    <3>2. i - 1 \in 1 .. Len(q[w]) - 1 /\ (i - 1) + 1 = i
      BY <1>1, <2>4, <2>6, <3>1
    <3>3. r[w][i - 1] = k /\ i - 1 \in 1 .. Len(r[w])
      BY <1>2, <1>3, <2>4, <2>6, <3>2
    <3>4. QED BY <2>2, <2>3, <2>6, <3>3
  <2>7. QED BY <2>5, <2>6
<1>11. InLine(r, s, t)
  BY <1>8, <1>9, <1>10 DEF InLine
<1>12. QED BY <1>3, <1>11 DEF r, s, t, w

\* ... and one that is in no line may join one.
LEMMA Join ==
  ASSUME NEW q \in [Waiter -> Seq(Msg)], NEW st \in [Msg -> {"new", "queued", "running", "over"}],
         NEW tg \in [Msg -> Waiter \cup {None}], InLine(q, st, tg),
         NEW m \in Msg, st[m] \notin {"queued", "running"}, NEW w \in Waiter
  PROVE  /\ [q EXCEPT ![w] = Append(@, m)] \in [Waiter -> Seq(Msg)]
         /\ InLine([q EXCEPT ![w] = Append(@, m)],
                   [st EXCEPT ![m] = IF q[w] = <<>> THEN "running" ELSE "queued"],
                   [tg EXCEPT ![m] = w])
<1> DEFINE r == [q EXCEPT ![w] = Append(@, m)]
           s == [st EXCEPT ![m] = IF q[w] = <<>> THEN "running" ELSE "queued"]
           t == [tg EXCEPT ![m] = w]
           n == Len(q[w])
<1>1. q[w] \in Seq(Msg) /\ n \in Nat /\ (q[w] = <<>> => n = 0)
  BY LenProperties, EmptySeq
<1>2. q[w] = <<>> \/ n # 0
  <2>1. q[w] # <<>> => n \in Nat \ {0}
    BY <1>1, EmptySeq
  <2>2. QED BY <2>1
<1>3. /\ Append(q[w], m) \in Seq(Msg) /\ Len(Append(q[w], m)) = n + 1
      /\ \A i \in 1 .. n : Append(q[w], m)[i] = q[w][i]
      /\ Append(q[w], m)[n + 1] = m
  BY <1>1, AppendProperties
<1>4. r \in [Waiter -> Seq(Msg)] /\ r[w] = Append(q[w], m) /\ \A v \in Waiter \ {w} : r[v] = q[v]
  BY <1>3
<1>5. /\ Len(r[w]) = n + 1 /\ r[w][n + 1] = m
      /\ \A i \in 1 .. n : r[w][i] = q[w][i]
      /\ \A i \in 1 .. n + 1 : i \in 1 .. n \/ i = n + 1
      /\ \A i \in 1 .. n : i \in 1 .. n + 1
      /\ n + 1 \in 1 .. n + 1
  BY <1>1, <1>3, <1>4
<1>6. \A k \in Msg \ {m} : s[k] = st[k] /\ t[k] = tg[k]
  OBVIOUS
<1>7. s[m] \in {"queued", "running"} /\ t[m] = w /\ (s[m] = "running" => n + 1 = 1)
  BY <1>1
\* an element of the old lines is not m, and keeps its state
<1>8. ASSUME NEW v \in Waiter, NEW i \in 1 .. Len(q[v])
      PROVE  q[v][i] \in Msg \ {m}
  <2>1. q[v] \in Seq(Msg)
    OBVIOUS
  <2>2. q[v][i] \in Msg
    BY <2>1, ElementOfSeq
  <2>3. QED BY <2>2 DEF InLine
<1> HIDE DEF r, s, t, n
<1>9. ASSUME NEW v \in Waiter, NEW i \in 1 .. Len(r[v])
      PROVE  \/ v = w /\ i = n + 1 /\ r[v][i] = m
             \/ i \in 1 .. Len(q[v]) /\ r[v][i] = q[v][i] /\ r[v][i] \in Msg \ {m}
  <2>1. CASE v = w
    <3>1. i \in 1 .. n \/ i = n + 1
      BY <1>5, <2>1
    <3>2. CASE i \in 1 .. n
      BY <1>5, <1>8, <2>1, <3>2 DEF n
    <3>3. QED BY <1>5, <2>1, <3>1, <3>2
  <2>2. CASE v # w
    BY <1>4, <1>8, <2>2
  <2>3. QED BY <2>1, <2>2
<1>10. ASSUME NEW v \in Waiter, NEW i \in 1 .. Len(r[v]), NEW j \in 1 .. Len(r[v]), r[v][i] = r[v][j]
       PROVE  i = j
  <2>1. CASE r[v][i] = m
    BY <1>9, <1>10, <2>1
  <2>2. CASE r[v][i] # m
    <3>1. i \in 1 .. Len(q[v]) /\ j \in 1 .. Len(q[v]) /\ q[v][i] = q[v][j]
      BY <1>9, <1>10, <2>2
    <3>2. QED BY <3>1 DEF InLine
  <2>3. QED BY <2>1, <2>2
<1>11. ASSUME NEW v \in Waiter, NEW i \in 1 .. Len(r[v])
       PROVE  s[r[v][i]] \in {"queued", "running"} /\ t[r[v][i]] = v /\ (s[r[v][i]] = "running" => i = 1)
  <2>1. CASE v = w /\ i = n + 1 /\ r[v][i] = m
    BY <1>7, <2>1
  <2>2. CASE i \in 1 .. Len(q[v]) /\ r[v][i] = q[v][i] /\ r[v][i] \in Msg \ {m}
    <3>1. /\ st[q[v][i]] \in {"queued", "running"} /\ tg[q[v][i]] = v
          /\ st[q[v][i]] = "running" => i = 1
      BY <2>2 DEF InLine
    <3>2. QED BY <1>6, <2>2, <3>1
  <2>3. QED BY <1>9, <2>1, <2>2
<1>12. ASSUME NEW k \in Msg, s[k] \in {"queued", "running"}
       PROVE  t[k] \in Waiter /\ \E i \in 1 .. Len(r[t[k]]) : r[t[k]][i] = k
  <2>1. CASE k = m
    BY <1>5, <1>7, <2>1
  <2>2. CASE k # m
    <3>1. s[k] = st[k] /\ t[k] = tg[k]
      BY <1>6, <2>2
    <3>2. tg[k] \in Waiter
      BY <1>12, <3>1 DEF InLine
    <3>3. PICK i \in 1 .. Len(q[tg[k]]) : q[tg[k]][i] = k
      BY <1>12, <3>1 DEF InLine
    <3>4. CASE tg[k] = w
      <4>1. i \in 1 .. n /\ q[w][i] = k
        BY <3>3, <3>4 DEF n
      <4>2. i \in 1 .. Len(r[w]) /\ r[w][i] = k
        BY <1>5, <4>1
      <4>3. QED BY <3>1, <3>4, <4>2
    <3>5. CASE tg[k] # w
      BY <1>4, <3>1, <3>2, <3>3, <3>5
    <3>6. QED BY <3>4, <3>5
  <2>3. QED BY <2>1, <2>2
<1>13. InLine(r, s, t)
  BY <1>10, <1>11, <1>12 DEF InLine
<1>14. QED BY <1>4, <1>13 DEF r, s, t

\* A scan by a message that is in no line.
LEMMA ScanLine ==
  ASSUME TablesOK, MessagesOK, NEW m \in Msg, NEW n \in Nat \ {0}, NEW f,
         NEW q \in [Waiter -> Seq(Msg)],
         InLine(q, [msg EXCEPT ![m] = "over"], [target EXCEPT ![m] = None]),
         Scan(m, n, q, f)
  PROVE  MessagesOK' /\ InLine(queue', msg', target')
<1> DEFINE st == [msg EXCEPT ![m] = "over"]
           tg == [target EXCEPT ![m] = None]
<1>1. /\ st \in [Msg -> {"new", "queued", "running", "over"}] /\ st[m] = "over"
      /\ tg \in [Msg -> Waiter \cup {None}]
      /\ \A x : [msg EXCEPT ![m] = x] = [st EXCEPT ![m] = x]
      /\ \A x : [target EXCEPT ![m] = x] = [tg EXCEPT ![m] = x]
  BY DEF MessagesOK
<1> HIDE DEF st, tg
<1>2. CASE /\ msg' = [msg EXCEPT ![m] = "over"] /\ next' = [next EXCEPT ![m] = 1]
           /\ target' = [target EXCEPT ![m] = None] /\ queue' = q
  <2>1. MessagesOK'
    BY <1>2 DEF MessagesOK
  <2>2. QED BY <1>2, <2>1
<1>3. ASSUME NEW w \in Waiter, NEW j \in Nat \ {0},
             msg' = [msg EXCEPT ![m] = IF q[w] = <<>> THEN "running" ELSE "queued"],
             next' = [next EXCEPT ![m] = j],
             target' = [target EXCEPT ![m] = w],
             queue' = [q EXCEPT ![w] = Append(@, m)]
      PROVE  MessagesOK' /\ InLine(queue', msg', target')
  <2>1. InLine(q, st, tg)
    BY DEF st, tg
  <2>2. /\ queue' \in [Waiter -> Seq(Msg)]
        /\ InLine(queue', [st EXCEPT ![m] = IF q[w] = <<>> THEN "running" ELSE "queued"],
                  [tg EXCEPT ![m] = w])
    BY <1>1, <1>3, <2>1, Join
  <2>3. InLine(queue', msg', target')
    BY <1>1, <1>3, <2>2
  <2>4. MessagesOK'
    BY <1>3, <2>2 DEF MessagesOK
  <2>5. QED BY <2>3, <2>4
<1>4. ScanOutcome(m, q, f)
  BY ScanFacts
<1>5. QED BY <1>2, <1>3, <1>4, Zenon DEF ScanOutcome

\* A scan by the message that has just left the line of its lock.
LEMMA ReleaseLine ==
  ASSUME LineInv, NEW m \in Msg, msg[m] \in {"queued", "running"},
         Head(queue[target[m]]) = m, NEW f, Scan(m, next[m], Released(target[m]), f)
  PROVE  MessagesOK' /\ InLine(queue', msg', target')
<1>1. /\ Released(target[m]) \in [Waiter -> Seq(Msg)]
      /\ InLine(Released(target[m]), [msg EXCEPT ![m] = "over"], [target EXCEPT ![m] = None])
  BY Leave DEF LineInv, MessagesOK, Released
<1>2. next[m] \in Nat \ {0} /\ TablesOK /\ MessagesOK
  BY DEF LineInv, MessagesOK
<1>3. QED BY <1>1, <1>2, ScanLine

\* Who runs is at the head of the line.
LEMMA HeadRuns ==
  ASSUME NEW q \in [Waiter -> Seq(Msg)], NEW st, NEW tg, InLine(q, st, tg),
         NEW m \in Msg, st[m] = "running"
  PROVE  tg[m] \in Waiter /\ Head(q[tg[m]]) = m
<1>1. PICK i \in 1 .. Len(q[tg[m]]) : tg[m] \in Waiter /\ q[tg[m]][i] = m
  BY DEF InLine
<1>2. q[tg[m]] \in Seq(Msg)
  BY <1>1
<1>3. i = 1
  BY <1>1 DEF InLine
<1>4. QED BY <1>1, <1>2, <1>3

LEMMA LineInit == Init => LineInv
<1> SUFFICES ASSUME Init PROVE LineInv
  OBVIOUS
<1>1. TablesOK
  BY TablesInit DEF TableInv
<1>2. \A w \in Waiter : queue[w] = <<>> /\ Len(queue[w]) = 0
  BY EmptySeq DEF Init
<1>3. MessagesOK
  BY EmptySeq DEF Init, MessagesOK
<1>4. InLine(queue, msg, target)
  BY <1>2 DEF Init, InLine
<1>5. QED BY <1>1, <1>3, <1>4 DEF LineInv

LEMMA LineStep == LineInv /\ [Next]_vars => MessagesOK' /\ InLine(queue', msg', target')
<1> DEFINE G == MessagesOK' /\ InLine(queue', msg', target')
<1> SUFFICES ASSUME LineInv, [Next]_vars PROVE G
  OBVIOUS
<1>1. TablesOK /\ MessagesOK /\ InLine(queue, msg, target)
  BY DEF LineInv
<1>2. ASSUME UNCHANGED msgVars PROVE G
  BY <1>1, <1>2 DEF msgVars, MessagesOK
<1>3. ASSUME NEW w \in Waiter, WaiterStep(w) PROVE G
  BY <1>2, <1>3 DEF WaiterStep, Register, TimesOut, Resume
<1>4. ASSUME NEW m \in Msg, Arrive(m) PROVE G
  <2> DEFINE st == [msg EXCEPT ![m] = "over"]
             tg == [target EXCEPT ![m] = None]
  <2>1. msg[m] = "new" /\ Scan(m, 1, queue, future)
    BY <1>4 DEF Arrive
  <2>2. st \in [Msg -> {"new", "queued", "running", "over"}] /\ st[m] = "over"
        /\ \A k \in Msg \ {m} : st[k] = msg[k] /\ tg[k] = target[k]
    BY <1>1 DEF MessagesOK
  <2> HIDE DEF st, tg
  <2>3. \A w \in Waiter : \A i \in 1 .. Len(queue[w]) : queue[w][i] \in Msg \ {m}
    <3> SUFFICES ASSUME NEW w \in Waiter, NEW i \in 1 .. Len(queue[w])
                 PROVE  queue[w][i] \in Msg \ {m}
      OBVIOUS
    <3>1. queue[w] \in Seq(Msg)
      BY <1>1 DEF MessagesOK
    <3>2. queue[w][i] \in Msg
      BY <3>1, ElementOfSeq
    <3>3. QED BY <1>1, <2>1, <3>2 DEF InLine
  <2>4. InLine(queue, st, tg)
    BY <1>1, <2>2, <2>3 DEF InLine
  <2>5. queue \in [Waiter -> Seq(Msg)] /\ 1 \in Nat \ {0}
    BY <1>1 DEF MessagesOK
  <2>6. QED BY <1>1, <2>1, <2>4, <2>5, ScanLine DEF st, tg
<1>5. ASSUME NEW m \in Msg, Acquire(m) PROVE G
  <2>1. msg[m] = "queued" /\ Head(queue[target[m]]) = m
    BY <1>5 DEF Acquire
  <2>2. CASE future[target[m]] = "pending"
    <3>1. msg' = [msg EXCEPT ![m] = "running"] /\ UNCHANGED <<queue, next, target>>
      BY <1>5, <2>2 DEF Acquire
    <3>2. MessagesOK'
      BY <1>1, <3>1 DEF MessagesOK
    <3>3. /\ \A k \in Msg \ {m} : msg'[k] = msg[k]
          /\ msg'[m] = "running"
      BY <1>1, <3>1 DEF MessagesOK
    <3>4. ASSUME NEW w \in Waiter, NEW i \in 1 .. Len(queue[w])
          PROVE  /\ msg'[queue[w][i]] \in {"queued", "running"} /\ target[queue[w][i]] = w
                 /\ msg'[queue[w][i]] = "running" => i = 1
      <4>1. queue[w] \in Seq(Msg) /\ queue[w][i] \in Msg
        BY <1>1, ElementOfSeq DEF MessagesOK
      <4>2. /\ msg[queue[w][i]] \in {"queued", "running"} /\ target[queue[w][i]] = w
            /\ msg[queue[w][i]] = "running" => i = 1
        BY <1>1 DEF InLine
      <4>3. CASE queue[w][i] = m
        <5>1. queue[w][1] = m /\ 1 \in 1 .. Len(queue[w])
          BY <2>1, <4>1, <4>2, <4>3, LenProperties
        <5>2. i = 1
          BY <1>1, <4>3, <5>1 DEF InLine
        <5>3. QED BY <3>3, <4>2, <4>3, <5>2
      <4>4. QED BY <3>3, <4>1, <4>2, <4>3
    <3>5. ASSUME NEW k \in Msg, msg'[k] \in {"queued", "running"}
          PROVE  target[k] \in Waiter /\ \E i \in 1 .. Len(queue[target[k]]) : queue[target[k]][i] = k
      <4>1. msg[k] \in {"queued", "running"}
        BY <2>1, <3>3, <3>5
      <4>2. QED BY <1>1, <4>1 DEF InLine
    <3>6. InLine(queue, msg', target)
      BY <1>1, <3>4, <3>5 DEF InLine
    <3>7. QED BY <3>1, <3>2, <3>6
  <2>3. CASE future[target[m]] # "pending"
    <3>1. Scan(m, next[m], Released(target[m]), future)
      BY <1>5, <2>3 DEF Acquire
    <3>2. QED BY <2>1, <3>1, ReleaseLine
  <2>4. QED BY <2>2, <2>3
<1>6. ASSUME NEW m \in Msg, HandlerStops(m) PROVE G
  BY <1>2, <1>6 DEF HandlerStops
<1>7. ASSUME NEW m \in Msg, HandlerEnds(m) PROVE G
  <2>1. /\ msg[m] = "running"
        /\ \/ Scan(m, next[m], Released(target[m]), future)
           \/ Scan(m, next[m], Released(target[m]), future')
    BY <1>7 DEF HandlerEnds, HandlerReturns, HandlerRaises
  <2>2. Head(queue[target[m]]) = m
    BY <1>1, <2>1, HeadRuns DEF MessagesOK
  <2>3. QED BY <2>1, <2>2, ReleaseLine
<1>8. CASE UNCHANGED vars
  BY <1>2, <1>8 DEF vars
<1>9. QED BY <1>3, <1>4, <1>5, <1>6, <1>7, <1>8 DEF Next, MsgStep

LEMMA LinesHold == Spec => [](TableInv /\ LineInv)
<1>1. TableInv /\ LineInv /\ [Next]_vars /\ TableInv' => LineInv'
  BY LineStep DEF LineInv, TableInv
<1>2. QED BY <1>1, LineInit, TablesHold, PTL DEF Spec

\* Every variable has its type, and a message that triggers a waiter is in the
\* line of that waiter's lock, once, and in no other.
THEOREM TypeCorrect == Spec => []TypeOK
<1>1. TableInv /\ LineInv => TypeOK
  <2> SUFFICES ASSUME TableInv, LineInv PROVE TypeOK
    OBVIOUS
  <2>1. ASSUME NEW w \in Waiter
        PROVE  /\ queue[w] \in Seq(Msg) /\ IsInjective(queue[w])
               /\ \A m \in ToSet(queue[w]) : target[m] = w
    <3>1. queue[w] \in Seq(Msg) /\ DOMAIN queue[w] = 1 .. Len(queue[w])
      BY LenProperties DEF LineInv, MessagesOK
    <3>2. QED BY <3>1 DEF LineInv, InLine, IsInjective, ToSet
  <2>2. next \in [Msg -> Nat]
    BY DEF LineInv, MessagesOK
  <2>3. QED BY <2>1, <2>2 DEF TypeOK, TableInv, TablesOK, LineInv, MessagesOK
<1>2. QED BY <1>1, LinesHold, PTL

\* The handler of a waiter takes up message m.
Starts(m) == msg'[m] = "running" /\ (msg[m] # "running" \/ next'[m] # next[m])

\* What a scan starts, it starts at a waiter that is not done.
LEMMA ScanStarts ==
  ASSUME TablesOK, MessagesOK, NEW k \in Msg, NEW n \in Nat \ {0}, NEW q, NEW f,
         Scan(k, n, q, f), \A w \in Waiter : f[w] = "pending" => future[w] = "pending",
         NEW m \in Msg, Starts(m)
  PROVE  future[target'[m]] = "pending"
<1>1. DOMAIN msg = Msg /\ DOMAIN next = Msg /\ DOMAIN target = Msg
  BY DEF MessagesOK
<1>2. ScanOutcome(k, q, f)
  BY ScanFacts
<1>3. QED BY <1>1, <1>2 DEF ScanOutcome, Starts

LEMMA StartsAtPending ==
  ASSUME LineInv, [Next]_vars, NEW m \in Msg, Starts(m)
  PROVE  future[target'[m]] = "pending"
<1>1. TablesOK /\ MessagesOK
  BY DEF LineInv
<1>2. \A k \in Msg : next[k] \in Nat \ {0}
  BY <1>1 DEF MessagesOK
<1>3. ~UNCHANGED <<msg, next>>
  BY DEF Starts
<1>4. ASSUME NEW w \in Waiter, WaiterStep(w) PROVE FALSE
  BY <1>3, <1>4 DEF WaiterStep, Register, TimesOut, Resume, msgVars
<1>5. ASSUME NEW k \in Msg, Arrive(k) \/ HandlerReturns(k) PROVE future[target'[m]] = "pending"
  BY <1>1, <1>2, <1>5, ScanStarts DEF Arrive, HandlerReturns
<1>6. ASSUME NEW k \in Msg, Acquire(k) PROVE future[target'[m]] = "pending"
  <2>1. CASE future[target[k]] # "pending"
    BY <1>1, <1>2, <1>6, <2>1, ScanStarts DEF Acquire
  <2>2. CASE future[target[k]] = "pending"
    <3>1. msg' = [msg EXCEPT ![k] = "running"] /\ UNCHANGED <<next, target>>
      BY <1>6, <2>2 DEF Acquire
    <3>2. k = m
      BY <1>1, <3>1 DEF MessagesOK, Starts
    <3>3. QED BY <2>2, <3>1, <3>2
  <2>3. QED BY <2>1, <2>2
<1>7. ASSUME NEW k \in Msg, HandlerRaises(k) PROVE future[target'[m]] = "pending"
  <2>1. /\ future' = [future EXCEPT ![target[k]] = IF @ = "pending" THEN "error" ELSE @]
        /\ Scan(k, next[k], Released(target[k]), future')
    BY <1>7 DEF HandlerRaises
  <2>2. \A w \in Waiter : future'[w] = "pending" => future[w] = "pending"
    BY <1>1, <2>1 DEF TablesOK
  <2>3. QED BY <1>1, <1>2, <2>1, <2>2, ScanStarts
<1>8. ASSUME NEW k \in Msg, HandlerStops(k) PROVE FALSE
  BY <1>3, <1>8 DEF HandlerStops, msgVars
<1>9. CASE UNCHANGED vars
  BY <1>3, <1>9 DEF vars, msgVars
<1>10. QED BY <1>4, <1>5, <1>6, <1>7, <1>8, <1>9 DEF Next, MsgStep, HandlerEnds

\* A handler starts only at a waiter that waits for an answer, and no two of one
\* waiter run at the same time, whatever sessions end while messages queue.
THEOREM Serial == Spec => TriggersAreSerial
<1> DEFINE Alone(m) == \A k \in Msg \ {m} : ~(msg'[k] = "running" /\ target'[k] = target'[m])
           S == \A m \in Msg :
                  msg'[m] = "running" /\ (msg[m] # "running" \/ next'[m] # next[m]) =>
                    /\ future[target'[m]] = "pending"
                    /\ \A k \in Msg \ {m} : ~(msg'[k] = "running" /\ target'[k] = target'[m])
<1>1. ASSUME LineInv', NEW m \in Msg, msg'[m] = "running" PROVE Alone(m)
  <2> SUFFICES ASSUME NEW k \in Msg \ {m}, msg'[k] = "running", target'[k] = target'[m]
               PROVE  FALSE
    OBVIOUS
  <2>1. queue' \in [Waiter -> Seq(Msg)] /\ InLine(queue', msg', target')
    BY <1>1 DEF LineInv, MessagesOK
  <2>2. Head(queue'[target'[m]]) = m
    BY <1>1, <2>1, HeadRuns
  <2>3. Head(queue'[target'[k]]) = k
    BY <2>1, HeadRuns
  <2>4. QED BY <2>2, <2>3
<1> HIDE DEF Alone, S
<1>2. LineInv /\ LineInv' /\ [Next]_vars => S
  <2> SUFFICES ASSUME LineInv, LineInv', [Next]_vars, NEW m \in Msg, Starts(m)
               PROVE  future[target'[m]] = "pending" /\ Alone(m)
    BY DEF S, Starts, Alone
  <2>1. msg'[m] = "running"
    BY DEF Starts
  <2>2. QED BY <1>1, <2>1, StartsAtPending
<1>3. LineInv /\ LineInv' /\ [Next]_vars => [S]_vars
  BY <1>2
<1>4. QED BY <1>3, LinesHold, PTL DEF Spec, TriggersAreSerial, S
=============================================================================

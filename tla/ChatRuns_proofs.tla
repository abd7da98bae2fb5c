-------------------------- MODULE ChatRuns_proofs --------------------------
(***************************************************************************)
(* Proofs about ChatRuns for any runs, pages and sizes of the queues: its  *)
(* types, that a subscribed page lacks nothing of the answer, that the     *)
(* history holds the answer exactly, and that a run that is over is gone.  *)
(***************************************************************************)
EXTENDS ChatRuns, SequenceTheorems, FiniteSetTheorems, TLAPS

(***************************************************************************)
(* The inductive invariant                                                 *)
(***************************************************************************)

Page == [state : {"free", "open", "over"}, run : Run \cup {NoRun}, q : Seq(Nat), got : Nat, view : Nat]

\* The variables of the tasks and of the tables.
RunsOK ==
  /\ task \in [Run -> Suspended \cup {"none", "created", "last", "over"}]
  /\ flush \in [Run -> {"none", "running", "empty", "saved", "failed"}]
  /\ cancelled \in SUBSET Run /\ open \in SUBSET Run /\ listed \in SUBSET Run
  /\ parts \in [Run -> Nat] /\ pending \in [Run -> Nat]
  /\ deleter \in {"idle", "gather", "wiped", "done"}
  /\ victims \in SUBSET Run /\ late \in SUBSET victims

\* The tables list the runs under way, and those that were killed.
Listed ==
  /\ \A r \in listed : task[r] # "none" /\ (task[r] = "over" => r \in late)
  /\ \A r \in Run : task[r] \notin {"none", "over"} => r \in listed
  /\ open \subseteq listed
  /\ running => listed # {}

\* A task is only cancelled by the deletion, and hit late in "created" and "last".
Cancels ==
  /\ \A r \in cancelled : /\ task[r] \notin {"none", "over"}
                          /\ task[r] \in {"created", "last"} => r \in late
  /\ deleter = "idle" => cancelled = {} /\ late = {}

\* Nothing is in an answer before its run, nor new in it after the last flush.
FlushOK(r) ==
  /\ task[r] = "none" => parts[r] = 0 /\ published[r] = <<>>
  /\ flush[r] = "none" => task[r] \notin {"last", "over"} \/ (task[r] = "over" /\ deleter # "idle")
  /\ flush[r] # "none" => task[r] \in {"last", "over"}
  /\ flush[r] = "running" => task[r] = "last" \/ deleter # "idle"
  /\ flush[r] \in {"empty", "saved"} => pending[r] = 0
  /\ pending[r] <= parts[r]

RunsInv == RunsOK /\ Listed /\ Cancels /\ \A r \in Run : FlushOK(r)

PagesOK ==
  /\ subs \in [Run -> SUBSET Stream]
  /\ stream \in [Stream -> Page]
  /\ published \in [Run -> Seq({"content", "note"})]
  /\ \A s \in Stream : Len(stream[s].q) <= SubscriberQueueSize

\* Only a run in the tables has subscribers.
Subscribed == \A r \in Run : subs[r] # {} => r \in listed

\* A page that is not a subscriber any more is told that the answer has ended.
Told ==
  /\ \A s \in Stream : stream[s].state = "open" =>
       stream[s].run \in Run /\ (s \in subs[stream[s].run] \/ stream[s].q = <<End>>)
  /\ \A r \in Run : \A s \in subs[r] : stream[s].run = r /\ stream[s].state = "open"

\* The revisions after g, up to m.
Rest(g, m) == [i \in 1 .. m - g |-> g + i]

Pieces(p, from, to) == {i \in from .. to : p[i] = "content"}

\* The queue of a subscriber is what it has not read yet.
UpToDate(s, r) ==
  /\ stream[s].got <= Len(published[r])
  /\ stream[s].q = Rest(stream[s].got, Len(published[r]))
  /\ stream[s].view + Cardinality(Pieces(published[r], stream[s].got + 1, Len(published[r]))) = parts[r]

Shown == \A r \in Run : \A s \in subs[r] : UpToDate(s, r)

PagesInv == PagesOK /\ Subscribed /\ Told /\ Shown

ChatInv == RunsInv /\ PagesInv

StoredOK ==
  /\ stored \in [Run -> Seq(Nat)]
  /\ \A r \in Run : \A i \in 1 .. Len(stored[r]) : stored[r][i] \in 1 .. parts[r]
  /\ deleter = "idle" => \A r \in Run : stored[r] = [i \in 1 .. parts[r] - pending[r] |-> i]

\* The pipeline's side.
QueuesOK ==
  /\ offered \in [Run -> Kind] /\ producer \in [Run -> {"none", "sending", "blocked", "done", "failed"}]
  /\ sent \in [Run -> 0 .. MaxPayloads] /\ inbox \in Seq(Run) /\ running \in BOOLEAN
  /\ backq \in [Run -> Seq(Kind)] /\ \A r \in Run : Len(backq[r]) <= BackQueueSize

-----------------------------------------------------------------------------
(* The queues of pages and the counting of pieces *)

LEMMA SmallQueues ==
  /\ End = 0 /\ <<>> \in Seq(Nat) /\ <<End>> \in Seq(Nat)
  /\ SubscriberQueueSize \in Nat /\ Len(<<>>) = 0 /\ Len(<<End>>) <= SubscriberQueueSize
<1>1. End = 0 /\ SubscriberQueueSize \in Nat \ {0}
  BY ChatAssumption DEF End
<1>2. <<>> \in Seq(Nat) /\ <<0>> \in Seq(Nat) /\ Len(<<>>) = 0 /\ Len(<<0>>) = 1
  OBVIOUS
<1>3. QED BY <1>1, <1>2

\* The revisions of n payloads that follow m others.
New(m, n) == [i \in 1 .. n |-> m + i]

LEMMA RestIs ==
  ASSUME NEW g \in Nat, NEW m \in Nat, g <= m
  PROVE  /\ Rest(g, m) \in Seq(Nat) /\ Len(Rest(g, m)) = m - g /\ m - g \in Nat
         /\ \A i \in 1 .. m - g : Rest(g, m)[i] = g + i
BY DEF Rest

LEMMA NewIs ==
  ASSUME NEW m \in Nat, NEW n \in Nat
  PROVE  New(m, n) \in Seq(Nat) /\ Len(New(m, n)) = n /\ \A i \in 1 .. n : New(m, n)[i] = m + i
BY DEF New

LEMMA IsRest ==
  ASSUME NEW q \in Seq(Nat), NEW g \in Nat, NEW m \in Nat, g <= m, Len(q) = m - g,
         \A i \in 1 .. m - g : q[i] = g + i
  PROVE  q = Rest(g, m)
<1>1. m - g \in Nat
  OBVIOUS
<1>2. q \in [1 .. m - g -> Nat]
  BY LenProperties
<1>3. QED BY <1>1, <1>2 DEF Rest

LEMMA QueueGrows ==
  ASSUME NEW g \in Nat, NEW m \in Nat, g <= m, NEW n \in Nat
  PROVE  /\ Rest(g, m) \o New(m, n) = Rest(g, m + n)
         /\ Rest(g, m) \o New(m, n) \in Seq(Nat)
         /\ Len(Rest(g, m) \o New(m, n)) = Len(Rest(g, m)) + n
<1>1. PICK q : q = Rest(g, m) OBVIOUS
<1>2. PICK r : r = New(m, n) OBVIOUS
<1>3. q \in Seq(Nat) /\ Len(q) = m - g /\ m - g \in Nat /\ \A i \in 1 .. m - g : q[i] = g + i
  BY <1>1, RestIs
<1>4. r \in Seq(Nat) /\ Len(r) = n /\ \A i \in 1 .. n : r[i] = m + i
  BY <1>2, NewIs
<1>5. PICK c : c = q \o r OBVIOUS
<1>6. c \in Seq(Nat) /\ Len(c) = m - g + n
      /\ \A i \in 1 .. m - g + n : c[i] = IF i <= m - g THEN q[i] ELSE r[i - (m - g)]
  <2>1. q \in Seq(Nat) /\ r \in Seq(Nat)
    BY <1>3, <1>4
  <2>2. c \in Seq(Nat) /\ Len(c) = Len(q) + Len(r)
        /\ \A i \in 1 .. Len(q) + Len(r) : c[i] = IF i <= Len(q) THEN q[i] ELSE r[i - Len(q)]
    BY <1>5, <2>1, ConcatProperties
  <2>3. Len(q) = m - g /\ Len(r) = n
    BY <1>3, <1>4
  <2>4. QED BY <2>2, <2>3
<1>7. ASSUME NEW i \in 1 .. m - g + n PROVE c[i] = g + i
  <2>1. CASE i <= m - g
    <3>1. i \in 1 .. m - g /\ c[i] = q[i]
      BY <1>3, <1>6, <2>1
    <3>2. QED BY <1>3, <3>1
  <2>2. CASE i > m - g
    <3>1. i - (m - g) \in 1 .. n
      BY <1>3, <2>2
    <3>2. r[i - (m - g)] = m + (i - (m - g)) /\ c[i] = r[i - (m - g)]
      BY <1>3, <1>4, <1>6, <2>2, <3>1
    <3>3. m + (i - (m - g)) = g + i
      BY <1>3
    <3>4. QED BY <3>2, <3>3
  <2>3. QED BY <1>3, <2>1, <2>2
<1>8. m + n \in Nat /\ g <= m + n /\ m - g + n = (m + n) - g
  BY <1>3
<1>9. c = Rest(g, m + n)
  BY <1>6, <1>7, <1>8, IsRest
<1>10. QED BY <1>1, <1>2, <1>3, <1>5, <1>6, <1>9

\* What is left when the first of them is read.
LEMMA QueueShrinks ==
  ASSUME NEW g \in Nat, NEW m \in Nat, g <= m, Rest(g, m) # <<>>
  PROVE  /\ g + 1 <= m /\ Head(Rest(g, m)) = g + 1 /\ Len(Tail(Rest(g, m))) <= Len(Rest(g, m))
         /\ Tail(Rest(g, m)) = Rest(g + 1, m) /\ Rest(g + 1, m) \in Seq(Nat)
<1>1. PICK q : q = Rest(g, m) OBVIOUS
<1>2. q \in Seq(Nat) /\ Len(q) = m - g /\ m - g \in Nat /\ \A i \in 1 .. m - g : q[i] = g + i
  BY <1>1, RestIs
<1>3. g + 1 <= m
  BY <1>1, <1>2, EmptySeq
<1>4. Head(q) = g + 1
  BY <1>2, <1>3, HeadTailProperties
<1>5. PICK t : t = Tail(q) OBVIOUS
<1>6. t \in Seq(Nat) /\ Len(t) = m - g - 1 /\ \A i \in 1 .. Len(t) : t[i] = q[i + 1]
  BY <1>2, <1>3, <1>5, HeadTailProperties
<1>7. m - (g + 1) \in Nat /\ Len(t) = m - (g + 1)
  BY <1>2, <1>3, <1>6
<1>8. ASSUME NEW i \in 1 .. m - (g + 1) PROVE t[i] = g + 1 + i
  <2>1. i \in 1 .. Len(t) /\ i + 1 \in 1 .. m - g
    BY <1>7
  <2>2. t[i] = q[i + 1] /\ q[i + 1] = g + (i + 1)
    BY <1>2, <1>6, <2>1
  <2>3. QED BY <2>2
<1>9. t = Rest(g + 1, m)
  BY <1>3, <1>6, <1>7, <1>8, IsRest
<1>10. Len(t) <= Len(q)
  BY <1>2, <1>6
<1>11. QED BY <1>1, <1>3, <1>4, <1>5, <1>6, <1>9, <1>10, Zenon

LEMMA PiecesFinite ==
  ASSUME NEW p, NEW a \in Nat, NEW b \in Nat
  PROVE  IsFiniteSet(Pieces(p, a, b)) /\ Cardinality(Pieces(p, a, b)) \in Nat
<1>1. a \in Int /\ b \in Int
  OBVIOUS
<1>2. IsFiniteSet(a .. b) /\ Pieces(p, a, b) \subseteq a .. b
  BY <1>1, FS_Interval DEF Pieces
<1>3. QED BY <1>2, FS_Subset, FS_CardinalityType

\* A payload is published.
LEMMA PieceAdded ==
  ASSUME NEW p \in Seq({"content", "note"}), NEW k \in {"content", "note"}, NEW g \in Nat, g <= Len(p)
  PROVE  /\ Append(p, k) \in Seq({"content", "note"}) /\ Len(Append(p, k)) = Len(p) + 1
         /\ Cardinality(Pieces(Append(p, k), g + 1, Len(p) + 1)) =
              Cardinality(Pieces(p, g + 1, Len(p))) + (IF k = "content" THEN 1 ELSE 0)
<1>1. PICK n \in Nat : n = Len(p) OBVIOUS
<1>2. PICK a : a = Append(p, k) OBVIOUS
<1>3. a \in Seq({"content", "note"}) /\ Len(a) = n + 1 /\ a[n + 1] = k /\ \A i \in 1 .. n : a[i] = p[i]
  BY <1>1, <1>2, AppendProperties
<1>4. \A i : i \in g + 1 .. n + 1 <=> i \in g + 1 .. n \/ i = n + 1
  BY <1>1
<1>5. \A i \in g + 1 .. n : a[i] = p[i]
  BY <1>1, <1>3
<1>6. IsFiniteSet(Pieces(p, g + 1, n)) /\ Cardinality(Pieces(p, g + 1, n)) \in Nat
  BY <1>1, PiecesFinite
<1>7. n + 1 \notin Pieces(p, g + 1, n)
  BY DEF Pieces
<1>8. CASE k = "content"
  <2>1. Pieces(a, g + 1, n + 1) = Pieces(p, g + 1, n) \cup {n + 1}
    BY <1>3, <1>4, <1>5, <1>8 DEF Pieces
  <2>2. QED BY <1>1, <1>2, <1>3, <1>6, <1>7, <1>8, <2>1, FS_AddElement
<1>9. CASE k = "note"
  <2>1. Pieces(a, g + 1, n + 1) = Pieces(p, g + 1, n)
    BY <1>3, <1>4, <1>5, <1>9 DEF Pieces
  <2>2. QED BY <1>1, <1>2, <1>3, <1>6, <1>9, <2>1
<1>10. QED BY <1>8, <1>9

\* A payload is read.
LEMMA PieceRead ==
  ASSUME NEW p, NEW g \in Nat, NEW m \in Nat, g + 1 <= m
  PROVE  Cardinality(Pieces(p, g + 1, m)) =
           Cardinality(Pieces(p, g + 2, m)) + (IF p[g + 1] = "content" THEN 1 ELSE 0)
<1>1. \A i : i \in g + 1 .. m <=> i \in g + 2 .. m \/ i = g + 1
  OBVIOUS
<1>2. IsFiniteSet(Pieces(p, g + 2, m)) /\ Cardinality(Pieces(p, g + 2, m)) \in Nat
  BY PiecesFinite
<1>3. g + 1 \notin Pieces(p, g + 2, m)
  BY DEF Pieces
<1>4. CASE p[g + 1] = "content"
  <2>1. Pieces(p, g + 1, m) = Pieces(p, g + 2, m) \cup {g + 1}
    BY <1>1, <1>4 DEF Pieces
  <2>2. QED BY <1>2, <1>3, <1>4, <2>1, FS_AddElement
<1>5. CASE p[g + 1] # "content"
  <2>1. Pieces(p, g + 1, m) = Pieces(p, g + 2, m)
    BY <1>1, <1>5 DEF Pieces
  <2>2. QED BY <1>2, <1>5, <2>1
<1>6. QED BY <1>4, <1>5

LEMMA NoPieces == ASSUME NEW p, NEW n \in Nat PROVE Cardinality(Pieces(p, n + 1, n)) = 0
<1>1. Pieces(p, n + 1, n) = {}
  BY DEF Pieces
<1>2. QED BY <1>1, FS_EmptySet

-----------------------------------------------------------------------------
(* What is published *)

\* `n` of the payloads are pieces.
Payloads(p, n) == \/ p = <<"content">> /\ n = 1
                  \/ p = <<"note">> /\ n = 0
                  \/ p = <<"content", "note">> /\ n = 1

\* After Publish: the answer is longer, a subscriber has all of it or is ended.
Behind(s, r, n) ==
  /\ stream'[s].got <= Len(published'[r])
  /\ stream'[s].q = Rest(stream'[s].got, Len(published'[r]))
  /\ stream'[s].view + Cardinality(Pieces(published'[r], stream'[s].got + 1, Len(published'[r]))) = parts[r] + n

PublishOutcome(r, n) ==
  /\ PagesOK'
  /\ \A x \in Run \ {r} : published'[x] = published[x] /\ subs'[x] = subs[x]
  /\ subs'[r] \subseteq subs[r]
  /\ \A s \in Stream : stream'[s].state = stream[s].state /\ stream'[s].run = stream[s].run
  /\ \A s \in Stream \ subs[r] : stream'[s] = stream[s]
  /\ \A s \in subs[r] \ subs'[r] : stream'[s].q = <<End>>
  /\ \A s \in subs'[r] : Behind(s, r, n)

LEMMA PayloadsCounted ==
  ASSUME NEW p \in Seq({"content", "note"}), NEW w, NEW n, Payloads(w, n), NEW g \in Nat, g <= Len(p)
  PROVE  /\ w \in Seq({"content", "note"}) /\ Len(w) \in 1 .. 2 /\ n \in Nat
         /\ p \o w \in Seq({"content", "note"}) /\ Len(p \o w) = Len(p) + Len(w)
         /\ Cardinality(Pieces(p \o w, g + 1, Len(p \o w))) = Cardinality(Pieces(p, g + 1, Len(p))) + n
<1> DEFINE K == {"content", "note"}
<1>1. PICK m \in Nat : m = Len(p) OBVIOUS
<1>2. Cardinality(Pieces(p, g + 1, m)) \in Nat
  BY <1>1, PiecesFinite
<1>3. PICK c : c = p \o w OBVIOUS
<1>4. ASSUME NEW k \in K, w = <<k>>
      PROVE  /\ w \in Seq(K) /\ Len(w) = 1 /\ c \in Seq(K) /\ Len(c) = m + 1
             /\ Cardinality(Pieces(c, g + 1, m + 1)) =
                  Cardinality(Pieces(p, g + 1, m)) + (IF k = "content" THEN 1 ELSE 0)
  <2>1. c = Append(p, k) /\ w \in Seq(K) /\ Len(w) = 1
    BY <1>3, <1>4
  <2>2. QED BY <1>1, <2>1, PieceAdded
<1>5. CASE w = <<"content">> /\ n = 1
  <2>1. /\ w \in Seq(K) /\ Len(w) = 1 /\ c \in Seq(K) /\ Len(c) = m + 1
        /\ Cardinality(Pieces(c, g + 1, m + 1)) = Cardinality(Pieces(p, g + 1, m)) + 1
    BY <1>4, <1>5
  <2>2. QED BY <1>1, <1>3, <1>5, <2>1
<1>6. CASE w = <<"note">> /\ n = 0
  <2>1. /\ w \in Seq(K) /\ Len(w) = 1 /\ c \in Seq(K) /\ Len(c) = m + 1
        /\ Cardinality(Pieces(c, g + 1, m + 1)) = Cardinality(Pieces(p, g + 1, m)) + 0
    BY <1>4, <1>6
  <2>2. QED BY <1>1, <1>2, <1>3, <1>6, <2>1
<1>7. CASE w = <<"content", "note">> /\ n = 1
  <2>1. PICK a : a = Append(p, "content") OBVIOUS
  <2>2. /\ a \in Seq(K) /\ Len(a) = m + 1
        /\ Cardinality(Pieces(a, g + 1, m + 1)) = Cardinality(Pieces(p, g + 1, m)) + 1
    BY <1>1, <2>1, PieceAdded
  <2>3. PICK b : b = Append(a, "note") OBVIOUS
  <2>4. /\ b \in Seq(K) /\ Len(b) = m + 1 + 1
        /\ Cardinality(Pieces(b, g + 1, m + 1 + 1)) = Cardinality(Pieces(a, g + 1, m + 1)) + 0
    BY <1>1, <2>2, <2>3, PieceAdded
  <2>5. w \in Seq(K) /\ Len(w) = 2
    BY <1>7
  <2>6. c = b
    BY <1>3, <1>7, <2>1, <2>3
  <2>7. m + 1 + 1 = m + 2
    OBVIOUS
  <2>8. c \in Seq(K) /\ Len(c) = m + 2
    BY <2>4, <2>6, <2>7
  <2>9. Cardinality(Pieces(c, g + 1, m + 2)) = Cardinality(Pieces(p, g + 1, m)) + 1
    BY <1>2, <2>2, <2>4, <2>6, <2>7
  <2>10. QED BY <1>1, <1>3, <1>7, <2>5, <2>8, <2>9
<1>8. QED BY <1>5, <1>6, <1>7 DEF Payloads

LEMMA PublishFacts ==
  ASSUME PagesInv, parts \in [Run -> Nat], NEW r \in Run, NEW w, NEW n, Payloads(w, n), Publish(r, w)
  PROVE  PublishOutcome(r, n)
<1> DEFINE L == Len(published[r])
           revs == [i \in DOMAIN w |-> L + i]
<1>1. PagesOK /\ Told /\ Shown
  BY DEF PagesInv
<1>2. published[r] \in Seq({"content", "note"}) /\ L \in Nat
  BY <1>1 DEF PagesOK
<1>3. /\ w \in Seq({"content", "note"}) /\ Len(w) \in 1 .. 2 /\ n \in Nat
      /\ published[r] \o w \in Seq({"content", "note"}) /\ Len(published[r] \o w) = L + Len(w)
      /\ \A g \in 0 .. L : Cardinality(Pieces(published[r] \o w, g + 1, L + Len(w))) =
                             Cardinality(Pieces(published[r], g + 1, L)) + n
  <2>1. 0 \in Nat /\ 0 <= L
    BY <1>2
  <2>2. /\ w \in Seq({"content", "note"}) /\ Len(w) \in 1 .. 2 /\ n \in Nat
        /\ published[r] \o w \in Seq({"content", "note"}) /\ Len(published[r] \o w) = L + Len(w)
    BY <1>2, <2>1, PayloadsCounted
  <2>3. ASSUME NEW g \in 0 .. L
        PROVE  Cardinality(Pieces(published[r] \o w, g + 1, L + Len(w))) =
                             Cardinality(Pieces(published[r], g + 1, L)) + n
    <3>1. g \in Nat /\ g <= Len(published[r])
      BY <1>2
    <3>2. Cardinality(Pieces(published[r] \o w, g + 1, Len(published[r] \o w))) =
            Cardinality(Pieces(published[r], g + 1, Len(published[r]))) + n
      <4>1. PICK p \in Seq({"content", "note"}) : p = published[r]
        BY <1>2
      <4>2. g <= Len(p)
        BY <3>1, <4>1
      <4>3. Cardinality(Pieces(p \o w, g + 1, Len(p \o w))) = Cardinality(Pieces(p, g + 1, Len(p))) + n
        BY <3>1, <4>2, PayloadsCounted
      <4>4. QED BY <4>1, <4>3
    <3>3. QED BY <2>2, <3>2
  <2>4. QED BY <2>2, <2>3
<1>4. published' = [published EXCEPT ![r] = published[r] \o w]
  BY DEF Publish
<1>5. /\ published' \in [Run -> Seq({"content", "note"})] /\ published'[r] = published[r] \o w
      /\ \A x \in Run \ {r} : published'[x] = published[x]
  BY <1>1, <1>3, <1>4 DEF PagesOK
<1>6. revs = New(L, Len(w))
  BY <1>3 DEF New
<1>7. stream' = [s \in Stream |->
        IF s \notin subs[r] THEN stream[s]
        ELSE [stream[s] EXCEPT !.q = IF Fits(s, w) THEN @ \o revs ELSE <<End>>]]
  BY DEF Publish
<1>8. subs' = [subs EXCEPT ![r] = {s \in @ : Fits(s, w)}]
  BY DEF Publish
<1>9. /\ subs' \in [Run -> SUBSET Stream] /\ \A x \in Run \ {r} : subs'[x] = subs[x]
      /\ subs'[r] = {s \in subs[r] : Fits(s, w)} /\ subs'[r] \subseteq subs[r]
  BY <1>1, <1>8 DEF PagesOK
<1> HIDE DEF revs, L
<1>10. ASSUME NEW s \in Stream, s \notin subs[r] PROVE stream'[s] = stream[s]
  BY <1>7, <1>10
<1>11. ASSUME NEW s \in subs[r]
       PROVE  /\ s \in Stream /\ stream[s] \in Page
              /\ stream[s].got \in Nat /\ stream[s].got <= L /\ stream[s].view \in Nat
  <2>1. s \in Stream /\ stream[s] \in Page
    BY <1>1 DEF PagesOK
  <2>2. stream[s].got \in Nat /\ stream[s].view \in Nat
    BY <2>1 DEF Page
  <2>3. stream[s].got <= L
    BY <1>1 DEF Shown, UpToDate, L
  <2>4. QED BY <2>1, <2>2, <2>3
<1>21. ASSUME NEW s \in subs[r]
       PROVE  /\ stream[s].q = Rest(stream[s].got, L)
              /\ stream[s].view + Cardinality(Pieces(published[r], stream[s].got + 1, L)) = parts[r]
  <2>1. UpToDate(s, r)
    BY <1>1 DEF Shown
  <2>2. QED BY <2>1 DEF UpToDate, L
<1>22. L \in Nat
  BY <1>2 DEF L
<1>12. ASSUME NEW s \in subs[r], Fits(s, w)
       PROVE  /\ stream'[s] = [stream[s] EXCEPT !.q = stream[s].q \o revs]
              /\ stream[s].q \o revs \in Seq(Nat)
              /\ stream[s].q \o revs = Rest(stream[s].got, L + Len(w))
              /\ Len(stream[s].q \o revs) <= SubscriberQueueSize
  <2>1. s \in Stream /\ stream[s].got \in Nat /\ stream[s].got <= L
    BY <1>11
  <2>2. stream'[s] = [stream[s] EXCEPT !.q = stream[s].q \o revs]
    BY <1>7, <1>12, <2>1
  <2>3. Len(w) \in Nat
    BY <1>3
  <2>4. PICK q : q = stream[s].q
    OBVIOUS
  <2>5. PICK g \in Nat : g = stream[s].got /\ g <= L
    BY <2>1
  <2>6. q = Rest(g, L)
    BY <1>21, <2>4, <2>5
  <2>7. /\ Rest(g, L) \o New(L, Len(w)) = Rest(g, L + Len(w))
        /\ Rest(g, L) \o New(L, Len(w)) \in Seq(Nat)
        /\ Len(Rest(g, L) \o New(L, Len(w))) = Len(Rest(g, L)) + Len(w)
    BY <1>22, <2>3, <2>5, QueueGrows
  <2>8. /\ q \o revs = Rest(g, L + Len(w)) /\ q \o revs \in Seq(Nat)
        /\ Len(q \o revs) = Len(q) + Len(w)
    BY <1>6, <2>6, <2>7, Zenon
  <2>10. Len(q \o revs) <= SubscriberQueueSize
    BY <1>12, <2>4, <2>8 DEF Fits
  <2>11. QED BY <2>2, <2>4, <2>5, <2>8, <2>10
<1>13. ASSUME NEW s \in subs[r], ~Fits(s, w)
       PROVE  stream'[s] = [stream[s] EXCEPT !.q = <<End>>]
  BY <1>7, <1>11, <1>13
<1>14. <<End>> \in Seq(Nat) /\ Len(<<End>>) <= SubscriberQueueSize
  BY SmallQueues
<1>15. ASSUME NEW s \in Stream
       PROVE  /\ stream'[s] \in Page /\ Len(stream'[s].q) <= SubscriberQueueSize
              /\ stream'[s].state = stream[s].state /\ stream'[s].run = stream[s].run
              /\ stream'[s].got = stream[s].got /\ stream'[s].view = stream[s].view
  <2>1. stream[s] \in Page /\ Len(stream[s].q) <= SubscriberQueueSize
    BY <1>1 DEF PagesOK
  <2>2. CASE s \notin subs[r]
    BY <1>10, <2>1, <2>2
  <2>3. CASE s \in subs[r] /\ Fits(s, w)
    <3>1. PICK q \in Seq(Nat) : q = stream[s].q \o revs
      BY <1>12, <2>3
    <3>2. stream'[s] = [stream[s] EXCEPT !.q = q] /\ Len(q) <= SubscriberQueueSize
      BY <1>12, <2>3, <3>1
    <3>3. QED BY <2>1, <3>2 DEF Page
  <2>4. CASE s \in subs[r] /\ ~Fits(s, w)
    <3>1. stream'[s] = [stream[s] EXCEPT !.q = <<End>>]
      BY <1>13, <2>4
    <3>2. PICK q \in Seq(Nat) : q = <<End>> /\ Len(q) <= SubscriberQueueSize
      BY <1>14
    <3>3. QED BY <2>1, <3>1, <3>2 DEF Page
  <2>5. QED BY <2>2, <2>3, <2>4
<1>16. stream' \in [Stream -> Page]
  <2>1. \A s \in Stream : stream'[s] \in Page
    BY <1>15
  <2>2. QED BY <1>7, <2>1
<1>17. PagesOK'
  BY <1>5, <1>9, <1>15, <1>16 DEF PagesOK
<1>18. ASSUME NEW s \in subs'[r] PROVE Behind(s, r, n)
  <2>1. s \in subs[r] /\ Fits(s, w) /\ s \in Stream
    BY <1>1, <1>9 DEF PagesOK
  <2>2. /\ stream[s] \in Page /\ stream[s].got \in 0 .. L /\ stream[s].view \in Nat
        /\ stream[s].view + Cardinality(Pieces(published[r], stream[s].got + 1, L)) = parts[r]
    <3>1. stream[s] \in Page /\ stream[s].got \in Nat /\ stream[s].got <= L /\ stream[s].view \in Nat
      BY <1>11, <2>1
    <3>2. QED BY <1>21, <1>22, <2>1, <3>1
  <2>3. stream'[s].got = stream[s].got /\ stream'[s].view = stream[s].view
    BY <1>15, <2>1
  <2>4. stream'[s].q = Rest(stream[s].got, L + Len(w))
    BY <1>12, <2>1, <2>2 DEF Page
  <2>5. Cardinality(Pieces(published[r] \o w, stream[s].got + 1, L + Len(w))) =
          Cardinality(Pieces(published[r], stream[s].got + 1, L)) + n
    BY <1>3, <2>2 DEF L
  <2>6. Len(published'[r]) = L + Len(w) /\ published'[r] = published[r] \o w
    BY <1>3, <1>5 DEF L
  <2>7. stream'[s].got <= Len(published'[r])
    BY <1>2, <1>3, <2>2, <2>3, <2>6 DEF L
  <2>8. Cardinality(Pieces(published[r], stream[s].got + 1, L)) \in Nat
    <3>1. stream[s].got + 1 \in Nat /\ L \in Nat
      BY <1>2, <2>2 DEF L
    <3>2. QED BY <3>1, PiecesFinite
  <2>9. stream'[s].view + Cardinality(Pieces(published'[r], stream'[s].got + 1, Len(published'[r]))) = parts[r] + n
    <3>1. PICK c \in Nat : c = Cardinality(Pieces(published[r], stream[s].got + 1, L))
      BY <2>8
    <3>2. Cardinality(Pieces(published'[r], stream'[s].got + 1, Len(published'[r]))) = c + n
      BY <2>3, <2>5, <2>6, <3>1
    <3>3. stream[s].view + c = parts[r]
      BY <2>2, <3>1
    <3>4. QED BY <1>3, <2>2, <2>3, <3>2, <3>3
  <2>10. stream'[s].q = Rest(stream'[s].got, Len(published'[r]))
    BY <2>3, <2>4, <2>6
  <2>11. QED BY <2>7, <2>9, <2>10 DEF Behind
<1>19. \A s \in subs[r] \ subs'[r] : stream'[s].q = <<End>>
  <2>1. SUFFICES ASSUME NEW s \in subs[r] \ subs'[r] PROVE stream'[s].q = <<End>>
    OBVIOUS
  <2>2. ~Fits(s, w)
    BY <1>9
  <2>3. stream'[s] = [stream[s] EXCEPT !.q = <<End>>] /\ stream[s] \in Page
    BY <1>11, <1>13, <2>2
  <2>4. QED BY <2>3 DEF Page
<1>20. QED BY <1>5, <1>9, <1>10, <1>15, <1>17, <1>18, <1>19 DEF PublishOutcome

-----------------------------------------------------------------------------
(* The pages *)

LEMMA PublishedPages ==
  ASSUME PagesInv, NEW r \in Run, NEW n, PublishOutcome(r, n),
         parts'[r] = parts[r] + n, \A x \in Run \ {r} : parts'[x] = parts[x], listed' = listed
  PROVE  PagesInv'
<1>1. PagesOK /\ Subscribed /\ Told /\ Shown /\ PagesOK'
  BY DEF PagesInv, PublishOutcome
<1>2. Subscribed'
  <2>1. \A x \in Run : subs'[x] \subseteq subs[x]
    BY DEF PublishOutcome
  <2>2. QED BY <1>1, <2>1 DEF Subscribed
<1>3. ASSUME NEW s \in Stream, stream'[s].state = "open"
      PROVE  stream'[s].run \in Run /\ (s \in subs'[stream'[s].run] \/ stream'[s].q = <<End>>)
  <2>1. stream[s].state = "open" /\ stream'[s].run = stream[s].run
    BY <1>3 DEF PublishOutcome
  <2>2. stream[s].run \in Run /\ (s \in subs[stream[s].run] \/ stream[s].q = <<End>>)
    BY <1>1, <2>1 DEF Told
  <2>3. CASE s \in subs[r]
    <3>1. stream[s].run = r
      BY <1>1, <2>3 DEF Told
    <3>2. s \in subs'[r] \/ stream'[s].q = <<End>>
      BY <2>3 DEF PublishOutcome
    <3>3. QED BY <2>1, <2>2, <3>1, <3>2
  <2>4. CASE s \notin subs[r]
    <3>1. stream'[s] = stream[s]
      BY <2>4 DEF PublishOutcome
    <3>2. s \in subs[stream[s].run] => s \in subs'[stream[s].run]
      BY <2>2, <2>4 DEF PublishOutcome
    <3>3. QED BY <2>1, <2>2, <3>1, <3>2
  <2>5. QED BY <2>3, <2>4
<1>4. ASSUME NEW x \in Run, NEW s \in subs'[x]
      PROVE  stream'[s].run = x /\ stream'[s].state = "open" /\ UpToDate(s, x)'
  <2>1. s \in subs[x] /\ s \in Stream
    <3>1. s \in subs[x]
      BY DEF PublishOutcome
    <3>2. QED BY <1>1, <3>1 DEF PagesOK
  <2>2. stream[s].run = x /\ stream[s].state = "open" /\ UpToDate(s, x)
    BY <1>1, <2>1 DEF Told, Shown
  <2>3. stream'[s].run = x /\ stream'[s].state = "open"
    BY <2>1, <2>2 DEF PublishOutcome
  <2>4. CASE x = r
    <3>1. Behind(s, r, n)
      BY <2>4 DEF PublishOutcome
    <3>2. QED BY <2>3, <2>4, <3>1 DEF Behind, UpToDate
  <2>5. CASE x # r
    <3>1. s \notin subs[r]
      BY <1>1, <2>2, <2>5 DEF Told
    <3>2. stream'[s] = stream[s] /\ published'[x] = published[x] /\ parts'[x] = parts[x]
      BY <2>1, <2>5, <3>1 DEF PublishOutcome
    <3>3. QED BY <2>2, <2>3, <3>2 DEF UpToDate
  <2>6. QED BY <2>4, <2>5
<1>5. QED BY <1>1, <1>2, <1>3, <1>4 DEF PagesInv, Told, Shown

LEMMA NothingLeft == ASSUME NEW n \in Nat PROVE Rest(n, n) = <<>>
<1>1. Rest(n, n) \in Seq(Nat) /\ Len(Rest(n, n)) = 0
  BY RestIs
<1>2. QED BY <1>1, EmptySeq

\* A page is given the answer as it is.
LEMMA PageOpens ==
  ASSUME PagesInv, parts \in [Run -> Nat], NEW r \in Run, NEW s \in Stream, stream[s].state = "free",
         stream' = [stream EXCEPT ![s] = Opened(r, Len(published[r]), parts[r])],
         subs' = [subs EXCEPT ![r] = subs[r] \cup {s}],
         r \in listed', listed \subseteq listed', published' = published, parts' = parts
  PROVE  PagesInv'
<1>1. PagesOK /\ Subscribed /\ Told /\ Shown
  BY DEF PagesInv
<1>2. Len(published[r]) \in Nat /\ parts[r] \in Nat
  BY <1>1 DEF PagesOK
<1>3. PICK o \in Page : o = Opened(r, Len(published[r]), parts[r])
  <2>1. <<>> \in Seq(Nat)
    OBVIOUS
  <2>2. Opened(r, Len(published[r]), parts[r]) \in Page
    BY <1>2, <2>1 DEF Opened, Page
  <2>3. QED BY <2>2
<1>4. o.state = "open" /\ o.run = r /\ o.q = <<>> /\ o.got = Len(published[r]) /\ o.view = parts[r]
  BY <1>3 DEF Opened
<1>5. /\ stream' \in [Stream -> Page] /\ stream'[s] = o
      /\ \A x \in Stream \ {s} : stream'[x] = stream[x]
  BY <1>1, <1>3 DEF PagesOK
<1>6. /\ subs' \in [Run -> SUBSET Stream] /\ subs'[r] = subs[r] \cup {s}
      /\ \A x \in Run \ {r} : subs'[x] = subs[x]
  BY <1>1 DEF PagesOK
<1>7. \A x \in Run : s \notin subs[x]
  BY <1>1 DEF Told
<1>8. PagesOK'
  <2>1. Len(o.q) <= SubscriberQueueSize
    <3>1. Len(<<>>) = 0
      OBVIOUS
    <3>2. QED BY <1>4, <3>1, ChatAssumption
  <2>2. \A x \in Stream : Len(stream'[x].q) <= SubscriberQueueSize
    BY <1>1, <1>5, <2>1 DEF PagesOK
  <2>3. QED BY <1>1, <1>5, <1>6, <2>2 DEF PagesOK
<1>9. Subscribed'
  BY <1>1, <1>6 DEF Subscribed
<1>10. ASSUME NEW x \in Stream, stream'[x].state = "open"
       PROVE  stream'[x].run \in Run /\ (x \in subs'[stream'[x].run] \/ stream'[x].q = <<End>>)
  <2>1. CASE x = s
    BY <1>4, <1>5, <1>6, <2>1
  <2>2. CASE x # s
    <3>1. stream'[x] = stream[x]
      BY <1>5, <2>2
    <3>2. stream[x].run \in Run /\ (x \in subs[stream[x].run] \/ stream[x].q = <<End>>)
      BY <1>1, <1>10, <3>1 DEF Told
    <3>3. QED BY <1>6, <3>1, <3>2
  <2>3. QED BY <2>1, <2>2
<1>11. ASSUME NEW x \in Run, NEW y \in subs'[x]
       PROVE  stream'[y].run = x /\ stream'[y].state = "open" /\ UpToDate(y, x)'
  <2>1. CASE y = s
    <3>1. x = r
      BY <1>6, <1>7, <2>1
    <3>2. Rest(o.got, Len(published[r])) = <<>> /\ o.got <= Len(published[r])
      BY <1>2, <1>4, NothingLeft
    <3>3. Cardinality(Pieces(published[r], o.got + 1, Len(published[r]))) = 0
      BY <1>2, <1>4, NoPieces
    <3>4. o.view + Cardinality(Pieces(published[r], o.got + 1, Len(published[r]))) = parts[r]
      BY <1>2, <1>4, <3>3
    <3>5. QED BY <1>4, <1>5, <2>1, <3>1, <3>2, <3>4 DEF UpToDate
  <2>2. CASE y # s
    <3>1. y \in subs[x] /\ y \in Stream
      BY <1>1, <1>6, <2>2 DEF PagesOK
    <3>2. stream[y].run = x /\ stream[y].state = "open" /\ UpToDate(y, x) /\ stream'[y] = stream[y]
      BY <1>1, <1>5, <2>2, <3>1 DEF Told, Shown
    <3>3. QED BY <3>2 DEF UpToDate
  <2>3. QED BY <2>1, <2>2
<1>12. QED BY <1>8, <1>9, <1>10, <1>11 DEF PagesInv, Told, Shown

\* A page goes, or is ended.
LEMMA PageCloses ==
  ASSUME PagesInv, NEW s \in Stream, stream[s].state = "open", Closed(s),
         listed' = listed, published' = published, parts' = parts
  PROVE  PagesInv'
<1>1. PagesOK /\ Subscribed /\ Told /\ Shown
  BY DEF PagesInv
<1>2. PICK r \in Run : r = stream[s].run
  BY <1>1 DEF Told
<1>3. stream[s] \in Page
  BY <1>1 DEF PagesOK
<1>4. PICK o : o = [stream[s] EXCEPT !.state = "over", !.q = <<>>, !.got = 0, !.view = 0]
  OBVIOUS
<1>5. o \in Page /\ o.state = "over" /\ o.q = <<>>
  <2>1. PICK q \in Seq(Nat) : q = <<>>
    BY SmallQueues
  <2>2. o = [stream[s] EXCEPT !.state = "over", !.q = q, !.got = 0, !.view = 0]
    BY <1>4, <2>1
  <2>3. o \in Page /\ o.state = "over" /\ o.q = q
    BY <1>3, <2>2 DEF Page
  <2>4. QED BY <2>1, <2>3
<1>6. stream' = [stream EXCEPT ![s] = o]
  BY <1>1, <1>4 DEF Closed, PagesOK
<1>7. /\ stream' \in [Stream -> Page] /\ stream'[s] = o
      /\ \A x \in Stream \ {s} : stream'[x] = stream[x]
  BY <1>1, <1>5, <1>6 DEF PagesOK
<1>8. /\ subs' \in [Run -> SUBSET Stream] /\ subs'[r] = subs[r] \ {s}
      /\ \A x \in Run \ {r} : subs'[x] = subs[x]
  BY <1>1, <1>2 DEF PagesOK, Closed
<1>9. PagesOK'
  <2>1. Len(o.q) <= SubscriberQueueSize
    <3>1. Len(<<>>) = 0
      OBVIOUS
    <3>2. QED BY <1>5, <3>1, ChatAssumption
  <2>2. \A x \in Stream : Len(stream'[x].q) <= SubscriberQueueSize
    BY <1>1, <1>7, <2>1 DEF PagesOK
  <2>3. QED BY <1>1, <1>7, <1>8, <2>2 DEF PagesOK
<1>10. Subscribed'
  BY <1>1, <1>8 DEF Subscribed
<1>11. ASSUME NEW x \in Stream, stream'[x].state = "open"
       PROVE  stream'[x].run \in Run /\ (x \in subs'[stream'[x].run] \/ stream'[x].q = <<End>>)
  <2>1. x # s /\ stream'[x] = stream[x]
    BY <1>5, <1>7, <1>11
  <2>2. stream[x].run \in Run /\ (x \in subs[stream[x].run] \/ stream[x].q = <<End>>)
    BY <1>1, <1>11, <2>1 DEF Told
  <2>3. QED BY <1>8, <2>1, <2>2
<1>12. ASSUME NEW x \in Run, NEW y \in subs'[x]
       PROVE  stream'[y].run = x /\ stream'[y].state = "open" /\ UpToDate(y, x)'
  <2>1. y \in subs[x] /\ y \in Stream
    BY <1>1, <1>8 DEF PagesOK
  <2>2. stream[y].run = x /\ stream[y].state = "open" /\ UpToDate(y, x)
    BY <1>1, <2>1 DEF Told, Shown
  <2>3. y # s
    BY <1>2, <1>8, <2>2
  <2>4. stream'[y] = stream[y]
    BY <1>7, <2>1, <2>3
  <2>5. QED BY <2>2, <2>4 DEF UpToDate
<1>13. QED BY <1>9, <1>10, <1>11, <1>12 DEF PagesInv, Told, Shown

\* A page reads on.
LEMMA PageReads ==
  ASSUME PagesInv, parts \in [Run -> Nat], NEW s \in Stream, Read(s)
  PROVE  PagesInv'
<1>7. PICK item, r : item = Head(stream[s].q) /\ r = stream[s].run
  OBVIOUS
<1>1. PagesOK /\ Subscribed /\ Told /\ Shown /\ stream[s].state = "open" /\ stream[s].q # <<>>
  BY DEF PagesInv, Read
<1>2. UNCHANGED <<taskVars, queueVars, answerVars, tableVars, deleteVars>>
  BY DEF Read
<1>3. published' = published /\ parts' = parts /\ listed' = listed
  BY <1>2 DEF answerVars, tableVars
<1>4. CASE item = End /\ Closed(s)
  BY <1>1, <1>3, <1>4, <1>7, PageCloses
<1>5. CASE /\ item # End
           /\ stream' = [stream EXCEPT ![s].q = Tail(@), ![s].got = item,
                           ![s].view = @ + IF published[r][item] = "content" THEN 1 ELSE 0]
           /\ UNCHANGED subs
  <2>1. r \in Run /\ s \in subs[r]
    <3>1. r \in Run /\ (s \in subs[r] \/ stream[s].q = <<End>>)
      BY <1>1, <1>7 DEF Told
    <3>2. Head(<<End>>) = End
      OBVIOUS
    <3>3. QED BY <1>5, <1>7, <3>1, <3>2
  <2>2. UpToDate(s, r) /\ stream[s] \in Page /\ Len(stream[s].q) <= SubscriberQueueSize
    BY <1>1, <2>1 DEF Shown, PagesOK
  <2>3. PICK g \in Nat, v \in Nat : g = stream[s].got /\ v = stream[s].view
    BY <2>2 DEF Page
  <2>4. PICK L \in Nat : L = Len(published[r])
    BY <1>1, <2>1 DEF PagesOK
  <2>5. g <= L /\ stream[s].q = Rest(g, L)
    BY <2>2, <2>3, <2>4 DEF UpToDate
  <2>6. v + Cardinality(Pieces(published[r], g + 1, L)) = parts[r]
    BY <2>2, <2>3, <2>4 DEF UpToDate
  <2>7. /\ g + 1 <= L /\ item = g + 1
        /\ Tail(stream[s].q) = Rest(g + 1, L) /\ Rest(g + 1, L) \in Seq(Nat)
        /\ Len(Rest(g + 1, L)) <= SubscriberQueueSize
    <3>1. Rest(g, L) # <<>>
      BY <1>1, <2>5
    <3>2. /\ g + 1 <= L /\ Head(Rest(g, L)) = g + 1 /\ Len(Tail(Rest(g, L))) <= Len(Rest(g, L))
          /\ Tail(Rest(g, L)) = Rest(g + 1, L) /\ Rest(g + 1, L) \in Seq(Nat)
      BY <2>5, <3>1, QueueShrinks
    <3>3. Len(Rest(g, L)) \in Nat /\ Len(Rest(g + 1, L)) \in Nat
      BY <2>5, <3>2, RestIs
    <3>4. Len(Rest(g + 1, L)) <= SubscriberQueueSize
      <4>1. PICK a \in Nat, b \in Nat : a = Len(Rest(g, L)) /\ b = Len(Rest(g + 1, L))
        BY <3>3
      <4>2. b <= a
        BY <3>2, <4>1, Zenon
      <4>3. a <= SubscriberQueueSize
        BY <2>2, <2>5, <4>1, Zenon
      <4>4. b <= SubscriberQueueSize
        BY <4>1, <4>2, <4>3, SmallQueues
      <4>5. QED BY <4>1, <4>4, Zenon
    <3>5. QED BY <1>7, <2>5, <3>2, <3>4
  <2>8. PICK d \in Nat : d = IF published[r][item] = "content" THEN 1 ELSE 0
    OBVIOUS
  <2>9. PICK q \in Seq(Nat) : q = Rest(g + 1, L)
    BY <2>7
  <2>10. PICK o : o = [stream[s] EXCEPT !.q = q, !.got = g + 1, !.view = v + d]
    OBVIOUS
  <2>11. /\ o \in Page /\ o.state = "open" /\ o.run = r /\ o.q = q /\ o.got = g + 1 /\ o.view = v + d
    <3>1. g + 1 \in Nat /\ v + d \in Nat /\ stream[s].run = r
      BY <1>7
    <3>2. QED BY <1>1, <2>2, <2>10, <3>1 DEF Page
  <2>12. stream' = [stream EXCEPT ![s] = o]
    <3>1. stream' = [stream EXCEPT ![s].q = Tail(@), ![s].got = item, ![s].view = @ + d]
      BY <1>5, <2>8
    <3>2. QED BY <1>1, <2>2, <2>3, <2>7, <2>9, <2>10, <3>1 DEF PagesOK, Page
  <2>13. /\ stream' \in [Stream -> Page] /\ stream'[s] = o
         /\ \A x \in Stream \ {s} : stream'[x] = stream[x]
    BY <1>1, <2>11, <2>12 DEF PagesOK
  <2>14. subs' = subs
    BY <1>5
  <2>15. PagesOK'
    <3>1. \A x \in Stream : Len(stream'[x].q) <= SubscriberQueueSize
      BY <1>1, <2>7, <2>9, <2>11, <2>13 DEF PagesOK
    <3>2. QED BY <1>1, <1>3, <2>13, <2>14, <3>1 DEF PagesOK
  <2>16. UpToDate(s, r)'
    <3>1. Cardinality(Pieces(published[r], g + 1, L)) = Cardinality(Pieces(published[r], g + 2, L)) + d
      BY <2>7, <2>8, PieceRead
    <3>2. g + 1 + 1 = g + 2 /\ g + 2 \in Nat
      OBVIOUS
    <3>3. Cardinality(Pieces(published[r], g + 2, L)) \in Nat
      BY <3>2, PiecesFinite
    <3>4. v + d + Cardinality(Pieces(published[r], g + 1 + 1, L)) = parts[r]
      BY <2>6, <3>1, <3>2, <3>3
    <3>5. QED BY <1>3, <2>4, <2>7, <2>9, <2>11, <2>13, <3>4 DEF UpToDate
  <2>17. ASSUME NEW x \in Stream, stream'[x].state = "open"
         PROVE  stream'[x].run \in Run /\ (x \in subs'[stream'[x].run] \/ stream'[x].q = <<End>>)
    <3>1. CASE x = s
      BY <2>1, <2>11, <2>13, <2>14, <3>1
    <3>2. CASE x # s
      BY <1>1, <2>13, <2>14, <2>17, <3>2 DEF Told
    <3>3. QED BY <3>1, <3>2
  <2>18. ASSUME NEW x \in Run, NEW y \in subs'[x]
         PROVE  stream'[y].run = x /\ stream'[y].state = "open" /\ UpToDate(y, x)'
    <3>1. y \in subs[x] /\ y \in Stream
      BY <1>1, <2>14 DEF PagesOK
    <3>2. stream[y].run = x /\ stream[y].state = "open" /\ UpToDate(y, x)
      BY <1>1, <3>1 DEF Told, Shown
    <3>3. CASE y = s
      <4>1. x = r
        BY <1>7, <3>2, <3>3
      <4>2. QED BY <2>11, <2>13, <2>16, <3>3, <4>1
    <3>4. CASE y # s
      <4>1. stream'[y] = stream[y]
        BY <2>13, <3>1, <3>4
      <4>2. QED BY <1>3, <3>2, <4>1 DEF UpToDate
    <3>5. QED BY <3>3, <3>4
  <2>19. QED BY <1>1, <1>3, <2>14, <2>15, <2>17, <2>18 DEF PagesInv, Subscribed, Told, Shown
<1>6. QED BY <1>4, <1>5, <1>7 DEF Read

\* The run is over: its pages are ended.
LEMMA PagesEnd ==
  ASSUME PagesInv, NEW r \in Run, Cleanup(r)
  PROVE  PagesInv'
<1>1. PagesOK /\ Subscribed /\ Told /\ Shown
  BY DEF PagesInv
<1>2. /\ published' = [published EXCEPT ![r] = IF flush[r] = "saved" THEN Append(@, "note") ELSE @]
      /\ listed' = listed \ {r} /\ parts' = parts
      /\ stream' = [s \in Stream |-> IF s \in subs[r] THEN [stream[s] EXCEPT !.q = <<End>>] ELSE stream[s]]
      /\ subs' = [subs EXCEPT ![r] = {}]
  BY DEF Cleanup
<1>3. /\ published' \in [Run -> Seq({"content", "note"})] /\ \A x \in Run \ {r} : published'[x] = published[x]
  <2>1. published[r] \in Seq({"content", "note"}) /\ Append(published[r], "note") \in Seq({"content", "note"})
    BY <1>1, AppendProperties DEF PagesOK
  <2>2. QED BY <1>1, <1>2, <2>1 DEF PagesOK
<1>4. subs' \in [Run -> SUBSET Stream] /\ subs'[r] = {} /\ \A x \in Run \ {r} : subs'[x] = subs[x]
  BY <1>1, <1>2 DEF PagesOK
<1>5. PICK q \in Seq(Nat) : q = <<End>> /\ Len(q) <= SubscriberQueueSize
  BY SmallQueues
<1>6. ASSUME NEW s \in Stream
      PROVE  /\ stream'[s] \in Page /\ Len(stream'[s].q) <= SubscriberQueueSize
             /\ s \notin subs[r] => stream'[s] = stream[s]
             /\ s \in subs[r] => stream'[s].q = <<End>>
             /\ stream'[s].state = stream[s].state /\ stream'[s].run = stream[s].run
  <2>1. stream[s] \in Page /\ Len(stream[s].q) <= SubscriberQueueSize
    BY <1>1 DEF PagesOK
  <2>2. CASE s \in subs[r]
    <3>1. stream'[s] = [stream[s] EXCEPT !.q = q]
      BY <1>2, <1>5, <2>2
    <3>2. QED BY <1>5, <2>1, <2>2, <3>1 DEF Page
  <2>3. CASE s \notin subs[r]
    BY <1>2, <2>1, <2>3
  <2>4. QED BY <2>2, <2>3
<1>7. stream' \in [Stream -> Page]
  <2>1. \A s \in Stream : stream'[s] \in Page
    BY <1>6
  <2>2. QED BY <1>2, <2>1
<1>8. PagesOK'
  BY <1>3, <1>4, <1>6, <1>7 DEF PagesOK
<1>9. Subscribed'
  BY <1>1, <1>2, <1>4 DEF Subscribed
<1>10. ASSUME NEW x \in Stream, stream'[x].state = "open"
       PROVE  stream'[x].run \in Run /\ (x \in subs'[stream'[x].run] \/ stream'[x].q = <<End>>)
  <2>1. stream[x].state = "open" /\ stream'[x].run = stream[x].run
    BY <1>6, <1>10
  <2>2. stream[x].run \in Run /\ (x \in subs[stream[x].run] \/ stream[x].q = <<End>>)
    BY <1>1, <2>1 DEF Told
  <2>3. CASE x \in subs[r]
    BY <1>6, <2>1, <2>2, <2>3
  <2>4. CASE x \notin subs[r]
    BY <1>4, <1>6, <2>1, <2>2, <2>4
  <2>5. QED BY <2>3, <2>4
<1>11. ASSUME NEW x \in Run, NEW y \in subs'[x]
       PROVE  stream'[y].run = x /\ stream'[y].state = "open" /\ UpToDate(y, x)'
  <2>1. x # r /\ y \in subs[x] /\ y \in Stream
    BY <1>1, <1>4 DEF PagesOK
  <2>2. stream[y].run = x /\ stream[y].state = "open" /\ UpToDate(y, x)
    BY <1>1, <2>1 DEF Told, Shown
  <2>3. y \notin subs[r]
    BY <1>1, <2>1, <2>2 DEF Told
  <2>4. stream'[y] = stream[y] /\ published'[x] = published[x] /\ parts'[x] = parts[x]
    BY <1>2, <1>3, <1>6, <2>1, <2>3
  <2>5. QED BY <2>2, <2>4 DEF UpToDate
<1>12. QED BY <1>8, <1>9, <1>10, <1>11 DEF PagesInv, Told, Shown

-----------------------------------------------------------------------------
(* The tasks *)

Tasks == Suspended \cup {"none", "created", "last", "over"}
Flushes == {"none", "running", "empty", "saved", "failed"}

\* Only run r moves, to a place that the tables and the cancellations allow.
RunMoves(r) ==
  /\ task' = [task EXCEPT ![r] = task'[r]] /\ task'[r] \in Tasks \ {"none"}
  /\ flush' = [flush EXCEPT ![r] = flush'[r]] /\ flush'[r] \in Flushes
  /\ parts' \in [Run -> Nat] /\ pending' \in [Run -> Nat]
  /\ \A x \in Run \ {r} : /\ parts'[x] = parts[x] /\ pending'[x] = pending[x]
                          /\ published'[x] = published[x]
  /\ UNCHANGED <<deleter, victims, late>>
  /\ cancelled' \in {cancelled, cancelled \ {r}}
  /\ r \in cancelled' => task'[r] # "over" /\ (task'[r] \in {"created", "last"} => r \in late)
  /\ listed' \in {listed \cup {r}, listed \ {r}}
  /\ task'[r] # "over" => r \in listed'
  /\ r \in listed' => task'[r] # "over" \/ r \in late
  /\ open' \in SUBSET Run /\ open' \subseteq listed'
  /\ running' => listed' # {}
  /\ FlushOK(r)'

LEMMA RunMovesOK ==
  ASSUME RunsInv, NEW r \in Run, RunMoves(r)
  PROVE  RunsInv'
<1>1. RunsOK /\ Listed /\ Cancels /\ \A x \in Run : FlushOK(x)
  BY DEF RunsInv
<1>2. /\ task' \in [Run -> Tasks] /\ flush' \in [Run -> Flushes]
      /\ \A x \in Run \ {r} : task'[x] = task[x] /\ flush'[x] = flush[x]
  BY <1>1 DEF RunsOK, RunMoves, Tasks, Flushes
<1>3. listed' \in SUBSET Run /\ cancelled' \in SUBSET Run /\ open' \in SUBSET Run
  BY <1>1 DEF RunsOK, RunMoves
<1>4. RunsOK'
  BY <1>1, <1>2, <1>3 DEF RunsOK, RunMoves, Tasks, Flushes
<1>5. Listed'
  <2>1. ASSUME NEW x \in listed' PROVE task'[x] # "none" /\ (task'[x] = "over" => x \in late')
    <3>1. CASE x = r
      BY <2>1, <3>1 DEF RunMoves
    <3>2. CASE x # r
      <4>1. x \in listed /\ x \in Run /\ late' = late
        BY <1>3, <2>1, <3>2 DEF RunMoves
      <4>2. QED BY <1>1, <1>2, <3>2, <4>1 DEF Listed
    <3>3. QED BY <3>1, <3>2
  <2>2. ASSUME NEW x \in Run, task'[x] \notin {"none", "over"} PROVE x \in listed'
    <3>1. CASE x = r
      BY <2>2, <3>1 DEF RunMoves
    <3>2. CASE x # r
      <4>1. x \in listed
        BY <1>1, <1>2, <2>2, <3>2 DEF Listed
      <4>2. QED BY <3>2, <4>1 DEF RunMoves
    <3>3. QED BY <3>1, <3>2
  <2>3. QED BY <2>1, <2>2 DEF Listed, RunMoves
<1>6. Cancels'
  <2>1. ASSUME NEW x \in cancelled'
        PROVE  task'[x] \notin {"none", "over"} /\ (task'[x] \in {"created", "last"} => x \in late')
    <3>1. x \in cancelled /\ x \in Run /\ late' = late
      BY <1>3, <2>1 DEF RunMoves
    <3>2. CASE x = r
      BY <2>1, <3>1, <3>2 DEF RunMoves
    <3>3. CASE x # r
      BY <1>1, <1>2, <3>1, <3>3 DEF Cancels
    <3>4. QED BY <3>2, <3>3
  <2>2. deleter' = "idle" => cancelled' = {} /\ late' = {}
    BY <1>1 DEF Cancels, RunMoves
  <2>3. QED BY <2>1, <2>2 DEF Cancels
<1>7. ASSUME NEW x \in Run PROVE FlushOK(x)'
  <2>1. CASE x = r
    BY <2>1 DEF RunMoves
  <2>2. CASE x # r
    <3>1. FlushOK(x) /\ task'[x] = task[x] /\ flush'[x] = flush[x]
      BY <1>1, <1>2, <2>2
    <3>2. parts'[x] = parts[x] /\ pending'[x] = pending[x] /\ published'[x] = published[x] /\ deleter' = deleter
      BY <2>2 DEF RunMoves
    <3>3. QED BY <3>1, <3>2 DEF FlushOK
  <2>3. QED BY <2>1, <2>2
<1>8. QED BY <1>4, <1>5, <1>6, <1>7 DEF RunsInv

LEMMA RunsStay ==
  ASSUME RunsInv, UNCHANGED <<task, flush, cancelled, open, listed, parts, pending, published, running>>,
         UNCHANGED <<deleter, victims, late>>
  PROVE  RunsInv'
<1>1. RunsOK' /\ Listed' /\ Cancels'
  BY DEF RunsInv, RunsOK, Listed, Cancels
<1>2. \A r \in Run : FlushOK(r)'
  BY DEF RunsInv, FlushOK
<1>3. QED BY <1>1, <1>2 DEF RunsInv

\* Where a task that has published, or whose save has failed or ended, goes on.
LEMMA ContinueFacts ==
  ASSUME RunsInv, NEW r \in Run, task[r] \notin {"none", "created", "last", "over"}, r \notin cancelled,
         flush[r] = "none",
         \/ \E t \in Suspended : task' = [task EXCEPT ![r] = t] /\ flush' = flush
         \/ Leave(r),
         parts' \in [Run -> Nat], pending' \in [Run -> Nat], pending'[r] <= parts'[r],
         \A x \in Run \ {r} : parts'[x] = parts[x] /\ pending'[x] = pending[x] /\ published'[x] = published[x],
         UNCHANGED <<cancelled, open, listed, running>>, UNCHANGED <<deleter, victims, late>>
  PROVE  RunsInv'
<1>1. RunsOK /\ Listed /\ Cancels /\ FlushOK(r)
  BY DEF RunsInv
<1>2. r \in listed
  BY <1>1 DEF Listed
<1>3. \/ task'[r] \in Suspended /\ flush'[r] = "none"
      \/ task'[r] = "last" /\ flush'[r] = "running"
  BY <1>1 DEF RunsOK, Leave
<1>4. task' = [task EXCEPT ![r] = task'[r]] /\ flush' = [flush EXCEPT ![r] = flush'[r]]
  BY <1>1 DEF RunsOK, Leave
<1>5. task'[r] \in Tasks \ {"none", "over", "created"} /\ flush'[r] \in Flushes
  BY <1>3 DEF Tasks, Flushes, Suspended, Saving
<1>6. FlushOK(r)'
  BY <1>3 DEF FlushOK, Suspended, Saving
<1>7. listed' = listed \cup {r}
  BY <1>2
<1>8. RunMoves(r)
  <2>1. open' \in SUBSET Run /\ open' \subseteq listed' /\ (running' => listed' # {})
    BY <1>1 DEF RunsOK, Listed
  <2>2. QED BY <1>4, <1>5, <1>6, <1>7, <2>1 DEF RunMoves
<1>9. QED BY <1>8, RunMovesOK

-----------------------------------------------------------------------------
(* The actions *)

\* A task that is at an await is in no flush.
LEMMA NoFlush ==
  ASSUME RunsInv, NEW r \in Run, task[r] \in Suspended
  PROVE  task[r] \notin {"none", "created", "last", "over"} /\ flush[r] = "none"
<1>1. task[r] \notin {"none", "created", "last", "over"}
  BY DEF Suspended, Saving
<1>2. FlushOK(r) /\ flush[r] \in Flushes
  BY DEF RunsInv, RunsOK, Flushes
<1>3. QED BY <1>1, <1>2 DEF FlushOK, Flushes

LEMMA PublishedOther ==
  ASSUME PagesInv, NEW r \in Run, NEW w, Publish(r, w)
  PROVE  \A x \in Run \ {r} : published'[x] = published[x]
BY DEF PagesInv, PagesOK, Publish

LEMMA HandleKeeps ==
  ASSUME ChatInv, NEW r \in Run, NEW k, NEW n, NEW w, Payloads(w, n), Handle(r, k, n, w),
         task[r] \in Suspended, r \notin cancelled,
         UNCHANGED <<cancelled, open, listed, running>>, UNCHANGED <<deleter, victims, late>>
  PROVE  ChatInv'
<1>1. RunsInv /\ PagesInv /\ RunsOK /\ FlushOK(r)
  BY DEF ChatInv, RunsInv
<1>2. task[r] \notin {"none", "created", "last", "over"} /\ flush[r] = "none"
  BY <1>1, NoFlush
<1>3. n \in Nat
  BY DEF Payloads
<1>4. parts' = [parts EXCEPT ![r] = parts[r] + n] /\ pending' = [pending EXCEPT ![r] = pending[r] + n]
      /\ Publish(r, w)
  BY DEF Handle
<1>5. parts \in [Run -> Nat] /\ pending \in [Run -> Nat] /\ pending[r] <= parts[r]
  BY <1>1 DEF RunsOK, FlushOK
<1>6. /\ parts' \in [Run -> Nat] /\ pending' \in [Run -> Nat]
      /\ parts'[r] = parts[r] + n /\ pending'[r] = pending[r] + n
      /\ \A x \in Run \ {r} : parts'[x] = parts[x] /\ pending'[x] = pending[x]
  BY <1>3, <1>4, <1>5
<1>7. pending'[r] <= parts'[r]
  BY <1>3, <1>5, <1>6
<1>8. \/ \E t \in Suspended : task' = [task EXCEPT ![r] = t] /\ flush' = flush
      \/ Leave(r)
  BY DEF Handle, Continue, Suspended, Saving
<1>9. \A x \in Run \ {r} : published'[x] = published[x]
  BY <1>1, <1>4, PublishedOther
<1>10. RunsInv'
  BY <1>1, <1>2, <1>6, <1>7, <1>8, <1>9, ContinueFacts
<1>11. PublishOutcome(r, n)
  BY <1>1, <1>4, <1>5, PublishFacts
<1>12. PagesInv'
  BY <1>1, <1>6, <1>11, PublishedPages
<1>13. QED BY <1>10, <1>12 DEF ChatInv

LEMMA PagesStay ==
  ASSUME PagesInv, UNCHANGED <<subs, stream, published, parts, listed>>
  PROVE  PagesInv'
<1>1. PagesOK' /\ Subscribed' /\ Told'
  BY DEF PagesInv, PagesOK, Subscribed, Told
<1>2. Shown'
  BY DEF PagesInv, Shown, UpToDate
<1>3. QED BY <1>1, <1>2 DEF PagesInv

LEMMA GetKeeps == ASSUME ChatInv, NEW r \in Run, Get(r) PROVE ChatInv'
<1>1. task[r] \in Suspended /\ r \notin cancelled
  BY DEF Get, Suspended
<1>2. UNCHANGED <<cancelled, open, listed, running>> /\ UNCHANGED <<deleter, victims, late>>
  BY DEF Get, tableVars, deleteVars
<1>3. PICK k : k = Head(backq[r])
  OBVIOUS
<1>4. CASE k = "image" /\ Attach(r)
  <2>1. RunsInv /\ PagesInv /\ RunsOK /\ FlushOK(r)
    BY DEF ChatInv, RunsInv
  <2>2. task[r] \notin {"none", "created", "last", "over"} /\ flush[r] = "none"
    BY <1>1, <2>1, NoFlush
  <2>3. task' = [task EXCEPT ![r] = "attach"] /\ flush' = flush
        /\ UNCHANGED <<published, parts, pending>> /\ UNCHANGED <<subs, stream>>
    BY <1>4 DEF Attach, answerVars, pageVars
  <2>4. "attach" \in Suspended
    BY DEF Suspended
  <2>5. parts' \in [Run -> Nat] /\ pending' \in [Run -> Nat] /\ pending'[r] <= parts'[r]
    BY <2>1, <2>3 DEF RunsOK, FlushOK
  <2>6. RunsInv'
    BY <1>1, <1>2, <2>1, <2>2, <2>3, <2>4, <2>5, ContinueFacts
  <2>7. PagesInv'
    BY <1>2, <2>1, <2>3, PagesStay
  <2>8. QED BY <2>6, <2>7 DEF ChatInv
<1>5. CASE Handle(r, k, 1, <<"content">>)
  <2>1. Payloads(<<"content">>, 1)
    BY DEF Payloads
  <2>2. QED BY <1>1, <1>2, <1>5, <2>1, HandleKeeps
<1>6. CASE Handle(r, k, 0, <<"note">>)
  <2>1. Payloads(<<"note">>, 0)
    BY DEF Payloads
  <2>2. QED BY <1>1, <1>2, <1>6, <2>1, HandleKeeps
<1>7. QED BY <1>3, <1>4, <1>5, <1>6 DEF Get

LEMMA AttachedKeeps == ASSUME ChatInv, NEW r \in Run, Attached(r) PROVE ChatInv'
<1>1. task[r] \in Suspended /\ r \notin cancelled
  BY DEF Attached, Suspended
<1>2. UNCHANGED <<cancelled, open, listed, running>> /\ UNCHANGED <<deleter, victims, late>>
  BY DEF Attached, queueVars, tableVars, deleteVars
<1>3. Payloads(<<"content", "note">>, 1) /\ Payloads(<<"note">>, 0)
  BY DEF Payloads
<1>4. CASE \E k \in {"image", "part"} : Handle(r, k, 1, <<"content", "note">>)
  BY <1>1, <1>2, <1>3, <1>4, HandleKeeps
<1>5. CASE \E k \in {"image", "part"} : Handle(r, k, 0, <<"note">>)
  BY <1>1, <1>2, <1>3, <1>5, HandleKeeps
<1>6. QED BY <1>4, <1>5 DEF Attached

\* A note is published and nothing is added to the answer.
LEMMA NoteKeeps ==
  ASSUME ChatInv, NEW r \in Run, Publish(r, <<"note">>),
         task[r] \in Suspended, r \notin cancelled,
         \/ \E t \in Suspended : task' = [task EXCEPT ![r] = t] /\ flush' = flush
         \/ Leave(r),
         parts' = parts, pending' \in [Run -> Nat], pending'[r] <= pending[r],
         \A x \in Run \ {r} : pending'[x] = pending[x],
         UNCHANGED <<cancelled, open, listed, running>>, UNCHANGED <<deleter, victims, late>>
  PROVE  ChatInv'
<1>1. RunsInv /\ PagesInv /\ RunsOK /\ FlushOK(r)
  BY DEF ChatInv, RunsInv
<1>2. task[r] \notin {"none", "created", "last", "over"} /\ flush[r] = "none"
  BY <1>1, NoFlush
<1>3. parts \in [Run -> Nat] /\ pending \in [Run -> Nat] /\ pending[r] <= parts[r]
  BY <1>1 DEF RunsOK, FlushOK
<1>4. pending'[r] <= parts'[r]
  BY <1>3
<1>5. \A x \in Run \ {r} : published'[x] = published[x]
  BY <1>1, PublishedOther
<1>6. RunsInv'
  BY <1>1, <1>2, <1>3, <1>4, <1>5, ContinueFacts
<1>7. Payloads(<<"note">>, 0)
  BY DEF Payloads
<1>8. PublishOutcome(r, 0)
  BY <1>1, <1>3, <1>7, PublishFacts
<1>9. parts'[r] = parts[r] + 0
  BY <1>3
<1>10. PagesInv'
  BY <1>1, <1>8, <1>9, PublishedPages
<1>11. QED BY <1>6, <1>10 DEF ChatInv

LEMMA SavedKeeps == ASSUME ChatInv, NEW r \in Run, Saved(r) \/ Raises(r) PROVE ChatInv'
<1>1. task[r] \in Suspended /\ r \notin cancelled
  BY DEF Saved, Raises, Suspended
<1>2. UNCHANGED <<cancelled, open, listed, running>> /\ UNCHANGED <<deleter, victims, late>>
      /\ parts' = parts
  BY DEF Saved, Raises, queueVars, tableVars, deleteVars
<1>3. pending \in [Run -> Nat]
  BY DEF ChatInv, RunsInv, RunsOK
<1>4. /\ pending' \in [Run -> Nat] /\ pending'[r] <= pending[r]
      /\ \A x \in Run \ {r} : pending'[x] = pending[x]
  BY <1>3 DEF Saved, Raises, Store
<1>5. Publish(r, <<"note">>)
  BY DEF Saved, Raises
<1>6. \/ \E t \in Suspended : task' = [task EXCEPT ![r] = t] /\ flush' = flush
      \/ Leave(r)
  BY DEF Saved, Raises, Continue, Suspended
<1>7. QED BY <1>1, <1>2, <1>4, <1>5, <1>6, NoteKeeps

LEMMA StartKeeps == ASSUME ChatInv, NEW r \in Run, NEW s \in Stream, Start(r, s) PROVE ChatInv'
<1>1. RunsInv /\ PagesInv /\ RunsOK /\ Listed /\ Cancels /\ FlushOK(r) /\ PagesOK /\ Subscribed
  BY DEF ChatInv, RunsInv, PagesInv
<1>2. /\ task[r] = "none" /\ stream[s].state = "free"
      /\ task' = [task EXCEPT ![r] = "created"] /\ open' = open \cup {r} /\ listed' = listed \cup {r}
      /\ subs' = [subs EXCEPT ![r] = {s}] /\ stream' = [stream EXCEPT ![s] = Opened(r, 0, 0)]
      /\ UNCHANGED <<cancelled, flush, running>> /\ UNCHANGED <<published, parts, pending>>
      /\ UNCHANGED <<deleter, victims, late>>
  BY DEF Start, answerVars, deleteVars
<1>3. r \notin listed /\ r \notin cancelled /\ parts[r] = 0 /\ published[r] = <<>>
  BY <1>1, <1>2 DEF Listed, Cancels, FlushOK
<1>4. RunMoves(r)
  <2>1. /\ task' = [task EXCEPT ![r] = task'[r]] /\ task'[r] = "created" /\ task'[r] \in Tasks \ {"none"}
    BY <1>1, <1>2 DEF RunsOK, Tasks
  <2>2. /\ flush' = [flush EXCEPT ![r] = flush'[r]] /\ flush'[r] \in Flushes
    BY <1>1, <1>2 DEF RunsOK, Flushes
  <2>3. FlushOK(r)'
    BY <1>1, <1>2, <2>1 DEF FlushOK
  <2>4. open' \in SUBSET Run /\ open' \subseteq listed'
    BY <1>1, <1>2 DEF RunsOK, Listed
  <2>5. parts' \in [Run -> Nat] /\ pending' \in [Run -> Nat]
    BY <1>1, <1>2 DEF RunsOK
  <2>6. r \notin cancelled' /\ cancelled' = cancelled /\ listed' = listed \cup {r} /\ listed' # {}
    BY <1>2, <1>3
  <2>7. QED BY <1>2, <2>1, <2>2, <2>3, <2>4, <2>5, <2>6 DEF RunMoves
<1>5. subs[r] = {}
  BY <1>1, <1>3 DEF Subscribed
<1>6. Len(published[r]) = 0
  BY <1>3, SmallQueues
<1>7. subs' = [subs EXCEPT ![r] = subs[r] \cup {s}]
  <2>1. subs[r] \cup {s} = {s}
    BY <1>5
  <2>2. QED BY <1>2, <2>1
<1>8. stream' = [stream EXCEPT ![s] = Opened(r, Len(published[r]), parts[r])]
  BY <1>2, <1>3, <1>6
<1>9. parts \in [Run -> Nat] /\ r \in listed' /\ listed \subseteq listed' /\ published' = published /\ parts' = parts
  BY <1>1, <1>2 DEF RunsOK
<1>10. PagesInv'
  BY <1>1, <1>2, <1>7, <1>8, <1>9, PageOpens
<1>11. QED BY <1>1, <1>4, <1>10, RunMovesOK DEF ChatInv

LEMMA ResumeKeeps == ASSUME ChatInv, NEW r \in Run, NEW s \in Stream, Resume(r, s) PROVE ChatInv'
<1>1. RunsInv /\ PagesInv /\ RunsOK
  BY DEF ChatInv, RunsInv
<1>2. /\ UNCHANGED <<task, flush, cancelled, open, listed, parts, pending, published, running>>
      /\ UNCHANGED <<deleter, victims, late>>
  BY DEF Resume, taskVars, queueVars, answerVars, tableVars, deleteVars
<1>3. RunsInv'
  BY <1>1, <1>2, RunsStay
<1>4. /\ stream[s].state = "free" /\ parts \in [Run -> Nat] /\ r \in listed' /\ listed \subseteq listed'
      /\ published' = published /\ parts' = parts
      /\ stream' = [stream EXCEPT ![s] = Opened(r, Len(published[r]), parts[r])]
      /\ subs' = [subs EXCEPT ![r] = subs[r] \cup {s}]
  BY <1>1, <1>2 DEF Resume, RunsOK
<1>5. PagesInv'
  BY <1>1, <1>4, PageOpens
<1>6. QED BY <1>3, <1>5 DEF ChatInv

LEMMA PageKeeps == ASSUME ChatInv, NEW s \in Stream, Read(s) \/ Disconnect(s) PROVE ChatInv'
<1>1. RunsInv /\ PagesInv /\ RunsOK
  BY DEF ChatInv, RunsInv
<1>2. /\ UNCHANGED <<task, flush, cancelled, open, listed, parts, pending, published, running>>
      /\ UNCHANGED <<deleter, victims, late>>
  BY DEF Read, Disconnect, taskVars, queueVars, answerVars, tableVars, deleteVars
<1>3. RunsInv'
  BY <1>1, <1>2, RunsStay
<1>4. parts \in [Run -> Nat]
  BY <1>1 DEF RunsOK
<1>5. CASE Read(s)
  BY <1>1, <1>3, <1>4, <1>5, PageReads DEF ChatInv
<1>6. CASE Disconnect(s)
  <2>1. stream[s].state = "open" /\ Closed(s)
    BY <1>6 DEF Disconnect
  <2>2. QED BY <1>1, <1>2, <1>3, <2>1, PageCloses DEF ChatInv
<1>7. QED BY <1>5, <1>6

LEMMA SendKeeps == ASSUME ChatInv, Listen \/ \E r \in Run : Send(r) PROVE ChatInv'
<1>1. UNCHANGED <<taskVars, open, answerVars, pageVars, tableVars, deleteVars>>
  BY DEF Listen, Send, Put, PutReturns, SendingFails
<1>2. /\ UNCHANGED <<task, flush, cancelled, open, listed, parts, pending, published, running>>
      /\ UNCHANGED <<deleter, victims, late>> /\ UNCHANGED <<subs, stream>>
  BY <1>1 DEF taskVars, answerVars, pageVars, tableVars, deleteVars
<1>3. QED BY <1>2, RunsStay, PagesStay DEF ChatInv

LEMMA BeginKeeps == ASSUME ChatInv, NEW r \in Run, Begin(r) PROVE ChatInv'
<1>1. RunsInv /\ PagesInv /\ RunsOK /\ Listed /\ FlushOK(r)
  BY DEF ChatInv, RunsInv
<1>2. /\ task[r] = "created" /\ r \notin cancelled /\ task' = [task EXCEPT ![r] = "get"]
      /\ UNCHANGED <<flush, cancelled, open, listed, parts, pending, published>>
      /\ UNCHANGED <<deleter, victims, late>> /\ UNCHANGED <<subs, stream>>
  BY DEF Begin, queueVars, answerVars, pageVars, deleteVars
<1>3. r \in listed
  BY <1>1, <1>2 DEF Listed
<1>4. task' = [task EXCEPT ![r] = task'[r]] /\ task'[r] = "get" /\ task'[r] \in Tasks \ {"none"}
  BY <1>1, <1>2 DEF RunsOK, Tasks, Suspended
<1>5. flush' = [flush EXCEPT ![r] = flush'[r]] /\ flush'[r] \in Flushes
  BY <1>1, <1>2 DEF RunsOK, Flushes
<1>6. FlushOK(r)'
  BY <1>1, <1>2, <1>4 DEF FlushOK
<1>7. open' \in SUBSET Run /\ open' \subseteq listed' /\ parts' \in [Run -> Nat] /\ pending' \in [Run -> Nat]
  BY <1>1, <1>2 DEF RunsOK, Listed
<1>8. listed' = listed \cup {r} /\ listed' # {}
  BY <1>2, <1>3
<1>9. RunMoves(r)
  BY <1>2, <1>4, <1>5, <1>6, <1>7, <1>8 DEF RunMoves
<1>10. QED BY <1>1, <1>2, <1>9, RunMovesOK, PagesStay DEF ChatInv

LEMMA CancelledKeeps == ASSUME ChatInv, NEW r \in Run, Cancelled(r) PROVE ChatInv'
<1>1. RunsInv /\ PagesInv /\ RunsOK /\ Listed /\ FlushOK(r)
  BY DEF ChatInv, RunsInv
<1>2. /\ task[r] \in Suspended /\ r \in cancelled /\ cancelled' = cancelled \ {r}
      /\ task' = [task EXCEPT ![r] = "last"] /\ flush' = [flush EXCEPT ![r] = "running"]
      /\ UNCHANGED <<open, listed, parts, pending, published, running>>
      /\ UNCHANGED <<deleter, victims, late>> /\ UNCHANGED <<subs, stream>>
  BY DEF Cancelled, Leave, queueVars, pageVars, tableVars, deleteVars
<1>3. r \in listed
  BY <1>1, <1>2, NoFlush DEF Listed
<1>4. task' = [task EXCEPT ![r] = task'[r]] /\ task'[r] = "last" /\ task'[r] \in Tasks \ {"none"}
  BY <1>1, <1>2 DEF RunsOK, Tasks
<1>5. flush' = [flush EXCEPT ![r] = flush'[r]] /\ flush'[r] = "running" /\ flush'[r] \in Flushes
  BY <1>1, <1>2 DEF RunsOK, Flushes
<1>6. FlushOK(r)'
  BY <1>1, <1>2, <1>4, <1>5 DEF FlushOK
<1>7. open' \in SUBSET Run /\ open' \subseteq listed' /\ parts' \in [Run -> Nat] /\ pending' \in [Run -> Nat]
  BY <1>1, <1>2 DEF RunsOK, Listed
<1>8. listed' = listed \cup {r} /\ listed' # {} /\ r \notin cancelled'
  BY <1>2, <1>3
<1>9. RunMoves(r)
  BY <1>2, <1>4, <1>5, <1>6, <1>7, <1>8 DEF RunMoves
<1>10. QED BY <1>1, <1>2, <1>9, RunMovesOK, PagesStay DEF ChatInv

LEMMA FlushKeeps == ASSUME ChatInv, NEW r \in Run, Flush(r) PROVE ChatInv'
<1>1. RunsInv /\ PagesInv /\ RunsOK /\ Listed /\ FlushOK(r)
  BY DEF ChatInv, RunsInv
<1>2. /\ flush[r] = "running" /\ task' = task
      /\ UNCHANGED <<cancelled, open, listed, parts, published, running>>
      /\ UNCHANGED <<deleter, victims, late>> /\ UNCHANGED <<subs, stream>>
  BY DEF Flush, queueVars, pageVars, tableVars, deleteVars
<1>3. task[r] \in {"last", "over"}
  BY <1>1, <1>2 DEF FlushOK
<1>4. /\ flush' = [flush EXCEPT ![r] = flush'[r]] /\ flush'[r] \in {"empty", "saved", "failed"}
      /\ pending' \in [Run -> Nat] /\ pending'[r] <= pending[r]
      /\ (flush'[r] \in {"empty", "saved"} => pending'[r] = 0)
      /\ \A x \in Run \ {r} : pending'[x] = pending[x]
  <2>1. flush \in [Run -> Flushes] /\ pending \in [Run -> Nat]
    BY <1>1 DEF RunsOK, Flushes
  <2>2. CASE pending[r] = 0 /\ flush' = [flush EXCEPT ![r] = "empty"] /\ pending' = pending
    BY <2>1, <2>2
  <2>3. CASE flush' = [flush EXCEPT ![r] = "saved"] /\ pending' = [pending EXCEPT ![r] = 0]
    BY <2>1, <2>3
  <2>4. CASE flush' = [flush EXCEPT ![r] = "failed"] /\ pending' = pending
    BY <2>1, <2>4
  <2>5. QED BY <2>2, <2>3, <2>4 DEF Flush, Store
<1>5. FlushOK(r)'
  BY <1>1, <1>2, <1>3, <1>4 DEF FlushOK, RunsOK
<1>6. task' = [task EXCEPT ![r] = task'[r]] /\ task'[r] = task[r] /\ task'[r] \in Tasks \ {"none"}
  BY <1>1, <1>2, <1>3 DEF RunsOK, Tasks
<1>7. open' \in SUBSET Run /\ open' \subseteq listed' /\ parts' \in [Run -> Nat] /\ (running' => listed' # {})
  BY <1>1, <1>2 DEF RunsOK, Listed
<1>8. (task[r] # "over" => r \in listed) /\ (r \in listed => task[r] # "over" \/ r \in late)
  BY <1>1, <1>3 DEF Listed
<1>9. listed' \in {listed \cup {r}, listed \ {r}}
  BY <1>2
<1>10. r \in cancelled => task[r] # "over" /\ (task[r] \in {"created", "last"} => r \in late)
  BY <1>1 DEF RunsInv, Cancels
<1>11. flush'[r] \in Flushes
  BY <1>4 DEF Flushes
<1>12. RunMoves(r)
  BY <1>2, <1>4, <1>5, <1>6, <1>7, <1>8, <1>9, <1>10, <1>11 DEF RunMoves
<1>13. QED BY <1>1, <1>2, <1>12, RunMovesOK, PagesStay DEF ChatInv

LEMMA CleanupKeeps == ASSUME ChatInv, NEW r \in Run, Cleanup(r) PROVE ChatInv'
<1>1. RunsInv /\ PagesInv /\ RunsOK /\ Listed /\ FlushOK(r) /\ PagesOK
  BY DEF ChatInv, RunsInv, PagesInv
<1>2. /\ task[r] = "last" /\ r \notin cancelled /\ flush[r] # "running"
      /\ task' = [task EXCEPT ![r] = "over"] /\ open' = open \ {r} /\ listed' = listed \ {r}
      /\ running' = (listed' # {} /\ running)
      /\ UNCHANGED <<cancelled, flush, parts, pending>> /\ UNCHANGED <<deleter, victims, late>>
  BY DEF Cleanup, deleteVars
<1>3. \A x \in Run \ {r} : published'[x] = published[x]
  BY <1>1 DEF Cleanup, PagesOK
<1>4. task' = [task EXCEPT ![r] = task'[r]] /\ task'[r] = "over" /\ task'[r] \in Tasks \ {"none"}
  BY <1>1, <1>2 DEF RunsOK, Tasks
<1>5. flush' = [flush EXCEPT ![r] = flush'[r]] /\ flush'[r] \in Flushes /\ flush'[r] = flush[r]
  BY <1>1, <1>2 DEF RunsOK, Flushes
<1>6. FlushOK(r)'
  BY <1>1, <1>2, <1>4, <1>5 DEF FlushOK
<1>7. open' \in SUBSET Run /\ open' \subseteq listed' /\ parts' \in [Run -> Nat] /\ pending' \in [Run -> Nat]
  BY <1>1, <1>2 DEF RunsOK, Listed
<1>8. running' => listed' # {}
  BY <1>2, Zenon
<1>9. RunMoves(r)
  BY <1>2, <1>3, <1>4, <1>5, <1>6, <1>7, <1>8 DEF RunMoves
<1>10. QED BY <1>1, <1>9, RunMovesOK, PagesEnd DEF ChatInv

LEMMA KilledKeeps == ASSUME ChatInv, NEW r \in Run, Killed(r) PROVE ChatInv'
<1>1. RunsInv /\ PagesInv /\ RunsOK /\ Listed /\ Cancels /\ FlushOK(r)
  BY DEF ChatInv, RunsInv
<1>2. /\ task[r] \in {"created", "last"} /\ r \in cancelled /\ cancelled' = cancelled \ {r}
      /\ task' = [task EXCEPT ![r] = "over"]
      /\ UNCHANGED <<flush, open, listed, parts, pending, published, running>>
      /\ UNCHANGED <<deleter, victims, late>> /\ UNCHANGED <<subs, stream>>
  BY DEF Killed, queueVars, answerVars, pageVars, tableVars, deleteVars
<1>3. r \in late /\ r \in listed /\ deleter # "idle"
  BY <1>1, <1>2 DEF Listed, Cancels
<1>4. task' = [task EXCEPT ![r] = task'[r]] /\ task'[r] = "over" /\ task'[r] \in Tasks \ {"none"}
  BY <1>1, <1>2 DEF RunsOK, Tasks
<1>5. flush' = [flush EXCEPT ![r] = flush'[r]] /\ flush'[r] \in Flushes /\ flush'[r] = flush[r]
  BY <1>1, <1>2 DEF RunsOK, Flushes
<1>6. FlushOK(r)'
  BY <1>1, <1>2, <1>3, <1>4, <1>5 DEF FlushOK
<1>7. open' \in SUBSET Run /\ open' \subseteq listed' /\ parts' \in [Run -> Nat] /\ pending' \in [Run -> Nat]
  BY <1>1, <1>2 DEF RunsOK, Listed
<1>8. listed' = listed \cup {r} /\ listed' # {} /\ r \notin cancelled'
  BY <1>2, <1>3
<1>9. RunMoves(r)
  BY <1>2, <1>3, <1>4, <1>5, <1>6, <1>7, <1>8 DEF RunMoves
<1>10. QED BY <1>1, <1>2, <1>9, RunMovesOK, PagesStay DEF ChatInv

\* The deletion only cancels tasks and takes queues away.
LEMMA DeleteKeeps == ASSUME ChatInv, Delete PROVE ChatInv'
<1>1. RunsInv /\ PagesInv /\ RunsOK /\ Listed /\ Cancels /\ \A r \in Run : FlushOK(r)
  BY DEF ChatInv, RunsInv
<1>2. /\ UNCHANGED <<task, flush, listed, parts, pending, published, running>>
      /\ UNCHANGED <<subs, stream>> /\ deleter' \in {"gather", "wiped", "done"}
  BY DEF Delete, DeleteBegins, DeleteWipes, DeleteRemoves, taskVars, answerVars, pageVars, tableVars
<1>3. open' \in {open, {}}
  BY DEF Delete, DeleteBegins, DeleteWipes, DeleteRemoves, queueVars
<1>4. PagesInv'
  BY <1>1, <1>2, PagesStay
<1>5. /\ cancelled' \in SUBSET Run /\ victims' \in SUBSET Run /\ late' \in SUBSET victims'
      /\ \A r \in cancelled' : /\ task[r] \notin {"none", "over"}
                               /\ task[r] \in {"created", "last"} => r \in late'
      /\ late \subseteq late'
  <2>1. CASE DeleteBegins
    <3>1. /\ deleter = "idle" /\ victims' = {r \in listed : task[r] # "over"}
          /\ cancelled' = cancelled \cup victims'
          /\ late' = {r \in victims' : task[r] \in {"created", "last"}}
      BY <2>1 DEF DeleteBegins
    <3>2. cancelled = {} /\ late = {}
      BY <1>1, <3>1 DEF Cancels
    <3>3. \A r \in listed : task[r] # "none"
      BY <1>1 DEF Listed
    <3>4. QED BY <1>1, <3>1, <3>2, <3>3 DEF RunsOK
  <2>2. CASE DeleteWipes \/ DeleteRemoves
    <3>1. UNCHANGED <<cancelled, victims, late>>
      BY <2>2 DEF DeleteWipes, DeleteRemoves, taskVars
    <3>2. QED BY <1>1, <3>1 DEF RunsOK, Cancels
  <2>3. QED BY <2>1, <2>2 DEF Delete
<1>6. RunsOK'
  BY <1>1, <1>2, <1>3, <1>5 DEF RunsOK
<1>7. Listed'
  BY <1>1, <1>2, <1>3, <1>5 DEF Listed
<1>8. Cancels'
  BY <1>2, <1>5 DEF Cancels
<1>9. \A r \in Run : FlushOK(r)'
  BY <1>1, <1>2 DEF FlushOK
<1>10. QED BY <1>4, <1>6, <1>7, <1>8, <1>9 DEF ChatInv, RunsInv

LEMMA ChatStep == ASSUME ChatInv, [Next]_vars PROVE ChatInv'
<1>1. CASE UNCHANGED vars
  <2>1. UNCHANGED <<taskVars, queueVars, answerVars, pageVars, tableVars, deleteVars>>
    BY <1>1 DEF vars
  <2>2. /\ UNCHANGED <<task, flush, cancelled, open, listed, parts, pending, published, running>>
        /\ UNCHANGED <<deleter, victims, late>> /\ UNCHANGED <<subs, stream>>
    BY <2>1 DEF taskVars, queueVars, answerVars, pageVars, tableVars, deleteVars
  <2>3. QED BY <2>2, RunsStay, PagesStay DEF ChatInv
<1>2. CASE Next
  <2>1. ASSUME NEW r \in Run, NEW s \in Stream, Start(r, s) \/ Resume(r, s) PROVE ChatInv'
    BY <2>1, StartKeeps, ResumeKeeps
  <2>2. ASSUME NEW s \in Stream, Read(s) \/ Disconnect(s) PROVE ChatInv'
    BY <2>2, PageKeeps
  <2>3. CASE Listen \/ \E r \in Run : Send(r)
    BY <2>3, SendKeeps
  <2>4. ASSUME NEW r \in Run, Consume(r) PROVE ChatInv'
    BY <2>4, BeginKeeps, GetKeeps, AttachedKeeps, SavedKeeps, CancelledKeeps, CleanupKeeps, KilledKeeps
       DEF Consume
  <2>5. ASSUME NEW r \in Run, Flush(r) PROVE ChatInv'
    BY <2>5, FlushKeeps
  <2>6. CASE Delete
    BY <2>6, DeleteKeeps
  <2>7. QED BY <1>2, <2>1, <2>2, <2>3, <2>4, <2>5, <2>6 DEF Next
<1>3. QED BY <1>1, <1>2

LEMMA ChatStart == ASSUME Init PROVE ChatInv
<1>1. RunsOK /\ Listed /\ Cancels
  BY DEF Init, RunsOK, Listed, Cancels
<1>2. \A r \in Run : FlushOK(r)
  BY DEF Init, FlushOK
<1>3. PICK q \in Seq(Nat) : q = <<>> /\ Len(q) <= SubscriberQueueSize
  <2>1. PICK q \in Seq(Nat) : q = <<>> /\ Len(q) = 0
    BY SmallQueues
  <2>2. 0 <= SubscriberQueueSize
    BY SmallQueues
  <2>3. QED BY <2>1, <2>2
<1>4. /\ stream = [s \in Stream |-> [state |-> "free", run |-> NoRun, q |-> q, got |-> 0, view |-> 0]]
      /\ subs = [r \in Run |-> {}] /\ published = [r \in Run |-> <<>>]
  BY <1>3 DEF Init
<1>5. stream \in [Stream -> Page] /\ \A s \in Stream : stream[s].q = q /\ stream[s].state = "free"
  BY <1>4 DEF Page
<1>6. published \in [Run -> Seq({"content", "note"})]
  <2>1. <<>> \in Seq({"content", "note"})
    OBVIOUS
  <2>2. QED BY <1>4, <2>1
<1>7. PagesOK
  BY <1>3, <1>4, <1>5, <1>6 DEF PagesOK
<1>8. Subscribed /\ Told /\ Shown
  BY <1>4, <1>5 DEF Subscribed, Told, Shown
<1>9. QED BY <1>1, <1>2, <1>7, <1>8 DEF ChatInv, RunsInv, PagesInv

-----------------------------------------------------------------------------
(* The history *)

InAnswer(q, n) == \A i \in 1 .. Len(q) : q[i] \in 1 .. n

LEMMA RecordIs ==
  ASSUME NEW m \in Nat, NEW n \in Nat, NEW p, p = m + n
  PROVE  [i \in 1 .. n |-> p - n + i] = New(m, n)
<1>1. p - n = m
  OBVIOUS
<1>2. QED BY <1>1 DEF New

LEMMA AnswerIs == ASSUME NEW n \in Nat PROVE [i \in 1 .. n |-> i] = Rest(0, n)
<1>1. n - 0 = n /\ \A i \in 1 .. n : 0 + i = i
  OBVIOUS
<1>2. QED BY <1>1 DEF Rest

LEMMA RecordAdded ==
  ASSUME NEW q \in Seq(Nat), NEW m \in Nat, NEW n \in Nat, InAnswer(q, m + n)
  PROVE  q \o New(m, n) \in Seq(Nat) /\ InAnswer(q \o New(m, n), m + n)
<1>1. PICK w \in Seq(Nat) : w = New(m, n) /\ Len(w) = n /\ \A i \in 1 .. n : w[i] = m + i
  BY NewIs
<1>2. PICK c : c = q \o w
  OBVIOUS
<1>3. c \in Seq(Nat) /\ Len(c) = Len(q) + Len(w)
      /\ \A i \in 1 .. Len(q) + Len(w) : c[i] = IF i <= Len(q) THEN q[i] ELSE w[i - Len(q)]
  BY <1>1, <1>2, ConcatProperties
<1>4. PICK l \in Nat : l = Len(q)
  OBVIOUS
<1>5. ASSUME NEW i \in 1 .. l + n PROVE c[i] \in 1 .. m + n
  <2>1. CASE i <= l
    <3>1. c[i] = q[i] /\ i \in 1 .. l
      BY <1>1, <1>3, <1>4, <2>1
    <3>2. QED BY <1>4, <3>1 DEF InAnswer
  <2>2. CASE i > l
    <3>1. c[i] = w[i - l] /\ i - l \in 1 .. n
      BY <1>1, <1>3, <1>4, <2>2
    <3>2. w[i - l] = m + (i - l)
      BY <1>1, <3>1
    <3>3. QED BY <3>1, <3>2
  <2>3. QED BY <1>4, <2>1, <2>2
<1>6. Len(c) = l + n
  BY <1>1, <1>3, <1>4
<1>7. InAnswer(c, m + n)
  BY <1>5, <1>6 DEF InAnswer
<1>8. QED BY <1>1, <1>2, <1>3, <1>7

\* The pending pieces of run r are stored.
Recorded(r) ==
  /\ stored' \in [Run -> Seq(Nat)] /\ InAnswer(stored'[r], parts[r])
  /\ \A x \in Run \ {r} : stored'[x] = stored[x]
  /\ deleter = "idle" => stored'[r] = [i \in 1 .. parts[r] |-> i]

LEMMA StoreFacts ==
  ASSUME RunsInv, StoredOK, NEW r \in Run,
         stored' = [stored EXCEPT ![r] = @ \o [i \in 1 .. pending[r] |-> parts[r] - pending[r] + i]]
  PROVE  Recorded(r)
<1>1. stored \in [Run -> Seq(Nat)] /\ InAnswer(stored[r], parts[r])
  BY DEF StoredOK, InAnswer
<1>2. PICK p \in Nat, n \in Nat : p = parts[r] /\ n = pending[r] /\ n <= p
  BY DEF RunsInv, RunsOK, FlushOK
<1>3. PICK m \in Nat : p = m + n /\ m = p - n
  BY <1>2
<1>4. [i \in 1 .. n |-> p - n + i] = New(m, n)
  BY <1>3, RecordIs
<1>5. stored' = [stored EXCEPT ![r] = stored[r] \o New(m, n)]
  BY <1>2, <1>4
<1>6. stored[r] \o New(m, n) \in Seq(Nat) /\ InAnswer(stored[r] \o New(m, n), m + n)
  <2>1. PICK q \in Seq(Nat) : q = stored[r]
    BY <1>1
  <2>2. InAnswer(q, m + n)
    BY <1>1, <1>2, <1>3, <2>1
  <2>3. QED BY <2>1, <2>2, RecordAdded
<1>7. /\ stored' \in [Run -> Seq(Nat)] /\ stored'[r] = stored[r] \o New(m, n)
      /\ \A x \in Run \ {r} : stored'[x] = stored[x]
  BY <1>1, <1>5, <1>6
<1>8. InAnswer(stored'[r], parts[r])
  BY <1>2, <1>3, <1>6, <1>7
<1>9. ASSUME deleter = "idle" PROVE stored'[r] = [i \in 1 .. parts[r] |-> i]
  <2>1. stored[r] = [i \in 1 .. m |-> i]
    BY <1>2, <1>3, <1>9 DEF StoredOK
  <2>2. stored[r] = Rest(0, m)
    BY <2>1, AnswerIs
  <2>3. Rest(0, m) \o New(m, n) = Rest(0, m + n)
    <3>1. 0 \in Nat /\ 0 <= m
      OBVIOUS
    <3>2. QED BY <3>1, QueueGrows
  <2>4. stored'[r] = Rest(0, p)
    BY <1>3, <1>7, <2>2, <2>3
  <2>5. QED BY <1>2, <2>4, AnswerIs
<1>10. QED BY <1>7, <1>8, <1>9 DEF Recorded

LEMMA StoredStays ==
  ASSUME RunsInv, StoredOK, stored' = stored, parts' \in [Run -> Nat], \A r \in Run : parts'[r] >= parts[r],
         deleter' = "idle" => deleter = "idle" /\ \A r \in Run : parts'[r] - pending'[r] = parts[r] - pending[r]
  PROVE  StoredOK'
<1>1. ASSUME NEW r \in Run, NEW i \in 1 .. Len(stored[r]) PROVE stored[r][i] \in 1 .. parts'[r]
  <2>1. stored[r][i] \in 1 .. parts[r]
    BY DEF StoredOK
  <2>2. parts[r] \in Nat /\ parts'[r] \in Nat /\ parts'[r] >= parts[r]
    BY DEF RunsInv, RunsOK
  <2>3. QED BY <2>1, <2>2
<1>2. QED BY <1>1 DEF StoredOK

LEMMA StoredGrows ==
  ASSUME RunsInv, StoredOK, NEW r \in Run, Recorded(r), parts' = parts, deleter' = deleter,
         \/ deleter # "idle"
         \/ pending'[r] = 0 /\ \A x \in Run \ {r} : pending'[x] = pending[x]
  PROVE  StoredOK'
<1>1. ASSUME NEW x \in Run PROVE InAnswer(stored'[x], parts'[x])
  <2>1. CASE x = r
    BY <2>1 DEF Recorded
  <2>2. CASE x # r
    BY <2>2 DEF Recorded, StoredOK, InAnswer
  <2>3. QED BY <2>1, <2>2
<1>2. ASSUME deleter' = "idle", NEW x \in Run
      PROVE  stored'[x] = [i \in 1 .. parts'[x] - pending'[x] |-> i]
  <2>1. CASE x = r
    <3>1. parts'[x] - pending'[x] = parts[r]
      BY <1>2, <2>1 DEF RunsInv, RunsOK
    <3>2. QED BY <1>2, <2>1, <3>1 DEF Recorded
  <2>2. CASE x # r
    BY <1>2, <2>2 DEF Recorded, StoredOK
  <2>3. QED BY <2>1, <2>2
<1>3. QED BY <1>1, <1>2 DEF StoredOK, Recorded, InAnswer

LEMMA HandleStored ==
  ASSUME RunsInv, StoredOK, NEW r \in Run, NEW k, NEW n \in Nat, NEW w, Handle(r, k, n, w),
         stored' = stored, deleter' = deleter
  PROVE  StoredOK'
<1>1. parts' = [parts EXCEPT ![r] = parts[r] + n] /\ pending' = [pending EXCEPT ![r] = pending[r] + n]
  BY DEF Handle
<1>2. parts \in [Run -> Nat] /\ pending \in [Run -> Nat]
  BY DEF RunsInv, RunsOK
<1>3. parts' \in [Run -> Nat]
  BY <1>1, <1>2
<1>4. ASSUME NEW x \in Run PROVE parts'[x] >= parts[x] /\ parts'[x] - pending'[x] = parts[x] - pending[x]
  BY <1>1, <1>2
<1>5. QED BY <1>3, <1>4, StoredStays

LEMMA StoredSame ==
  ASSUME RunsInv, StoredOK, UNCHANGED <<stored, parts, pending>>, deleter' = "idle" => deleter = "idle"
  PROVE  StoredOK'
<1>1. parts' \in [Run -> Nat] /\ \A r \in Run : parts'[r] >= parts[r]
  BY DEF RunsInv, RunsOK
<1>2. QED BY <1>1, StoredStays

LEMMA StoredStep == ASSUME ChatInv, StoredOK, [Next]_vars PROVE StoredOK'
<1>1. RunsInv /\ RunsOK /\ Cancels
  BY DEF ChatInv, RunsInv
<1>2. ASSUME UNCHANGED <<answerVars, deleteVars>> PROVE StoredOK'
  BY <1>1, <1>2, StoredSame DEF answerVars, deleteVars
<1>3. CASE UNCHANGED vars
  BY <1>2, <1>3 DEF vars
<1>4. ASSUME NEW r \in Run, NEW s \in Stream, Start(r, s) \/ Resume(r, s) PROVE StoredOK'
  BY <1>2, <1>4 DEF Start, Resume
<1>5. ASSUME NEW s \in Stream, Read(s) \/ Disconnect(s) PROVE StoredOK'
  BY <1>2, <1>5 DEF Read, Disconnect
<1>6. CASE Listen \/ \E r \in Run : Send(r)
  BY <1>2, <1>6 DEF Listen, Send, Put, PutReturns, SendingFails
<1>7. ASSUME NEW r \in Run, Begin(r) \/ Killed(r) PROVE StoredOK'
  BY <1>2, <1>7 DEF Begin, Killed
<1>8. ASSUME NEW r \in Run, Raises(r) \/ Cleanup(r) PROVE StoredOK'
  <2>1. UNCHANGED <<stored, parts, pending>> /\ deleter' = deleter
    BY <1>8 DEF Raises, Cleanup, deleteVars
  <2>2. QED BY <1>1, <2>1, StoredSame
<1>9. ASSUME NEW r \in Run, Get(r) PROVE StoredOK'
  <2>1. deleter' = deleter
    BY <1>9 DEF Get, deleteVars
  <2>2. PICK k : k = Head(backq[r])
    OBVIOUS
  <2>3. CASE Attach(r)
    BY <1>1, <2>1, <2>3, StoredSame DEF Attach, answerVars
  <2>4. CASE Handle(r, k, 1, <<"content">>) /\ stored' = stored
    BY <1>1, <2>1, <2>4, HandleStored
  <2>5. CASE Handle(r, k, 0, <<"note">>) /\ stored' = stored
    BY <1>1, <2>1, <2>5, HandleStored
  <2>6. QED BY <1>9, <2>2, <2>3, <2>4, <2>5 DEF Get
<1>10. ASSUME NEW r \in Run, Attached(r) PROVE StoredOK'
  <2>1. stored' = stored /\ deleter' = deleter
    BY <1>10 DEF Attached, deleteVars
  <2>2. CASE \E k \in {"image", "part"} : Handle(r, k, 1, <<"content", "note">>)
    BY <1>1, <2>1, <2>2, HandleStored
  <2>3. CASE \E k \in {"image", "part"} : Handle(r, k, 0, <<"note">>)
    BY <1>1, <2>1, <2>3, HandleStored
  <2>4. QED BY <1>10, <2>2, <2>3 DEF Attached
<1>11. ASSUME NEW r \in Run, Store(r), parts' = parts, deleter' = deleter PROVE StoredOK'
  <2>1. Recorded(r)
    BY <1>1, <1>11, StoreFacts DEF Store
  <2>2. pending'[r] = 0 /\ \A x \in Run \ {r} : pending'[x] = pending[x]
    BY <1>1, <1>11 DEF Store, RunsOK
  <2>3. QED BY <1>1, <1>11, <2>1, <2>2, StoredGrows
<1>12. ASSUME NEW r \in Run, Saved(r) PROVE StoredOK'
  BY <1>11, <1>12 DEF Saved, deleteVars
<1>13. ASSUME NEW r \in Run, Flush(r) PROVE StoredOK'
  <2>1. parts' = parts /\ deleter' = deleter
    BY <1>13 DEF Flush, deleteVars
  <2>2. CASE Store(r)
    BY <1>11, <2>1, <2>2
  <2>3. CASE UNCHANGED <<pending, stored>>
    BY <1>1, <2>1, <2>3, StoredSame
  <2>4. QED BY <1>13, <2>2, <2>3 DEF Flush
<1>14. ASSUME NEW r \in Run, Cancelled(r) PROVE StoredOK'
  <2>1. parts' = parts /\ pending' = pending /\ deleter' = deleter /\ r \in cancelled
    BY <1>14 DEF Cancelled, deleteVars
  <2>2. deleter # "idle"
    BY <1>1, <2>1 DEF Cancels
  <2>3. CASE stored' = stored
    BY <1>1, <2>1, <2>3, StoredSame
  <2>4. CASE stored' = [stored EXCEPT ![r] = @ \o [i \in 1 .. pending[r] |-> parts[r] - pending[r] + i]]
    <3>1. Recorded(r)
      BY <1>1, <2>4, StoreFacts
    <3>2. QED BY <1>1, <2>1, <2>2, <3>1, StoredGrows
  <2>5. QED BY <1>14, <2>3, <2>4 DEF Cancelled
<1>15. CASE DeleteBegins \/ DeleteRemoves
  <2>1. UNCHANGED <<stored, parts, pending>> /\ deleter' # "idle"
    BY <1>15 DEF DeleteBegins, DeleteRemoves, answerVars
  <2>2. QED BY <1>1, <2>1, StoredSame
<1>16. CASE DeleteWipes
  <2>1. stored' = [r \in Run |-> <<>>] /\ deleter' # "idle"
    BY <1>16 DEF DeleteWipes
  <2>2. PICK q \in Seq(Nat) : q = <<>> /\ Len(q) = 0
    BY SmallQueues
  <2>3. stored' \in [Run -> Seq(Nat)] /\ \A r \in Run : Len(stored'[r]) = 0
    BY <2>1, <2>2
  <2>4. QED BY <2>1, <2>3 DEF StoredOK
<1>17. QED BY <1>3, <1>4, <1>5, <1>6, <1>7, <1>8, <1>9, <1>10, <1>12, <1>13, <1>14, <1>15, <1>16
           DEF Next, Consume, Delete

LEMMA StoredStart == ASSUME Init PROVE StoredOK
<1>1. PICK q \in Seq(Nat) : q = <<>> /\ Len(q) = 0
  BY SmallQueues
<1>2. stored \in [Run -> Seq(Nat)] /\ \A r \in Run : Len(stored[r]) = 0
  BY <1>1 DEF Init
<1>3. parts = [r \in Run |-> 0] /\ pending = [r \in Run |-> 0] /\ stored = [r \in Run |-> <<>>]
  BY DEF Init
<1>4. ASSUME NEW r \in Run PROVE stored[r] = [i \in 1 .. parts[r] - pending[r] |-> i]
  <2>1. parts[r] - pending[r] = 0 /\ stored[r] = <<>>
    BY <1>3
  <2>2. <<>> = Rest(0, 0)
    BY NothingLeft
  <2>3. QED BY <2>1, <2>2, AnswerIs
<1>5. QED BY <1>2, <1>4 DEF StoredOK

-----------------------------------------------------------------------------
(* The pipeline's queue *)

LEMMA BackQueue ==
  ASSUME NEW q \in Seq(Kind), NEW k \in Kind, Len(q) <= BackQueueSize
  PROVE  /\ Len(q) < BackQueueSize => Append(q, k) \in Seq(Kind) /\ Len(Append(q, k)) <= BackQueueSize
         /\ q # <<>> => Head(q) \in Kind /\ Tail(q) \in Seq(Kind) /\ Len(Tail(q)) <= BackQueueSize
<1>1. BackQueueSize \in Nat
  BY ChatAssumption
<1>2. ASSUME Len(q) < BackQueueSize PROVE Append(q, k) \in Seq(Kind) /\ Len(Append(q, k)) <= BackQueueSize
  BY <1>1, <1>2, AppendProperties
<1>3. ASSUME q # <<>> PROVE Head(q) \in Kind /\ Tail(q) \in Seq(Kind) /\ Len(Tail(q)) <= BackQueueSize
  BY <1>1, <1>3, HeadTailProperties
<1>4. QED BY <1>2, <1>3

LEMMA QueuesStep == ASSUME QueuesOK, [Next]_vars PROVE QueuesOK'
<1>1. ASSUME UNCHANGED <<offered, producer, sent, inbox, running, backq>> PROVE QueuesOK'
  BY <1>1 DEF QueuesOK
<1>2. ASSUME UNCHANGED queueVars, running' = running PROVE QueuesOK'
  BY <1>1, <1>2 DEF queueVars
<1>3. CASE UNCHANGED vars
  BY <1>2, <1>3 DEF vars, tableVars
<1>4. ASSUME NEW r \in Run, NEW s \in Stream, Start(r, s) PROVE QueuesOK'
  <2>1. UNCHANGED <<offered, producer, sent, running, backq>> /\ inbox' = Append(inbox, r)
    BY <1>4 DEF Start
  <2>2. inbox' \in Seq(Run)
    BY <2>1, AppendProperties DEF QueuesOK
  <2>3. QED BY <2>1, <2>2 DEF QueuesOK
<1>5. ASSUME NEW r \in Run, NEW s \in Stream, Resume(r, s) PROVE QueuesOK'
  BY <1>2, <1>5 DEF Resume, tableVars
<1>6. CASE Listen
  <2>1. /\ UNCHANGED <<offered, sent, running, backq>> /\ inbox # <<>> /\ inbox' = Tail(inbox)
        /\ \E to \in {"sending", "failed"} : producer' = [producer EXCEPT ![Head(inbox)] = to]
    BY <1>6 DEF Listen, tableVars
  <2>2. inbox' \in Seq(Run) /\ producer' \in [Run -> {"none", "sending", "blocked", "done", "failed"}]
    BY <2>1, HeadTailProperties DEF QueuesOK
  <2>3. QED BY <2>1, <2>2 DEF QueuesOK
<1>7. ASSUME NEW r \in Run, NEW k \in Kind, Put(r, k) PROVE QueuesOK'
  <2>1. UNCHANGED <<inbox, running>> /\ sent' = [sent EXCEPT ![r] = sent[r] + 1] /\ sent[r] < MaxPayloads
    BY <1>7 DEF Put, tableVars
  <2>2. sent' \in [Run -> 0 .. MaxPayloads]
    BY <2>1, ChatAssumption DEF QueuesOK
  <2>3. After(k) \in {"none", "sending", "blocked", "done", "failed"}
    BY DEF After
  <2>4. producer' \in [Run -> {"none", "sending", "blocked", "done", "failed"}] /\ offered' \in [Run -> Kind]
    BY <1>7, <2>3 DEF Put, QueuesOK
  <2>5. backq' \in [Run -> Seq(Kind)] /\ \A x \in Run : Len(backq'[x]) <= BackQueueSize
    <3>1. backq[r] \in Seq(Kind) /\ Len(backq[r]) <= BackQueueSize
      BY DEF QueuesOK
    <3>2. CASE Len(backq[r]) < BackQueueSize /\ backq' = [backq EXCEPT ![r] = Append(backq[r], k)]
      <4>1. Append(backq[r], k) \in Seq(Kind) /\ Len(Append(backq[r], k)) <= BackQueueSize
        BY <3>1, <3>2, BackQueue
      <4>2. QED BY <3>2, <4>1 DEF QueuesOK
    <3>3. CASE backq' = backq
      BY <3>3 DEF QueuesOK
    <3>4. QED BY <1>7, <3>2, <3>3 DEF Put
  <2>6. QED BY <2>1, <2>2, <2>4, <2>5 DEF QueuesOK
<1>8. ASSUME NEW r \in Run, PutReturns(r) PROVE QueuesOK'
  <2>1. UNCHANGED <<inbox, running, sent>>
    BY <1>8 DEF PutReturns, tableVars
  <2>2. After(offered[r]) \in {"none", "sending", "blocked", "done", "failed"} /\ "end" \in Kind /\ offered[r] \in Kind
    BY DEF After, Kind, QueuesOK
  <2>3. producer' \in [Run -> {"none", "sending", "blocked", "done", "failed"}] /\ offered' \in [Run -> Kind]
    BY <1>8, <2>2 DEF PutReturns, QueuesOK
  <2>4. backq' \in [Run -> Seq(Kind)] /\ \A x \in Run : Len(backq'[x]) <= BackQueueSize
    <3>1. backq[r] \in Seq(Kind) /\ Len(backq[r]) <= BackQueueSize
      BY DEF QueuesOK
    <3>2. CASE Len(backq[r]) < BackQueueSize /\ backq' = [backq EXCEPT ![r] = Append(backq[r], offered[r])]
      <4>1. Append(backq[r], offered[r]) \in Seq(Kind) /\ Len(Append(backq[r], offered[r])) <= BackQueueSize
        BY <2>2, <3>1, <3>2, BackQueue
      <4>2. QED BY <3>2, <4>1 DEF QueuesOK
    <3>3. CASE backq' = backq
      BY <3>3 DEF QueuesOK
    <3>4. QED BY <1>8, <3>2, <3>3 DEF PutReturns
  <2>5. QED BY <2>1, <2>3, <2>4 DEF QueuesOK
<1>9. ASSUME NEW r \in Run, Begin(r) PROVE QueuesOK'
  <2>1. UNCHANGED <<offered, producer, sent, inbox, backq>> /\ running' = TRUE
    BY <1>9 DEF Begin, queueVars
  <2>2. running' \in BOOLEAN
    BY <2>1, Zenon
  <2>3. QED BY <2>1, <2>2 DEF QueuesOK
<1>10. ASSUME NEW r \in Run, Get(r) PROVE QueuesOK'
  <2>1. UNCHANGED <<offered, producer, sent, inbox, running>> /\ backq[r] # <<>>
        /\ backq' = [backq EXCEPT ![r] = Tail(backq[r])]
    BY <1>10 DEF Get, tableVars
  <2>2. Tail(backq[r]) \in Seq(Kind) /\ Len(Tail(backq[r])) <= BackQueueSize
    <3>1. backq[r] \in Seq(Kind) /\ Len(backq[r]) <= BackQueueSize /\ "end" \in Kind
      BY DEF QueuesOK, Kind
    <3>2. QED BY <2>1, <3>1, BackQueue
  <2>3. QED BY <2>1, <2>2 DEF QueuesOK
<1>11. ASSUME NEW r \in Run, Attached(r) \/ Saved(r) \/ Raises(r) \/ Cancelled(r) \/ Killed(r) \/ Flush(r)
       PROVE  QueuesOK'
  BY <1>2, <1>11 DEF Attached, Saved, Raises, Cancelled, Killed, Flush, tableVars
<1>12. ASSUME NEW r \in Run, Cleanup(r) PROVE QueuesOK'
  <2>1. UNCHANGED <<offered, producer, sent, inbox, backq>> /\ running' = (listed' # {} /\ running)
    BY <1>12 DEF Cleanup
  <2>2. running' \in BOOLEAN
    BY <2>1, Zenon
  <2>3. QED BY <2>1, <2>2 DEF QueuesOK
<1>13. CASE DeleteBegins \/ DeleteWipes
  BY <1>2, <1>13 DEF DeleteBegins, DeleteWipes, tableVars
<1>14. CASE DeleteRemoves
  <2>1. UNCHANGED <<offered, producer, sent, running, backq>> /\ inbox' = <<>>
    BY <1>14 DEF DeleteRemoves, tableVars
  <2>2. inbox' \in Seq(Run)
    BY <2>1
  <2>3. QED BY <2>1, <2>2 DEF QueuesOK
<1>15. ASSUME NEW r \in Run, Consume(r) PROVE QueuesOK'
  BY <1>9, <1>10, <1>11, <1>12, <1>15 DEF Consume
<1>16. ASSUME NEW r \in Run, Send(r) PROVE QueuesOK'
  <2>1. CASE SendingFails(r)
    <3>1. UNCHANGED <<offered, sent, inbox, running, backq>> /\ producer' = [producer EXCEPT ![r] = "failed"]
      BY <2>1 DEF SendingFails, tableVars
    <3>2. QED BY <3>1 DEF QueuesOK
  <2>2. QED BY <1>7, <1>8, <1>16, <2>1 DEF Send
<1>17. CASE Delete
  BY <1>13, <1>14, <1>17 DEF Delete
<1>18. CASE Next
  <2>1. CASE \E r \in Run, s \in Stream : Start(r, s) \/ Resume(r, s)
    BY <1>4, <1>5, <2>1
  <2>2. ASSUME NEW s \in Stream, Read(s) \/ Disconnect(s) PROVE QueuesOK'
    <3>1. UNCHANGED queueVars /\ running' = running
      BY <2>2 DEF Read, Disconnect, tableVars
    <3>2. QED BY <1>2, <3>1
  <2>3. CASE \E r \in Run : Send(r) \/ Consume(r) \/ Flush(r)
    BY <1>11, <1>15, <1>16, <2>3
  <2>4. QED BY <1>6, <1>17, <1>18, <2>1, <2>2, <2>3 DEF Next
<1>19. QED BY <1>3, <1>18

LEMMA QueuesStart == ASSUME Init PROVE QueuesOK
<1>1. PICK q \in Seq(Kind) : q = <<>> /\ Len(q) = 0
  <2>1. <<>> \in Seq(Kind)
    OBVIOUS
  <2>2. QED BY <2>1, SmallQueues
<1>2. backq \in [Run -> Seq(Kind)] /\ \A r \in Run : Len(backq[r]) <= BackQueueSize
  BY <1>1, ChatAssumption DEF Init
<1>3. running \in BOOLEAN
  BY Zenon DEF Init
<1>4. inbox \in Seq(Run)
  BY DEF Init
<1>5. offered \in [Run -> Kind] /\ sent \in [Run -> 0 .. MaxPayloads]
  BY ChatAssumption DEF Init, Kind
<1>6. QED BY <1>2, <1>3, <1>4, <1>5 DEF Init, QueuesOK

-----------------------------------------------------------------------------
(* The theorems *)

LEMMA ChatAlways == Spec => [](ChatInv /\ StoredOK /\ QueuesOK)
<1>1. Init => ChatInv /\ StoredOK /\ QueuesOK
  BY ChatStart, StoredStart, QueuesStart
<1>2. ChatInv /\ StoredOK /\ QueuesOK /\ [Next]_vars => (ChatInv /\ StoredOK /\ QueuesOK)'
  BY ChatStep, StoredStep, QueuesStep
<1>3. QED BY <1>1, <1>2, PTL DEF Spec

\* Every variable keeps its type, and no queue of the pipeline or of a page
\* ever holds more than its bound (webchat_queue_mgr.py:48-91,
\* chat_service.py:765-859).
THEOREM TypeCorrect == Spec => []TypeOK
<1>1. ASSUME ChatInv, StoredOK, QueuesOK PROVE TypeOK
  <2>1. RunsOK /\ PagesOK /\ \A r \in Run : FlushOK(r)
    BY <1>1 DEF ChatInv, RunsInv, PagesInv
  <2>2. /\ task \in [Run -> Suspended \cup {"none", "created", "last", "over"}]
        /\ cancelled \subseteq Run /\ open \subseteq Run /\ listed \subseteq Run
        /\ flush \in [Run -> {"none", "running", "empty", "saved", "failed"}]
        /\ deleter \in {"idle", "gather", "wiped", "done"}
        /\ victims \subseteq Run /\ late \subseteq victims
    BY <2>1 DEF RunsOK
  <2>3. /\ offered \in [Run -> Kind]
        /\ producer \in [Run -> {"none", "sending", "blocked", "done", "failed"}]
        /\ sent \in [Run -> 0 .. MaxPayloads] /\ inbox \in Seq(Run)
        /\ running \in BOOLEAN
    BY <1>1 DEF QueuesOK
  <2>4. ASSUME NEW r \in Run
        PROVE  /\ backq[r] \in Seq(Kind) /\ Len(backq[r]) <= BackQueueSize
               /\ published[r] \in Seq({"content", "note"})
               /\ parts[r] \in Nat /\ pending[r] \in 0 .. parts[r]
               /\ stored[r] \in Seq(1 .. parts[r])
    <3>1. backq[r] \in Seq(Kind) /\ Len(backq[r]) <= BackQueueSize
      BY <1>1 DEF QueuesOK
    <3>2. published[r] \in Seq({"content", "note"})
      BY <2>1 DEF PagesOK
    <3>3. parts[r] \in Nat /\ pending[r] \in 0 .. parts[r]
      BY <2>1 DEF RunsOK, FlushOK
    <3>4. stored[r] \in Seq(1 .. parts[r])
      <4>1. PICK q \in Seq(Nat) : q = stored[r] /\ \A i \in 1 .. Len(q) : q[i] \in 1 .. parts[r]
        BY <1>1 DEF StoredOK
      <4>2. q \in Seq(1 .. parts[r])
        <5>1. PICK n \in Nat : n = Len(q) /\ q \in [1 .. n -> Nat]
          BY LenProperties
        <5>2. q \in [1 .. n -> 1 .. parts[r]]
          BY <4>1, <5>1
        <5>3. PICK S : S = 1 .. parts[r]
          OBVIOUS
        <5>4. q \in UNION {[1 .. k -> S] : k \in Nat}
          BY <5>2, <5>3
        <5>5. Seq(S) = UNION {[1 .. k -> S] : k \in Nat}
          BY SeqDef, Zenon
        <5>6. q \in Seq(S)
          BY <5>4, <5>5, Zenon
        <5>7. QED BY <5>3, <5>6
      <4>3. QED BY <4>1, <4>2
    <3>5. QED BY <3>1, <3>2, <3>3, <3>4
  <2>5. ASSUME NEW s \in Stream
        PROVE  /\ stream[s].state \in {"free", "open", "over"}
               /\ stream[s].run \in Run \cup {NoRun}
               /\ stream[s].q \in Seq(Nat) /\ Len(stream[s].q) <= SubscriberQueueSize
               /\ stream[s].got \in Nat /\ stream[s].view \in Nat
    BY <2>1 DEF PagesOK, Page
  <2>6. subs \in [Run -> SUBSET Stream]
    BY <2>1 DEF PagesOK
  <2>7. QED BY <2>2, <2>3, <2>4, <2>5, <2>6 DEF TypeOK
<1>2. QED BY <1>1, ChatAlways, PTL

\* A subscribed page has been shown the answer up to the revision it has read,
\* and its queue holds exactly the later revisions, in order
\* (chat_service.py:765-859).
THEOREM LacksNothing == Spec => []SubscriberLacksNothing
<1>1. ASSUME ChatInv PROVE SubscriberLacksNothing
  <2>1. ASSUME NEW r \in Run, NEW s \in subs[r]
        PROVE  /\ stream[s].run = r
               /\ stream[s].q = [i \in 1 .. Len(published[r]) - stream[s].got |-> stream[s].got + i]
               /\ stream[s].view + Content(r, stream[s].got + 1, Len(published[r])) = parts[r]
    <3>1. stream[s].run = r /\ UpToDate(s, r)
      BY <1>1 DEF ChatInv, PagesInv, Told, Shown
    <3>2. QED BY <3>1 DEF UpToDate, Rest, Pieces, Content
  <2>2. QED BY <2>1 DEF SubscriberLacksNothing
<1>2. QED BY <1>1, ChatAlways, PTL

\* While the session is not being deleted, the history is the pieces of each
\* answer once and in order, but for the pending ones, and those of a run that
\* is over are only missing when the last flush failed
\* (chat_service.py:898-933, 1016-1031, 1044-1058).
THEOREM Exact == Spec => []TranscriptExact
<1>1. ASSUME ChatInv, StoredOK PROVE TranscriptExact
  <2>1. ASSUME deleter = "idle", NEW r \in Run, task[r] = "over"
        PROVE  pending[r] = 0 \/ flush[r] = "failed"
    <3>1. FlushOK(r) /\ flush[r] \in {"none", "running", "empty", "saved", "failed"}
      BY <1>1 DEF ChatInv, RunsInv, RunsOK
    <3>2. QED BY <2>1, <3>1 DEF FlushOK
  <2>2. QED BY <1>1, <2>1 DEF TranscriptExact, StoredOK
<1>2. QED BY <1>1, ChatAlways, PTL

\* A run that is over is in no table, its back queue is closed, every page of
\* it is told the end, and the session is not running for its sake; unless a
\* deletion cancelled it before its first step or in its last flush
\* (chat_service.py:1065-1078).
THEOREM Gone == Spec => []OverMeansGone
<1>1. ASSUME ChatInv PROVE OverMeansGone
  <2>1. Listed /\ PagesOK /\ Subscribed /\ Told /\ RunsOK
    BY <1>1 DEF ChatInv, RunsInv, PagesInv
  <2>2. SUFFICES ASSUME NEW r \in Run, task[r] = "over", r \notin late
                 PROVE  /\ r \notin listed /\ r \notin open
                        /\ \A s \in Stream : stream[s].run = r /\ stream[s].state = "open"
                                               => stream[s].q = <<End>>
                        /\ (\A o \in Run : task[o] \in {"none", "over"} /\ o \notin late) => ~running
    BY DEF OverMeansGone
  <2>3. r \notin listed /\ r \notin open
    BY <2>1, <2>2 DEF Listed
  <2>4. subs[r] = {}
    BY <2>1, <2>3 DEF Subscribed
  <2>5. ASSUME NEW s \in Stream, stream[s].run = r, stream[s].state = "open" PROVE stream[s].q = <<End>>
    BY <2>1, <2>4, <2>5 DEF Told
  <2>6. ASSUME \A o \in Run : task[o] \in {"none", "over"} /\ o \notin late PROVE ~running
    <3>1. listed \subseteq Run
      BY <2>1 DEF RunsOK
    <3>2. listed = {}
      BY <2>1, <2>6, <3>1 DEF Listed
    <3>3. QED BY <2>1, <3>2 DEF Listed
  <2>7. QED BY <2>3, <2>5, <2>6
<1>2. QED BY <1>1, ChatAlways, PTL
=============================================================================

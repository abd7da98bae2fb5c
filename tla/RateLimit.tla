----------------------------- MODULE RateLimit -----------------------------
(***************************************************************************)
(* astrbot/core/pipeline/rate_limit_check/stage.py: at most Count messages *)
(* of a session pass in a window of time.                                  *)
(*                                                                         *)
(* One session: sessions share nothing but the configuration.  Time is an  *)
(* integer clock.  It does not move while a task of this session is ready  *)
(* to run (the event loop runs what is ready before it waits), and a       *)
(* sleeper may wake up late, by less than Late.                            *)
(***************************************************************************)
EXTENDS Integers, Sequences, FiniteSets, FiniteSetsExt

CONSTANTS N,          \* how many messages the session sends
          Count,      \* rate_limit_count
          Window,     \* rate_limit_time
          Slack,      \* the 0.3 s added to a stall
          Late,       \* how late a sleeper may wake up
          ArriveBy,   \* bound: no message arrives after this time
          MaxTime     \* bound: the clock stops here

ASSUME CountAssumption == N \in Nat /\ Count \in Int
ASSUME TimeAssumption == {Window, Slack, Late, ArriveBy, MaxTime} \subseteq Nat

\* The messages, numbered in the order they arrive.
Event == 1 .. N

VARIABLES strategy,   \* rl_strategy: "stall" or "discard", as configured
          clock,
          timestamps, \* event_timestamps[session_id]
          holder,     \* who holds locks[session_id]: a set of at most one event
          queue,      \* who waits for it, first come first served
          pc,         \* "new", "queued", "stalled", "passed" or "discarded"
          now,        \* the local `now` of each process()
          wake,       \* when the sleep of a stalled process() ends
          passedAt    \* history: when an event passed

vars == <<strategy, clock, timestamps, holder, queue, pc, now, wake, passedAt>>

TypeOK == /\ strategy \in {"stall", "discard"}
          /\ clock \in 0 .. MaxTime
          /\ timestamps \in Seq(Nat)
          /\ holder \in SUBSET Event
          /\ queue \in Seq(Event)
          /\ pc \in [Event -> {"new", "queued", "stalled", "passed", "discarded"}]
          /\ now \in [Event -> Nat]
          /\ wake \in [Event -> Nat]
          /\ passedAt \in [Event -> Nat]

Init == /\ strategy \in {"stall", "discard"}
        /\ clock = 0
        /\ timestamps = <<>>
        /\ holder = {}
        /\ queue = <<>>
        /\ pc = [e \in Event |-> "new"]
        /\ now = [e \in Event |-> 0]
        /\ wake = [e \in Event |-> 0]
        /\ passedAt = [e \in Event |-> 0]

---------------------------------------------------------------------------
\* Mutant: a timestamp as old as the window goes too.
UnexpiredInclusive(q, t) ==
  SubSeq(q, Min({i \in 1 .. Len(q) + 1 : i > Len(q) \/ q[i] > t - Window}), Len(q))

\* _remove_expired_timestamps: popleft while the head is older than the window.
Unexpired(q, t) ==
  SubSeq(q, Min({i \in 1 .. Len(q) + 1 : i > Len(q) \/ q[i] >= t - Window}), Len(q))

\* stall_duration: until the head leaves the window that `t` sees.
StallDuration(q, t) == q[1] + Window - t + Slack

Room(q) == Count <= 0 \/ Len(q) < Count

\* With the limit off (Count <= 0) nothing is recorded.
Pass(e, q, t) ==
  /\ Room(q)
  /\ timestamps' = IF Count <= 0 THEN q ELSE Append(q, t)
  /\ pc' = [pc EXCEPT ![e] = "passed"]
  /\ passedAt' = [passedAt EXCEPT ![e] = clock]
  /\ holder' = {}
  /\ UNCHANGED wake

\* asyncio.sleep, the lock held.
Stall(e, q, t) ==
  /\ ~Room(q)
  /\ strategy = "stall"
  /\ timestamps' = q
  /\ pc' = [pc EXCEPT ![e] = "stalled"]
  /\ wake' = [wake EXCEPT ![e] = clock + StallDuration(q, t)]
  /\ holder' = {e}
  /\ UNCHANGED passedAt

\* event.stop_event()
Discard(e, q) ==
  /\ ~Room(q)
  /\ strategy = "discard"
  /\ timestamps' = q
  /\ pc' = [pc EXCEPT ![e] = "discarded"]
  /\ holder' = {}
  /\ UNCHANGED <<wake, passedAt>>

\* Mutant: nothing expires.
CheckUnpruned(e, t) ==
  \/ Pass(e, timestamps, t)
  \/ Stall(e, timestamps, t)
  \/ Discard(e, timestamps)

\* One round of `while True`, with t for the local `now`.
Check(e, t) == LET q == Unexpired(timestamps, t)
               IN  Pass(e, q, t) \/ Stall(e, q, t) \/ Discard(e, q)

---------------------------------------------------------------------------
\* Mutant: whoever waits may be overtaken.
NobodyHolds == holder = {}

\* The fast path of asyncio.Lock.acquire: free, and nobody is waiting.
LockIsFree == holder = {} /\ queue = <<>>

\* process() up to its first suspension.  `now` is read before the lock.
Arrive(e) ==
  /\ pc[e] = "new"
  /\ \A d \in 1 .. e - 1 : pc[d] # "new"
  /\ clock <= ArriveBy
  /\ now' = [now EXCEPT ![e] = clock]
  /\ \/ /\ LockIsFree
        /\ Check(e, clock)
        /\ UNCHANGED queue
     \/ /\ ~LockIsFree
        /\ queue' = Append(queue, e)
        /\ pc' = [pc EXCEPT ![e] = "queued"]
        /\ UNCHANGED <<timestamps, holder, wake, passedAt>>
  /\ UNCHANGED <<strategy, clock>>

\* The release woke the first waiter: its turn, with the `now` it arrived with.
Granted(e) ==
  /\ holder = {}
  /\ queue # <<>>
  /\ Head(queue) = e
  /\ queue' = Tail(queue)
  /\ Check(e, now[e])
  /\ UNCHANGED <<strategy, clock, now>>

\* asyncio.sleep returns; `now` is read again.
Wake(e) ==
  /\ pc[e] = "stalled"
  /\ clock >= wake[e]
  /\ now' = [now EXCEPT ![e] = clock]
  /\ Check(e, clock)
  /\ UNCHANGED <<strategy, clock, queue>>

Tick ==
  /\ clock < MaxTime
  /\ holder = {} => queue = <<>>
  /\ \A e \in holder : clock < wake[e] + Late
  /\ clock' = clock + 1
  /\ UNCHANGED <<strategy, timestamps, holder, queue, pc, now, wake, passedAt>>

Next == \/ Tick
        \/ \E e \in Event : Arrive(e) \/ Granted(e) \/ Wake(e)

\* Time goes on, what is ready runs, and a sleep ends.
Fairness == /\ WF_vars(Tick)
            /\ \A e \in Event : WF_vars(Granted(e)) /\ WF_vars(Wake(e))

Spec == Init /\ [][Next]_vars /\ Fairness

---------------------------------------------------------------------------
PassedIn(a, b) == {e \in Event : pc[e] = "passed" /\ passedAt[e] \in a .. b}

\* No window of time, both ends included, sees more than Count messages pass,
\* though what `timestamps` holds for a message that queued for the lock is the
\* time it arrived and not the time it passed, so the deque is not even sorted.
WindowBound ==
  Count > 0 => \A e \in Event :
    pc[e] = "passed" => Cardinality(PassedIn(passedAt[e], passedAt[e] + Window)) <= Count

\* Messages pass in the order they came, those that stalled and those that only
\* queued for the lock included: no newcomer slips in between a release and the
\* waiter that it woke.
InOrder ==
  strategy = "stall" =>
    \A d, e \in Event : (d < e /\ pc[e] = "passed") => pc[d] = "passed"

\* Every message that stalls or queues passes in the end.
EveryMessagePasses == \A e \in Event : pc[e] \in {"queued", "stalled"} ~> pc[e] = "passed"
=============================================================================

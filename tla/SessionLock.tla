---------------------------- MODULE SessionLock ----------------------------
(***************************************************************************)
(* astrbot/core/utils/session_lock.py: the lock that serialises the agent  *)
(* runs of one session (its one user is internal.py:216).                  *)
(*                                                                         *)
(* A step is what a task runs between two awaits that really suspend it.   *)
(* `_access_lock` guards bodies without an await, so it is never contended *)
(* and acquiring it never suspends: get-or-create plus the first attempt   *)
(* on the session's asyncio.Lock are one step, and so are the release, the *)
(* wake-up of the next waiter and the clean-up.                            *)
(*                                                                         *)
(* asyncio.Lock is external (CPython): `locked`, the deque of waiters and  *)
(* the state of each waiter's future, kept here in `pc`:                   *)
(*   waiting         the future is pending                                 *)
(*   woken           the future has its result, the task has not run yet   *)
(*   cancelled       the future was cancelled, the task has not run yet    *)
(*   wokenCancelled  the result came first, then the task was cancelled    *)
(***************************************************************************)
EXTENDS Integers, Sequences, FiniteSets

CONSTANTS Task,      \* the tasks that call acquire_lock
          Session,   \* the session ids
          Loop,      \* the event loops
          LoopOf,    \* [Task -> Loop]: the loop a task runs on
          LockId,    \* identities for asyncio.Lock objects; enough for every task
          NoLock     \* no entry in `_locks`

ASSUME TaskAssumption == IsFiniteSet(Task)
ASSUME LoopAssumption == LoopOf \in [Task -> Loop]
ASSUME LockAssumption == NoLock \notin LockId

\* SessionLockManager keeps one _PerLoopSessionLockManager per loop, created
\* under `_state_guard` on first use and never shared between loops.
Key == Loop \X Session

VARIABLES locks,     \* [Key -> LockId \cup {NoLock}]: _locks
          count,     \* [Key -> Nat]: _lock_count (0: no entry)
          locked,    \* [LockId -> BOOLEAN]: asyncio.Lock._locked
          waiters,   \* [LockId -> Seq(Task)]: asyncio.Lock._waiters
          pc,        \* where each task is
          sess,      \* the session id a task last asked for
          ref        \* the lock object a task last got from `_locks`

vars == <<locks, count, locked, waiters, pc, sess, ref>>

Queued == {"waiting", "woken", "cancelled", "wokenCancelled"}
PC == Queued \cup {"idle", "critical"}

KeyOf(t) == <<LoopOf[t], sess[t]>>
Engaged(k) == {t \in Task : pc[t] # "idle" /\ KeyOf(t) = k}
InUse == {locks[k] : k \in Key} \cup {ref[t] : t \in {u \in Task : pc[u] # "idle"}}

TypeOK == /\ locks \in [Key -> LockId \cup {NoLock}]
          /\ count \in [Key -> Nat]
          /\ locked \in [LockId -> BOOLEAN]
          /\ waiters \in [LockId -> Seq(Task)]
          /\ pc \in [Task -> PC]
          /\ sess \in [Task -> Session]
          /\ ref \in [Task -> LockId]

Init == /\ locks = [k \in Key |-> NoLock]
        /\ count = [k \in Key |-> 0]
        /\ locked = [l \in LockId |-> FALSE]
        /\ waiters = [l \in LockId |-> <<>>]
        /\ pc = [t \in Task |-> "idle"]
        /\ sess \in [Task -> Session]
        /\ ref \in [Task -> LockId]

---------------------------------------------------------------------------
\* asyncio.Lock

\* deque.remove(fut)
Drop(q, t) ==
  LET i == CHOOSE i \in DOMAIN q : q[i] = t
  IN  [j \in 1 .. Len(q) - 1 |-> IF j < i THEN q[j] ELSE q[j + 1]]

\* The fast path of acquire(): free, and every waiter's future is cancelled.
CanEnter(l) == /\ ~locked[l]
               /\ \A i \in DOMAIN waiters[l] : pc[waiters[l][i]] = "cancelled"

\* _wake_up_first(): only the head is looked at, and only if it is not done.
WakeFirst(q, p) ==
  IF q # <<>> /\ p[Head(q)] = "waiting" THEN [p EXCEPT ![Head(q)] = "woken"] ELSE p

---------------------------------------------------------------------------
\* `self._locks[session_id]` of a defaultdict: the entry, or a new lock.
Lookup(k, l) == IF locks[k] = NoLock THEN l \notin InUse ELSE l = locks[k]

\* Mutants of the clean-up: the entry goes with its first user; the count is
\* decremented twice; the entry outlives its last user.
ForgetEarly(k) == /\ count' = [count EXCEPT ![k] = @ - 1]
                  /\ locks' = [locks EXCEPT ![k] = NoLock]
ForgetTwice(k) == /\ count' = [count EXCEPT ![k] = @ - 2]
                  /\ locks' = [locks EXCEPT ![k] = NoLock]
ForgetNever(k) == /\ count' = [count EXCEPT ![k] = @ - 1]
                  /\ UNCHANGED locks

\* The `finally` of acquire_lock: the entry goes with its last user.
Forget(k) == /\ count' = [count EXCEPT ![k] = @ - 1]
             /\ locks' = IF count[k] = 1 THEN [locks EXCEPT ![k] = NoLock] ELSE locks

Acquire(t, s) ==
  /\ pc[t] = "idle"
  /\ \E l \in LockId :
       LET k == <<LoopOf[t], s>> IN
       /\ Lookup(k, l)
       /\ locks' = [locks EXCEPT ![k] = l]
       /\ count' = [count EXCEPT ![k] = @ + 1]
       /\ sess' = [sess EXCEPT ![t] = s]
       /\ ref' = [ref EXCEPT ![t] = l]
       /\ \/ /\ CanEnter(l)
             /\ locked' = [locked EXCEPT ![l] = TRUE]
             /\ pc' = [pc EXCEPT ![t] = "critical"]
             /\ UNCHANGED waiters
          \/ /\ ~CanEnter(l)
             /\ waiters' = [waiters EXCEPT ![l] = Append(@, t)]
             /\ pc' = [pc EXCEPT ![t] = "waiting"]
             /\ UNCHANGED locked

\* The woken waiter runs: it leaves the deque and claims the lock.
Resume(t) ==
  /\ pc[t] = "woken"
  /\ waiters' = [waiters EXCEPT ![ref[t]] = Drop(@, t)]
  /\ locked' = [locked EXCEPT ![ref[t]] = TRUE]
  /\ pc' = [pc EXCEPT ![t] = "critical"]
  /\ UNCHANGED <<locks, count, sess, ref>>

\* The body of `async with` ends, by return, exception or cancellation.
Release(t) ==
  /\ pc[t] = "critical"
  /\ locked' = [locked EXCEPT ![ref[t]] = FALSE]
  /\ pc' = [WakeFirst(waiters[ref[t]], pc) EXCEPT ![t] = "idle"]
  /\ Forget(KeyOf(t))
  /\ UNCHANGED <<waiters, sess, ref>>

\* task.cancel() of a waiter: its future is cancelled, or was already done.
Cancel(t) ==
  /\ pc[t] \in {"waiting", "woken"}
  /\ pc' = [pc EXCEPT ![t] = IF @ = "waiting" THEN "cancelled" ELSE "wokenCancelled"]
  /\ UNCHANGED <<locks, count, locked, waiters, sess, ref>>

\* Mutant: the cancelled waiter keeps the wake-up it was given.
UnwindSilently(t) ==
  /\ pc[t] \in {"cancelled", "wokenCancelled"}
  /\ waiters' = [waiters EXCEPT ![ref[t]] = Drop(@, t)]
  /\ pc' = [pc EXCEPT ![t] = "idle"]
  /\ Forget(KeyOf(t))
  /\ UNCHANGED <<locked, sess, ref>>

\* The cancelled waiter runs: it leaves the deque and, if nobody holds the
\* lock, passes the wake-up on; then the `finally` of acquire_lock.
Unwind(t) ==
  LET l == ref[t]
      q == Drop(waiters[l], t)
  IN  /\ pc[t] \in {"cancelled", "wokenCancelled"}
      /\ waiters' = [waiters EXCEPT ![l] = q]
      /\ pc' = [(IF locked[l] THEN pc ELSE WakeFirst(q, pc)) EXCEPT ![t] = "idle"]
      /\ Forget(KeyOf(t))
      /\ UNCHANGED <<locked, sess, ref>>

Next == \E t \in Task : \/ \E s \in Session : Acquire(t, s)
                        \/ Resume(t)
                        \/ Release(t)
                        \/ Cancel(t)
                        \/ Unwind(t)

Spec == Init /\ [][Next]_vars

\* The event loop runs every task that is ready; a run of the agent ends.
Fairness == \A t \in Task : WF_vars(Resume(t)) /\ WF_vars(Release(t)) /\ WF_vars(Unwind(t))

FairSpec == Spec /\ Fairness

---------------------------------------------------------------------------
\* Two runs of one session never overlap on one loop, whatever is cancelled,
\* popped and re-created in between (session_lock.py:17-30).
MutualExclusion ==
  \A t, u \in Task : pc[t] = "critical" /\ pc[u] = "critical" /\ t # u => KeyOf(t) # KeyOf(u)

\* The entry of `_locks` is neither dropped nor replaced while a task holds
\* or waits for the object it got from it, and two keys share no object: the
\* clean-up of line 28 counts every user, the cancelled ones included.
EntryIsStable ==
  /\ \A t \in Task : pc[t] # "idle" => locks[KeyOf(t)] = ref[t]
  /\ \A j, k \in Key : locks[j] = locks[k] /\ locks[j] # NoLock => j = k

\* `_lock_count` is the number of tasks between line 20 and line 27, and the
\* entry exists exactly while it is positive: nothing leaks after the last.
NoLeak == \A k \in Key : /\ count[k] = Cardinality(Engaged(k))
                         /\ locks[k] = NoLock <=> count[k] = 0

\* A free lock with waiters has a wake-up on its way: a release or a
\* cancelled waiter never loses the only one (a lost wake-up would stall the
\* session for ever).
NoLostWakeup ==
  \A l \in LockId : ~locked[l] /\ waiters[l] # <<>> => pc[Head(waiters[l])] # "waiting"

---------------------------------------------------------------------------
\* The strengthening the proofs need.

\* The deque of a lock holds its waiting tasks, each once.
WaitersMatchPC ==
  /\ \A l \in LockId : \A i \in DOMAIN waiters[l] :
       pc[waiters[l][i]] \in Queued /\ ref[waiters[l][i]] = l
  /\ \A l \in LockId : \A i, j \in DOMAIN waiters[l] : waiters[l][i] = waiters[l][j] => i = j
  /\ \A t \in Task : pc[t] \in Queued => \E i \in DOMAIN waiters[ref[t]] : waiters[ref[t]][i] = t

\* Only the head is ever woken, and the lock stays free until it runs.
WokenIsHead ==
  \A t \in Task : pc[t] = "woken" => ~locked[ref[t]] /\ waiters[ref[t]][1] = t

\* One task inside per lock object, and the object knows it.
OneInside ==
  /\ \A t \in Task : pc[t] = "critical" => locked[ref[t]]
  /\ \A t, u \in Task : pc[t] = "critical" /\ pc[u] = "critical" /\ ref[t] = ref[u] => t = u

IInv == /\ TypeOK
        /\ EntryIsStable
        /\ NoLeak
        /\ WaitersMatchPC
        /\ WokenIsHead
        /\ OneInside
        /\ NoLostWakeup

---------------------------------------------------------------------------
\* Every task that waits for the session gets in or is cancelled.
EveryWaiterServed ==
  \A t \in Task : pc[t] \in Queued ~> pc[t] \in {"critical", "idle"}

\* Refinement: the task inside a key's lock, the live waiters of the key, and
\* the live waiters before a live one in the deque.
Live(t) == pc[t] \in {"waiting", "woken"}
Inside(k) == {t \in Task : pc[t] = "critical" /\ KeyOf(t) = k}
Waiters(k) == {t \in Task : Live(t) /\ KeyOf(t) = k}
Before(q, u, t) == \E i, j \in DOMAIN q : i < j /\ q[i] = u /\ q[j] = t
Ahead(t) == {u \in Task : Live(u) /\ Live(t) /\ Before(waiters[ref[t]], u, t)}

Abstract == INSTANCE KeyedMutex WITH
              inside <- [k \in Key |-> Inside(k)],
              waiting <- [k \in Key |-> Waiters(k)],
              ahead <- [t \in Task |-> Ahead(t)]

\* session_lock.py is a first-come first-served mutex per key.
ImplementsKeyedMutex == Abstract!KSpec
=============================================================================

--------------------------- MODULE SessionWaiter ---------------------------
(***************************************************************************)
(* core/utils/session_waiter.py: a plugin waits for the next messages of a *)
(* session; builtin_stars/astrbot/main.py gives every message to the       *)
(* waiters that are registered.                                            *)
(*                                                                         *)
(* One action takes a task from one await to the next.  A waiter may time  *)
(* out whenever it still waits: keep only moves that moment, so it is not  *)
(* an action.  That a message which triggers a waiter is stopped, so that  *)
(* no later handler gets it, is left out.                                  *)
(***************************************************************************)
EXTENDS Naturals, Sequences, SequencesExt

CONSTANTS
  Waiter, Msg, Session, Filter, None,
  FilterOf,   \* [Waiter -> Filter]: the filter object a waiter was given
  SessionOf,  \* [Waiter -> Session]: what it makes of the waiter's own event
  Key         \* [Filter -> [Msg -> Session]]: what it makes of a message

ASSUME WaiterAssumption ==
  /\ None \notin Waiter
  /\ FilterOf \in [Waiter -> Filter] /\ SessionOf \in [Waiter -> Session]
  /\ Key \in [Filter -> [Msg -> Session]]

VARIABLES
  userSessions,  \* USER_SESSIONS
  filters,       \* FILTERS
  waiter,        \* [Waiter -> state]: register_wait
  future,        \* [Waiter -> outcome]: the controller's future
  queue,         \* [Waiter -> Seq(Msg)]: who has the waiter's _lock, and who waits for it
  msg,           \* [Msg -> state]: a message in handle_session_control_agent
  next,          \* [Msg -> Nat]: where its loop over FILTERS goes on
  target,        \* [Msg -> Waiter or None]: the waiter it triggers
  crossed        \* (history) waiters that shared a session or a filter with another

tableVars == <<userSessions, filters, waiter>>
msgVars == <<queue, msg, next, target>>
vars == <<tableVars, future, msgVars, crossed>>

Init ==
  /\ userSessions = [s \in Session |-> None] /\ filters = <<>>
  /\ waiter = [w \in Waiter |-> "idle"] /\ future = [w \in Waiter |-> "pending"]
  /\ queue = [w \in Waiter |-> <<>>]
  /\ msg = [m \in Msg |-> "new"] /\ next = [m \in Msg |-> 1]
  /\ target = [m \in Msg |-> None]
  /\ crossed = {}

-----------------------------------------------------------------------------
(* register_wait and its controller *)

\* The decorator's wrapper enters the filter, register_wait the waiter.
Register(w) ==
  LET rivals == {v \in Waiter : /\ waiter[v] = "waiting"
                                /\ \/ SessionOf[v] = SessionOf[w]
                                   \/ FilterOf[v] = FilterOf[w]}
  IN
  /\ waiter[w] = "idle"
  /\ waiter' = [waiter EXCEPT ![w] = "waiting"]
  /\ filters' = Append(filters, FilterOf[w])
  /\ userSessions' = [userSessions EXCEPT ![SessionOf[w]] = w]
  /\ crossed' = IF rivals = {} THEN crossed ELSE crossed \cup rivals \cup {w}
  /\ UNCHANGED <<future, msgVars>>

\* _holding of the last keep.
TimesOut(w) ==
  /\ waiter[w] = "waiting" /\ future[w] = "pending"
  /\ future' = [future EXCEPT ![w] = "error"]
  /\ UNCHANGED <<tableVars, msgVars, crossed>>

\* Mutant: the waiter clears the table of filters.
ResumeClears(w) ==
  /\ waiter[w] = "waiting" /\ future[w] # "pending"
  /\ waiter' = [waiter EXCEPT ![w] = "over"]
  /\ userSessions' = [userSessions EXCEPT ![SessionOf[w]] = None]
  /\ filters' = <<>>
  /\ UNCHANGED <<future, msgVars, crossed>>

\* The future is done: _cleanup pops the session, whoever is entered for it, and
\* the first place of the filter.  An error has it run twice.
Resume(w) ==
  /\ waiter[w] = "waiting" /\ future[w] # "pending"
  /\ waiter' = [waiter EXCEPT ![w] = "over"]
  /\ userSessions' = [userSessions EXCEPT ![SessionOf[w]] = None]
  /\ LET once == RemoveFirst(filters, FilterOf[w]) IN
     filters' = IF future[w] = "error" THEN RemoveFirst(once, FilterOf[w]) ELSE once
  /\ UNCHANGED <<future, msgVars, crossed>>

-----------------------------------------------------------------------------
(* handle_session_control_agent and trigger *)

\* The filters from the n-th on that lead m to a waiter not done in f.
Hits(m, n, f) ==
  {i \in n .. Len(filters) :
     LET w == userSessions[Key[filters[i]][m]] IN w # None /\ f[w] = "pending"}

\* The loop of m goes on up to the lock of the next waiter, which is got at once
\* when nobody has it or waits for it.
Scan(m, n, q, f) ==
  LET hits == Hits(m, n, f) IN
  \/ /\ hits = {}
     /\ msg' = [msg EXCEPT ![m] = "over"]
     /\ next' = [next EXCEPT ![m] = 1]
     /\ target' = [target EXCEPT ![m] = None]
     /\ queue' = q
  \/ /\ hits # {}
     /\ LET i == Min(hits)
            w == userSessions[Key[filters[i]][m]] IN
        /\ msg' = [msg EXCEPT ![m] = IF q[w] = <<>> THEN "running" ELSE "queued"]
        /\ next' = [next EXCEPT ![m] = i + 1]
        /\ target' = [target EXCEPT ![m] = w]
        /\ queue' = [q EXCEPT ![w] = Append(@, m)]

Released(w) == [queue EXCEPT ![w] = Tail(@)]

Arrive(m) ==
  /\ msg[m] = "new"
  /\ Scan(m, 1, queue, future)
  /\ UNCHANGED <<tableVars, future, crossed>>

\* Mutant: whether the waiter is done is not asked again under the lock.
AcquireUnasked(m) ==
  /\ msg[m] = "queued" /\ Head(queue[target[m]]) = m
  /\ msg' = [msg EXCEPT ![m] = "running"]
  /\ UNCHANGED <<tableVars, future, queue, next, target, crossed>>

\* The lock is got; a waiter that is done by now is left alone.
Acquire(m) ==
  /\ msg[m] = "queued" /\ Head(queue[target[m]]) = m
  /\ \/ /\ future[target[m]] = "pending"
        /\ msg' = [msg EXCEPT ![m] = "running"]
        /\ UNCHANGED <<queue, next, target>>
     \/ /\ future[target[m]] # "pending"
        /\ Scan(m, next[m], Released(target[m]), future)
  /\ UNCHANGED <<tableVars, future, crossed>>

\* The plugin's handler stops the session, or keeps it for no time.
HandlerStops(m) ==
  /\ msg[m] = "running" /\ future[target[m]] = "pending"
  /\ future' = [future EXCEPT ![target[m]] = "result"]
  /\ UNCHANGED <<tableVars, msgVars, crossed>>

HandlerReturns(m) ==
  /\ msg[m] = "running"
  /\ Scan(m, next[m], Released(target[m]), future)
  /\ UNCHANGED <<tableVars, future, crossed>>

\* Mutant: the exception leaves the lock taken.
HandlerRaisesOut(m) ==
  /\ msg[m] = "running"
  /\ future' = [future EXCEPT ![target[m]] = IF @ = "pending" THEN "error" ELSE @]
  /\ Scan(m, next[m], queue, future')
  /\ UNCHANGED <<tableVars, crossed>>

\* An exception of the handler ends the session; the loop goes on.
HandlerRaises(m) ==
  /\ msg[m] = "running"
  /\ future' = [future EXCEPT ![target[m]] = IF @ = "pending" THEN "error" ELSE @]
  /\ Scan(m, next[m], Released(target[m]), future')
  /\ UNCHANGED <<tableVars, crossed>>

-----------------------------------------------------------------------------

WaiterStep(w) == Register(w) \/ TimesOut(w) \/ Resume(w)
HandlerEnds(m) == HandlerReturns(m) \/ HandlerRaises(m)
MsgStep(m) == Arrive(m) \/ Acquire(m) \/ HandlerStops(m) \/ HandlerEnds(m)
Next == (\E w \in Waiter : WaiterStep(w)) \/ (\E m \in Msg : MsgStep(m))

\* Timers expire, tasks run on and plugins' handlers end.
Fairness ==
  /\ \A w \in Waiter : WF_vars(TimesOut(w)) /\ WF_vars(Resume(w))
  /\ \A m \in Msg : WF_vars(Acquire(m)) /\ WF_vars(HandlerEnds(m))

Spec == Init /\ [][Next]_vars /\ Fairness

-----------------------------------------------------------------------------
(* Properties *)

\* Every variable has its type, and a message that triggers a waiter is in the
\* line of its lock, once.
TypeOK ==
  /\ userSessions \in [Session -> Waiter \cup {None}] /\ filters \in Seq(Filter)
  /\ waiter \in [Waiter -> {"idle", "waiting", "over"}]
  /\ future \in [Waiter -> {"pending", "result", "error"}]
  /\ \A w \in Waiter : /\ queue[w] \in Seq(Msg) /\ IsInjective(queue[w])
                       /\ \A m \in ToSet(queue[w]) : target[m] = w
  /\ msg \in [Msg -> {"new", "queued", "running", "over"}] /\ next \in [Msg -> Nat]
  /\ target \in [Msg -> Waiter \cup {None}] /\ crossed \subseteq Waiter

\* The handler of a waiter starts only while the waiter waits for an answer and
\* no other message is in it.
TriggersAreSerial ==
  [][\A m \in Msg :
       msg'[m] = "running" /\ (msg[m] # "running" \/ next'[m] # next[m]) =>
         /\ future[target'[m]] = "pending"
         /\ \A k \in Msg \ {m} : ~(msg'[k] = "running" /\ target'[k] = target'[m])]_vars

\* The tables name only waiters that wait, and a waiter that never shared its
\* session or its filter is in both until its end, whatever other waiters do: a
\* message that arrives now finds it (session_waiter.py:131, 144-151, 197).  One
\* whose loop is under way may pass it by when another filter leaves the list.
LiveWaiterIsFound ==
  /\ \A s \in Session : userSessions[s] # None => waiter[userSessions[s]] = "waiting"
  /\ \A w \in Waiter \ crossed :
       waiter[w] = "waiting" =>
         userSessions[SessionOf[w]] = w /\ FilterOf[w] \in ToSet(filters)

\* Every wait ends and every message leaves the loop: a handler that raises or a
\* session that ends in the queue leaves no lock behind.
EverythingEnds ==
  /\ \A w \in Waiter : []<>(waiter[w] # "waiting")
  /\ \A m \in Msg : []<>(msg[m] \notin {"queued", "running"})
=============================================================================

------------------------------ MODULE FollowUp ------------------------------
(***************************************************************************)
(* The messages of one chat session (one unified_msg_origin) in the agent  *)
(* stage: internal.py `process`, follow_up.py and the follow-up tickets of *)
(* tool_loop_agent_runner.py.                                              *)
(*                                                                         *)
(* A message that arrives while its sender's agent is running is captured: *)
(* it becomes a ticket of that runner, which the runner consumes into its  *)
(* next tool result, or resolves unconsumed when it ends.  Consumed, the   *)
(* message is done; unconsumed, it goes on to a run of its own, in order   *)
(* of arrival.                                                             *)
(*                                                                         *)
(* The event loop is modelled as it is: `ready` holds the callbacks in the *)
(* order they were scheduled and only its head runs, up to the next await  *)
(* that suspends it.  A task that waits for I/O (the network, the database *)
(* or a model) is put at the end of `ready` at any later time.  The        *)
(* session lock is KeyedMutex with asyncio's hand-over (see SessionLock).  *)
(***************************************************************************)
EXTENDS Integers, Sequences, FiniteSets, FiniteSetsExt, SequencesExt, Functions

CONSTANTS Event,      \* the messages of the session
          Sender,
          SenderOf,   \* [Event -> Sender]
          Failing,    \* the events whose run may end without done(): step()
                      \* raises, the generator is closed at a yield, or the
                      \* last step still calls a tool
          None

ASSUME EventAssumption == IsFiniteSet(Event) /\ None \notin Event
ASSUME SenderAssumption == SenderOf \in [Event -> Sender]
ASSUME FailingAssumption == Failing \subseteq Event

VARIABLES
  ready,     \* Seq of <<"main", e>> and <<"monitor", e>>: asyncio's ready queue
  pc,        \* [Event -> location]: where `process` of the event is suspended
  mon,       \* [Event -> state]: its monitor task
  path,      \* [Event -> {"none", "captured", "consumed", "activated"}]: `process`'s locals
  holder,    \* the event inside the session lock, or None
  lockq,     \* the events in the lock's deque
  runner,    \* _ACTIVE_AGENT_RUNNERS[umo]: the event of the runner, or None
  phase,     \* [Event -> {"none", "running", "ended"}]: done() of its runner
  stopped,   \* [Event -> BOOLEAN]: its runner or event was asked to stop
  pending,   \* [Event -> Seq(Event)]: _pending_follow_ups of its runner
  ticket,    \* [Event -> {"none", "open", "consumed", "unconsumed"}]
  order,     \* _FOLLOW_UP_ORDER_STATE[umo], or NoOrder
  cwait,     \* the events waiting on the state's condition, in order
  slot       \* [Event -> [gen, seq]]: order_seq, and which state it belongs to

vars == <<ready, pc, mon, path, holder, lockq, runner, phase, stopped, pending,
          ticket, order, cwait, slot>>

Main(e) == <<"main", e>>
Mon(e) == <<"monitor", e>>
Task == {"main", "monitor"} \X Event

NoOrder == [gen |-> 0, statuses |-> <<>>, next_order |-> 0, next_turn |-> 0]
NoSlot == [gen |-> 0, seq |-> 0]

\* Where `process` waits for I/O, and where for another task.
IO == {"new", "hook", "build", "run", "closing", "save", "typing"}
Blocked == {"resolve", "turn", "lock", "join"}

Captured(e) == path[e] # "none"
Status == {"pending", "active", "consumed", "finished"}

TypeOK ==
  /\ ready \in Seq(Task)
  /\ pc \in [Event -> IO \cup Blocked \cup {"done"}]
  /\ mon \in [Event -> {"none", "start", "wait", "woken", "cancelled", "done"}]
  /\ path \in [Event -> {"none", "captured", "consumed", "activated"}]
  /\ holder \in Event \cup {None}
  /\ lockq \in Seq(Event)
  /\ runner \in Event \cup {None}
  /\ phase \in [Event -> {"none", "running", "ended"}]
  /\ stopped \in [Event -> BOOLEAN]
  /\ pending \in [Event -> Seq(Event)]
  /\ ticket \in [Event -> {"none", "open", "consumed", "unconsumed"}]
  /\ order.gen \in Nat /\ order.next_order \in Nat /\ order.next_turn \in Nat
  /\ \A s \in DOMAIN order.statuses : s \in Nat /\ order.statuses[s] \in Status
  /\ cwait \in Seq(Event)
  /\ slot \in [Event -> [gen : Nat, seq : Nat]]

Init == /\ ready = <<>>
        /\ pc = [e \in Event |-> "new"]
        /\ mon = [e \in Event |-> "none"]
        /\ path = [e \in Event |-> "none"]
        /\ holder = None
        /\ lockq = <<>>
        /\ runner = None
        /\ phase = [e \in Event |-> "none"]
        /\ stopped = [e \in Event |-> FALSE]
        /\ pending = [e \in Event |-> <<>>]
        /\ ticket = [e \in Event |-> "none"]
        /\ order = NoOrder
        /\ cwait = <<>>
        /\ slot = [e \in Event |-> NoSlot]

---------------------------------------------------------------------------
\* The event loop

InReady(task) == \E i \in DOMAIN ready : ready[i] = task

\* The I/O `process` of e waits for is over.  "new": the event arrives.
IOReady(e) == /\ pc[e] \in IO
              /\ ~InReady(Main(e))
              /\ ready' = Append(ready, Main(e))
              /\ UNCHANGED <<pc, mon, path, holder, lockq, runner, phase, stopped,
                             pending, ticket, order, cwait, slot>>

Runs(task) == ready # <<>> /\ Head(ready) = task

\* The rest of the queue, then what the step has scheduled.
Schedule(woken) == ready' = Tail(ready) \o woken

MainTasks(q) == [i \in DOMAIN q |-> Main(q[i])]

---------------------------------------------------------------------------
\* The order state.  An operator maps one value of it to the next.

NewOrder == [gen |-> 1 + Max({slot[e].gen : e \in Event}), statuses |-> <<>>,
             next_order |-> 0, next_turn |-> 0]

\* _get_follow_up_order_state and _allocate_follow_up_order.
Allocate(o) ==
  [o EXCEPT !.statuses = [s \in DOMAIN @ \cup {o.next_order} |->
                            IF s = o.next_order THEN "pending" ELSE @[s]],
            !.next_order = @ + 1]

\* _advance_follow_up_turn_locked: drop the handled slots at the head.
Advance(o) ==
  LET handled == {s \in DOMAIN o.statuses : o.statuses[s] \in {"consumed", "finished"}}
      turn == Min({s \in o.next_turn .. o.next_order : s \notin handled})
  IN  [o EXCEPT !.statuses = Restrict(@, DOMAIN @ \ (o.next_turn .. turn - 1)),
                !.next_turn = turn]

SetStatus(o, s, status, unless) ==
  IF s \in DOMAIN o.statuses /\ o.statuses[s] \notin unless
  THEN [o EXCEPT !.statuses[s] = status] ELSE o

\* The state goes once it has no slots left and no runner (r) is active.
Drop(o, r) == IF o.statuses = <<>> /\ r = None THEN NoOrder ELSE o

\* _mark_follow_up_consumed and _finish_follow_up_turn, without their wake-ups.
MarkConsumed(o, s, r) == Drop(Advance(SetStatus(o, s, "consumed", {"finished"})), r)
FinishTurn(o, s, r) == Drop(Advance(SetStatus(o, s, "finished", {})), r)

\* Mutant: no notify_all.
NotifiedNever == <<>>

\* Both end with notify_all: every waiter of the condition is scheduled.
Settle(o) == IF order = NoOrder
             THEN UNCHANGED <<order, cwait>>
             ELSE order' = o /\ cwait' = <<>>
Notified == IF order = NoOrder THEN <<>> ELSE MainTasks(cwait)

---------------------------------------------------------------------------
\* The session lock, taken and given up by `process`.

EnterLock(e) ==
  IF holder = None /\ lockq = <<>>
  THEN /\ holder' = e
       /\ pc' = [pc EXCEPT ![e] = "build"]
       /\ UNCHANGED lockq
  ELSE /\ lockq' = Append(lockq, e)
       /\ pc' = [pc EXCEPT ![e] = "lock"]
       /\ UNCHANGED holder

LockWakes == IF lockq = <<>> THEN <<>> ELSE <<Main(Head(lockq))>>

LockGranted(e) ==
  /\ Runs(Main(e)) /\ pc[e] = "lock"
  /\ holder' = e
  /\ lockq' = Tail(lockq)
  /\ pc' = [pc EXCEPT ![e] = "build"]
  /\ Schedule(<<>>)
  /\ UNCHANGED <<mon, path, runner, phase, stopped, pending, ticket, order, cwait, slot>>

---------------------------------------------------------------------------
\* The end of `process`: stop_typing, which may wait for I/O, and
\* finalize_follow_up_capture.  `r` and `woken` are the active runner and the
\* wake-ups as the step has left them so far.

\* The monitor is cancelled and waited for.
CancelMonitor(e, woken) ==
  /\ mon[e] # "done"
  /\ mon' = [mon EXCEPT ![e] = "cancelled"]
  /\ pc' = [pc EXCEPT ![e] = "join"]
  /\ Schedule(woken \o IF mon[e] = "wait" THEN <<Mon(e)>> ELSE <<>>)

\* The capture's slot is given up, unless it was already marked consumed.
Conclude(e, r, woken) ==
  /\ pc' = [pc EXCEPT ![e] = "done"]
  /\ IF path[e] \in {"none", "consumed"}
     THEN /\ Schedule(woken)
          /\ UNCHANGED <<order, cwait>>
     ELSE /\ Schedule(woken \o Notified)
          /\ Settle(IF path[e] = "activated" THEN FinishTurn(order, slot[e].seq, r)
                    ELSE MarkConsumed(order, slot[e].seq, r))

Finalize(e, r, woken) ==
  \/ /\ Captured(e)
     /\ CancelMonitor(e, woken)
     /\ UNCHANGED <<order, cwait>>
  \/ /\ Captured(e) => mon[e] = "done"
     /\ Conclude(e, r, woken)
     /\ UNCHANGED mon

Leave(e, r, woken) ==
  \/ Finalize(e, r, woken)
  \/ /\ pc' = [pc EXCEPT ![e] = "typing"]
     /\ Schedule(woken)
     /\ UNCHANGED <<mon, order, cwait>>

TypingStopped(e) ==
  /\ Runs(Main(e)) /\ pc[e] = "typing"
  /\ Finalize(e, runner, <<>>)
  /\ UNCHANGED <<path, holder, lockq, runner, phase, stopped, pending, ticket, slot>>

\* The cancelled monitor has ended.
Joined(e) ==
  /\ Runs(Main(e)) /\ pc[e] = "join"
  /\ Conclude(e, runner, <<>>)
  /\ UNCHANGED <<mon, path, holder, lockq, runner, phase, stopped, pending, ticket, slot>>

---------------------------------------------------------------------------
\* The beginning of `process`

\* send_typing and the OnWaitingLLMRequest hook wait for I/O, or nothing does
\* before the session lock.
Proceed(e) ==
  \/ /\ pc' = [pc EXCEPT ![e] = "hook"]
     /\ UNCHANGED <<holder, lockq>>
  \/ EnterLock(e)

\* try_capture_follow_up and runner.follow_up: same sender, not stopped, not done.
CanCapture(e) == /\ runner # None
                 /\ SenderOf[runner] = SenderOf[e]
                 /\ ~stopped[runner]
                 /\ phase[runner] = "running"

\* The message arrives and is captured: a ticket, a slot and a monitor task;
\* `process` waits for the ticket.
Capture(e) ==
  /\ Runs(Main(e)) /\ pc[e] = "new"
  /\ CanCapture(e)
  /\ LET o == IF order = NoOrder THEN NewOrder ELSE order IN
     /\ order' = Allocate(o)
     /\ slot' = [slot EXCEPT ![e] = [gen |-> o.gen, seq |-> o.next_order]]
  /\ pending' = [pending EXCEPT ![runner] = Append(@, e)]
  /\ ticket' = [ticket EXCEPT ![e] = "open"]
  /\ path' = [path EXCEPT ![e] = "captured"]
  /\ pc' = [pc EXCEPT ![e] = "resolve"]
  /\ mon' = [mon EXCEPT ![e] = "start"]
  /\ Schedule(<<Mon(e)>>)
  /\ UNCHANGED <<holder, lockq, runner, phase, stopped, cwait>>

\* The message arrives and there is nothing to follow up.
Begin(e) ==
  /\ Runs(Main(e)) /\ pc[e] = "new"
  /\ ~CanCapture(e)
  /\ Proceed(e)
  /\ Schedule(<<>>)
  /\ UNCHANGED <<mon, path, runner, phase, stopped, pending, ticket, order, cwait, slot>>

\* prepare_follow_up_capture wakes up with a consumed ticket: the slot is
\* marked and `process` returns through its finally.
PreparedConsumed(e) ==
  /\ Runs(Main(e)) /\ pc[e] = "resolve" /\ ticket[e] = "consumed"
  /\ path' = [path EXCEPT ![e] = "consumed"]
  /\ Settle(MarkConsumed(order, slot[e].seq, runner))
  /\ \/ CancelMonitor(e, Notified)
     \/ /\ mon[e] = "done"
        /\ pc' = [pc EXCEPT ![e] = "done"]
        /\ Schedule(Notified)
        /\ UNCHANGED mon
  /\ UNCHANGED <<holder, lockq, runner, phase, stopped, pending, ticket, slot>>

\* Mutant: whoever is resolved goes on at once.
AwaitNothing(e) == Proceed(e) /\ UNCHANGED cwait

\* _activate_and_wait_follow_up_turn: only the head of the order goes on.
AwaitTurn(e) ==
  IF order = NoOrder \/ order.next_turn = slot[e].seq
  THEN Proceed(e) /\ UNCHANGED cwait
  ELSE /\ cwait' = Append(cwait, e)
       /\ pc' = [pc EXCEPT ![e] = "turn"]
       /\ UNCHANGED <<holder, lockq>>

PreparedUnconsumed(e) ==
  /\ Runs(Main(e)) /\ pc[e] = "resolve" /\ ticket[e] = "unconsumed"
  /\ path' = [path EXCEPT ![e] = "activated"]
  /\ order' = SetStatus(order, slot[e].seq, "active", {})
  /\ AwaitTurn(e)
  /\ Schedule(<<>>)
  /\ UNCHANGED <<mon, runner, phase, stopped, pending, ticket, slot>>

\* Woken by notify_all: look at next_turn again.
TurnNotified(e) ==
  /\ Runs(Main(e)) /\ pc[e] = "turn"
  /\ AwaitTurn(e)
  /\ Schedule(<<>>)
  /\ UNCHANGED <<mon, path, runner, phase, stopped, pending, ticket, order, slot>>

\* The hook is over: on to the session lock, or it has stopped the event.
HookDone(e) ==
  /\ Runs(Main(e)) /\ pc[e] = "hook"
  /\ \/ /\ EnterLock(e)
        /\ Schedule(<<>>)
        /\ UNCHANGED <<mon, order, cwait>>
     \/ /\ Leave(e, runner, <<>>)
        /\ UNCHANGED <<holder, lockq>>
  /\ UNCHANGED <<path, runner, phase, stopped, pending, ticket, slot>>

---------------------------------------------------------------------------
\* The agent run, inside the session lock

\* build_main_agent, the OnLLMRequest hook and the reset are over.
RegisterRunner(e) ==
  /\ Runs(Main(e)) /\ pc[e] = "build"
  /\ runner' = e
  /\ phase' = [phase EXCEPT ![e] = "running"]
  /\ pc' = [pc EXCEPT ![e] = "run"]
  /\ Schedule(<<>>)
  /\ UNCHANGED <<mon, path, holder, lockq, stopped, pending, ticket, order, cwait, slot>>

\* No agent was built, a hook stopped the event, or something raised.
BuildFails(e) ==
  /\ Runs(Main(e)) /\ pc[e] = "build"
  /\ holder' = None
  /\ Leave(e, runner, LockWakes)
  /\ UNCHANGED <<path, lockq, runner, phase, stopped, pending, ticket, slot>>

\* A user stops the run.
Stop(e) ==
  /\ pc[e] \in {"build", "run"} /\ ~stopped[e]
  /\ stopped' = [stopped EXCEPT ![e] = TRUE]
  /\ UNCHANGED <<ready, pc, mon, path, holder, lockq, runner, phase, pending, ticket,
                 order, cwait, slot>>

\* ticket.resolved.set(): the captures waiting for it, then their monitors.
ResolveWakes(q) ==
  FlattenSeq([i \in DOMAIN q |->
    IF mon[q[i]] = "wait" THEN <<Main(q[i]), Mon(q[i])>> ELSE <<Main(q[i])>>])

Resolve(e, result) ==
  LET q == pending[e] IN
  /\ pending' = [pending EXCEPT ![e] = <<>>]
  /\ ticket' = [f \in Event |-> IF Contains(q, f) THEN result ELSE ticket[f]]
  /\ mon' = [f \in Event |-> IF Contains(q, f) /\ mon[f] = "wait" THEN "woken" ELSE mon[f]]
  /\ Schedule(ResolveWakes(q))

\* A tool result takes the pending follow-ups in (_consume_follow_up_notice).
ConsumeFollowUps(e) ==
  /\ Runs(Main(e)) /\ pc[e] = "run" /\ pending[e] # <<>>
  /\ Resolve(e, "consumed")
  /\ UNCHANGED <<pc, path, holder, lockq, runner, phase, stopped, order, cwait, slot>>

\* The run gets its final answer or is aborted: DONE, then the on_agent_done
\* hook, which waits for I/O, ...
EndRun(e) ==
  /\ Runs(Main(e)) /\ pc[e] = "run"
  /\ phase' = [phase EXCEPT ![e] = "ended"]
  /\ pc' = [pc EXCEPT ![e] = "closing"]
  /\ Schedule(<<>>)
  /\ UNCHANGED <<mon, path, holder, lockq, runner, stopped, pending, ticket, order, cwait, slot>>

\* Mutant: the run closes and leaves its tickets alone.
CloseRunSilently(e) ==
  /\ Runs(Main(e)) /\ pc[e] = "closing"
  /\ Schedule(<<>>)
  /\ pc' = [pc EXCEPT ![e] = "save"]
  /\ UNCHANGED <<mon, path, holder, lockq, runner, phase, stopped, pending, ticket,
                 order, cwait, slot>>

\* ... then _resolve_unconsumed_follow_ups.
CloseRun(e) ==
  /\ Runs(Main(e)) /\ pc[e] = "closing"
  /\ Resolve(e, "unconsumed")
  /\ pc' = [pc EXCEPT ![e] = "save"]
  /\ UNCHANGED <<path, holder, lockq, runner, phase, stopped, order, cwait, slot>>

\* The model answers with an error: both at once.
ErrorRun(e) ==
  /\ Runs(Main(e)) /\ pc[e] = "run"
  /\ phase' = [phase EXCEPT ![e] = "ended"]
  /\ Resolve(e, "unconsumed")
  /\ pc' = [pc EXCEPT ![e] = "save"]
  /\ UNCHANGED <<path, holder, lockq, runner, stopped, order, cwait, slot>>

\* step() raises, or the loop ends after its last step, without done(): nobody
\* resolves the tickets, and the runner goes on accepting new ones.
FailRun(e) ==
  /\ Runs(Main(e)) /\ pc[e] = "run" /\ e \in Failing
  /\ pc' = [pc EXCEPT ![e] = "save"]
  /\ Schedule(<<>>)
  /\ UNCHANGED <<mon, path, holder, lockq, runner, phase, stopped, pending, ticket,
                 order, cwait, slot>>

\* The history is saved; the runner is unregistered and the lock released.
EndProcess(e) ==
  /\ Runs(Main(e)) /\ pc[e] = "save"
  /\ runner' = IF runner = e THEN None ELSE runner
  /\ holder' = None
  /\ Leave(e, runner', LockWakes)
  /\ UNCHANGED <<path, lockq, phase, stopped, pending, ticket, slot>>

---------------------------------------------------------------------------
\* _monitor_follow_up_ticket

MonitorStarts(e) ==
  /\ Runs(Mon(e)) /\ mon[e] = "start" /\ ticket[e] = "open"
  /\ mon' = [mon EXCEPT ![e] = "wait"]
  /\ Schedule(<<>>)
  /\ UNCHANGED <<pc, path, holder, lockq, runner, phase, stopped, pending, ticket,
                 order, cwait, slot>>

MonitorResolved(e) ==
  /\ Runs(Mon(e))
  /\ mon[e] = "woken" \/ (mon[e] = "start" /\ ticket[e] # "open")
  /\ mon' = [mon EXCEPT ![e] = "done"]
  /\ IF ticket[e] = "consumed"
     THEN /\ Settle(MarkConsumed(order, slot[e].seq, runner))
          /\ Schedule(Notified)
     ELSE /\ Schedule(<<>>)
          /\ UNCHANGED <<order, cwait>>
  /\ UNCHANGED <<pc, path, holder, lockq, runner, phase, stopped, pending, ticket, slot>>

MonitorCancelled(e) ==
  /\ Runs(Mon(e)) /\ mon[e] = "cancelled"
  /\ mon' = [mon EXCEPT ![e] = "done"]
  /\ Schedule(<<Main(e)>>)
  /\ UNCHANGED <<pc, path, holder, lockq, runner, phase, stopped, pending, ticket,
                 order, cwait, slot>>

---------------------------------------------------------------------------
Step(e) == \/ Capture(e) \/ Begin(e)
           \/ PreparedConsumed(e) \/ PreparedUnconsumed(e) \/ TurnNotified(e)
           \/ HookDone(e) \/ LockGranted(e)
           \/ RegisterRunner(e) \/ BuildFails(e)
           \/ ConsumeFollowUps(e) \/ EndRun(e) \/ CloseRun(e) \/ ErrorRun(e)
           \/ FailRun(e) \/ EndProcess(e) \/ TypingStopped(e) \/ Joined(e)
           \/ MonitorStarts(e) \/ MonitorResolved(e) \/ MonitorCancelled(e)

Next == \E e \in Event : IOReady(e) \/ Step(e) \/ Stop(e)

Spec == Init /\ [][Next]_vars

\* The loop runs what is ready, and I/O comes to an end; a message need not come.
Fairness == /\ WF_vars(\E e \in Event : Step(e))
            /\ \A e \in Event : WF_vars(pc[e] # "new" /\ IOReady(e))

FairSpec == Spec /\ Fairness

---------------------------------------------------------------------------
Earlier(f, e) == \/ slot[f].gen < slot[e].gen
                 \/ slot[f].gen = slot[e].gen /\ slot[f].seq < slot[e].seq

PastTurn(e) == path[e] = "activated" /\ pc[e] \notin {"resolve", "turn"}

\* Unconsumed follow-ups resume strictly in arrival order: one gets past its
\* turn only when every earlier one was consumed or has left `process`
\* (follow_up.py:123-129).
ResumeInOrder ==
  \A e, f \in Event : PastTurn(e) /\ Captured(f) /\ Earlier(f, e)
                        => (ticket[f] = "consumed" \/ pc[f] = "done")

\* No wake-up is lost: whoever waits for its turn, and is not about to look
\* again, has an earlier message before it that holds the turn and is still in
\* `process`, so that its end will notify (follow_up.py:98-129).
HoldsTurn(f) == /\ Captured(f) /\ pc[f] # "done"
                /\ slot[f] = [gen |-> order.gen, seq |-> order.next_turn]

TurnIsHeld ==
  \A e \in Event : pc[e] = "turn" /\ ~InReady(Main(e))
                     => \E f \in Event : HoldsTurn(f) /\ Earlier(f, e)

\* The run is over and its runner never reached done(): nobody looks at its
\* tickets any more (agent_sub_stages/internal.py:384-421).
Abandoned(f) == phase[f] = "running" /\ pc[f] # "run"

\* An unresolved ticket is with the registered runner, which resolves it when it
\* ends, or with a runner whose run ended without done(): a run that ends as it
\* should never leaves a ticket behind, whoever else fails.
OpenTicketHasRunner ==
  \A e \in Event : ticket[e] = "open" =>
    \E f \in Event : Contains(pending[f], e) /\ (runner = f \/ Abandoned(f))

\* A capture that nobody will resolve: it waits for ever.
Stranded(f) == \E g \in Event : ticket[f] = "open" /\ Abandoned(g) /\ Contains(pending[g], f)

\* Every message settles, consumed by a run or run on its own, unless it or an
\* earlier capture, whose turn it has to wait for, is stranded with a failed run.
EveryMessageSettles ==
  \A e \in Event : pc[e] # "new" ~>
    pc[e] = "done" \/ \E f \in Event : Stranded(f) /\ (f = e \/ Earlier(f, e))

---------------------------------------------------------------------------
\* Refinement: the captures whose slot is unhandled and that are not past
\* their turn, by number; and the one that is.
InQueue(e) == /\ Captured(e) /\ ~PastTurn(e)
              /\ order.gen = slot[e].gen
              /\ slot[e].seq \in DOMAIN order.statuses
              /\ order.statuses[slot[e].seq] \in {"pending", "active"}
Ahead(e) == {f \in Event : InQueue(f) /\ InQueue(e) /\ slot[f].seq < slot[e].seq}
Serving(e) == PastTurn(e) /\ pc[e] # "done"

Abstract == INSTANCE FollowUpQueue WITH
              seen <- {e \in Event : Captured(e)},
              waiting <- {e \in Event : InQueue(e)},
              ahead <- [e \in Event |-> Ahead(e)],
              serving <- {e \in Event : Serving(e)}

\* Follow-ups are absorbed or served one at a time in order of arrival.
ImplementsFollowUpQueue == Abstract!QSpec
=============================================================================

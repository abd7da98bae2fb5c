# LibsClaw in TLA+

LibsClaw is a fork of AstrBot: an asyncio service that connects chat platforms
to LLM agents. This directory holds TLA+ modules translated from its code, the
TLC configurations that check them, and TLAPS proofs about them.

## Inventory

Everything below runs on one asyncio event loop, so two tasks interleave only
at an `await` that really suspends. That is where the hard behaviours are.
Paths are relative to `src/astrbot/`.

| Component | State | Operations | Talks to |
|---|---|---|---|
| Session lock (`core/utils/session_lock.py`) | `_locks`, `_lock_count` per event loop; an `asyncio.Lock` per session | `acquire_lock` | agent stage |
| Follow-ups (`core/pipeline/process_stage/follow_up.py`) | `_ACTIVE_AGENT_RUNNERS`, `_FOLLOW_UP_ORDER_STATE` (statuses, `next_order`, `next_turn`), one monitor task per capture | capture, prepare, finalize, register and unregister a runner | agent stage, tool-loop runner |
| Agent stage (`core/pipeline/process_stage/method/agent_sub_stages/internal.py`) | per event: capture, lock, runner | `process`, `_save_to_history` | follow-ups, session lock, runner, hooks |
| Tool-loop runner (`core/agent/runners/tool_loop_agent_runner.py`, `core/astr_agent_run_util.py`) | agent state, message list, pending follow-up tickets, abort signal | `reset`, `step`, `follow_up`, `request_stop`, `run_agent` | provider, tools |
| Event bus and scheduler (`core/event_bus.py`, `core/pipeline/scheduler.py`) | event queue, pipeline tasks, onion of generators | dispatch, execute, `_process_stages` | every stage |
| Active event registry (`core/utils/active_event_registry.py`) | live events by session | register, unregister, stop_all, request_agent_stop_all | scheduler, `/stop`, `/reset`, dashboard |
| Rate limit (`core/pipeline/rate_limit_check/stage.py`) | a deque of timestamps and a lock per session | process (stall or discard) | pipeline |
| Session waiter (`core/utils/session_waiter.py`) | `USER_SESSIONS`, `FILTERS`, a controller per session | register, trigger, keep, stop, timeout | plugins |
| Web chat (`dashboard/services/chat_service.py`, `core/platform/sources/webchat/`) | runs by id and by session, their subscribers, answer and pending parts; a queue per conversation, back queues, listener tasks | start, resume, consume a run, delete a session; get/create, put, remove, listen | pipeline, database, pages |
| MCP servers (`core/provider/func_tool_manager.py`, `core/agent/mcp_client.py`) | runtimes by name, the tool list, shutdown events; connection tasks of a client | start at boot, enable, disable, call a tool, reconnect, clean up | agent run, dashboard |
| Platforms (`core/platform/manager.py`, `core/platform/sources/`) | adapters by id, their tasks, status and errors | load, reload, terminate | event queue |
| Cron (`core/cron/manager.py`) | scheduler jobs, job rows | add, update, delete, run, sync | database, agent |
| Providers (`core/provider/`) | provider instances by id, current provider per session | load, reload, terminate, select | agent stage |
| Plugins (`core/star/`) | star registry, handler registry, filters | load, reload, turn on and off | pipeline |
| Knowledge base and wiki (`core/knowledge_base/`) | documents, chunks, vector index, jobs | upload, delete, retrieve | database |
| Lifecycle (`core/core_lifecycle.py`) | the managers, current tasks | initialize, start, stop, restart | all |
| Database, backup, computer use, skills, tools, dashboard | rows, archives, sandboxes, HTTP sessions | CRUD and I/O | all |

Correctness, in a line per component:

* session lock: one run per session at a time, first come first served, no
  lock object is replaced under a waiter, no entry outlives its last user;
* follow-ups: every captured message is either consumed by the running agent or
  resumed, and the unconsumed ones resume in arrival order;
* runner: an answer in the history belongs to one tool call of the model, and a call
  whose result was read has one; the loop ends, a stop request takes effect, every ticket is resolved;
* scheduler: a later stage runs only if no earlier one stopped the event, and
  what a stage does after its `yield` runs in reverse order;
* registry: a running event can be found by its session until it ends;
* rate limit: at most `count` events per window pass, and a stalled one passes
  in the end;
* session waiter: a message finds the waiter that is registered for it, and what it
  triggers is run in turn;
* web chat: a page shows the answer without gaps or repetitions, the history
  holds every part once, and neither the pages nor the pipeline wait for ever;
* MCP servers: one client per name, its tools and connections go with it, every
  start and shutdown returns;
* platforms, cron: one live worker per key, none left behind.

## Modules

| Module | Models | Abstract specification | Proofs | TLC instance |
|---|---|---|---|---|
| `SessionLock` | `session_lock.py` on `asyncio.Lock` | `KeyedMutex` | `SessionLock_proofs` | `MCSessionLock` |
| `FollowUp` | `follow_up.py`, `internal.py` `process`, the runner's tickets | `FollowUpQueue` | `FollowUp_proofs` | `MCFollowUp` |
| `RateLimit` | `rate_limit_check/stage.py` | | `RateLimit_proofs` | `MCRateLimit` |
| `Pipeline` | `scheduler.py`, the stages, `active_event_registry.py` | | `Pipeline_proofs` | `MCPipeline` |
| `AgentLoop` | `astr_agent_run_util.py`, `tool_loop_agent_runner.py`, the tool executor | | `AgentLoop_proofs` | `MCAgentLoop` |
| `Truncator` | `agent/context/truncator.py`, `manager.py` | | `AgentLoop_proofs` | `MCTruncator` |
| `ChatRuns` | `chat_service.py` (runs and deletion), `webchat_queue_mgr.py`, `webchat_event.py` | | `ChatRuns_proofs` | `MCChatRuns` |
| `McpServers` | `mcp_client.py`, the MCP part of `func_tool_manager.py` | | `McpServers_proofs` | `MCMcpServers` |
| `SessionWaiter` | `session_waiter.py`, `handle_session_control_agent` of `builtin_stars/astrbot/main.py` | | `SessionWaiter_proofs` | `MCSessionWaiter` |

The operators whose comment says "Mutant" are deliberate errors; nothing in the
specifications uses them. Each is a plausible bug of the definition that follows
it, and shows that a property of the runs can fail.

### SessionLock

A step is what a task runs between two awaits that really suspend it. The lock
that guards the table (`_access_lock`) is only held over code without such an
await, so `Acquire` is the whole of lines 17 to 24 (get or create the entry,
count up, first attempt on the `asyncio.Lock`), and `Release` and `Unwind` run
through the `finally` of lines 25 to 30. `asyncio.Lock` is external and modelled
as CPython implements it: the deque of waiters, the wake-up of its head only, the
waiter that is cancelled before or after it was woken (`Cancel`, `Unwind`).
`LockId` gives lock objects an identity, so that an entry that was dropped and
made anew is told from the old one. `KeyedMutex` is what a caller may rely on:
one task inside per key, the others wait and may give up, and a task is let in only
when nobody is `ahead` of it, that is, asked before it and waits still.

### FollowUp

One session. `ready` is asyncio's ready queue: only the callback at its head
runs, up to its next suspension, and a task that waits for I/O is appended at any
later time. `pc` says at which await `process` of an event is suspended, `mon`
the same for its monitor task. `Begin` captures a message while its sender's
agent runs, or goes to the lock; `ConsumeFollowUps`, `EndRun`, `CloseRun`,
`ErrorRun`, `FailRun` are what the runner does with its tickets; `AwaitTurn`,
`TurnNotified`, `FinishTurn` are the order of the unconsumed ones.
`FollowUpQueue` is their specification: any waiting message may be absorbed, the
others are served one at a time, each when nobody captured earlier waits still.

A tool that returns `None` is `ConsumeFollowUps` followed by `EndRun`. A run that fails
leaves its tickets with a runner that nobody asks any more (`Abandoned`), and what they
belong to waits for ever (`Stranded`).

### RateLimit

One session; messages are numbered in the order they arrive, which only names
them. `Arrive` is `process` up to its first suspension, `Granted` the turn of a
message that queued for the lock, `Wake` the end of a sleep; all three go through
`Check`, one round of the loop, with the `now` the code would use. Time is
integer. `Tick` waits for whatever is ready to run, and a sleeper wakes up less
than `Late` after its time. `Late` is a bound of the model: the event loop promises none.

### Pipeline

`stack` is the recursion of `_process_stages`: a frame per invocation, all but
the last suspended at a `yield`. The actions are the stages, with what they do to
the event's result, its type (`stopType`) and the stop flag, and end in `PlainDone` (a
stage without a yield), `Yield` or `Exhausted` (a generator). `Finish` and `Fail` are the
end of `execute`. `HandlerResets` is the `/reset` of one event, which stops the others
of its session through the registry. The rate limit is one of the gates (`Gate`), its own
behaviour is in `RateLimit`.

A handler or a tool of the agent may at any moment set or clear the result, stop the event
or send by itself (`PluginSetsResult`, `PluginStops`, `PluginSends`); the hooks of
`Decorate` and `Sent` do the same within the step of their stage. Setting a result of
type STOP is one of the ways to stop. A handler ends a turn with a bare yield (`HandlerYields`)
or with a `ProviderRequest` (`HandlerAsks`): then the agent runs while the handler is
suspended (the points "asked", "askedBack", "askedOn"), and when it is through
(`AskedEnds`, `AskedFails`) the handler goes on or has its result cleared. Otherwise the
agent runs after the handlers. In both places it is `AgentYields` and `AgentBack`, in the
second it ends with `AgentEnds` or `AgentFails`; its own behaviour is in `AgentLoop` and
`FollowUp`.

`reply` follows each reply: set by a plugin or as the notice of a failed agent, handed to
the later stages (`HandOn`: "made"), and then sent, sent again, dropped or blocked.
`caught` records that an event was stopped while a generator of its was suspended.

### AgentLoop

One run. `BeginStep` is an iteration of `run_agent`; `Chunk`, `Answer`,
`ErrorAnswer`, `EmptyOutput`, `RequestRaises`, `StreamEnds` are what a model may
do, the last four with the retry and the fallback; `JudgeAbort`, `JudgeError`,
`JudgeText`, `JudgeCalls` and `Requery` are what `step` makes of the answer;
`UnknownTool`, `StartTool`, `Poll`, `ToolResult`, `ToolRaises`, `ToolEnds`,
`Interrupt`, `NextCall` execute its calls. `RequestStop` sets the event's flag,
`WatchStop` is the task that carries it to the runner. `messages` holds roles,
numbers of calls and which call a tool message answers. A result in which nothing is read
(`unread`) adds no answer.

### Truncator

The messages of a conversation as they grow (`UserSpeaks`, `AssistantSpeaks`,
`ToolStep`) and are cut (`Process`): by turns (`EnforceMaxTurns`), then by dropping the
oldest turns and by halving (`Compress`). Each cut is repaired: the first user message is
put back in front (`EnsureUserMessage`) and what has lost its other half goes
(`FixMessages`). Token counts decide only whether a cut is due, so it may be at any
time. The summary of a model is left out.

### ChatRuns

One session. `Start` is the message of a page, with the run, its first stream and
its task; `Listen`, `Put` and `PutReturns` are the pipeline's side, up to the payload
"end", or up to a failure that sends no more: a listener whose callback raises (`Listen`), a
stage that raises (`SendingFails`); `Begin`, `Get`, `Attached`, `Saved`, `Raises`, `Cancelled`, `Flush` and `Cleanup`
are the run's task with its shielded last flush, which goes on when the task is
cancelled (`Killed`). `Read`, `Disconnect` and `Resume` are the pages. The three
`Delete` actions are the awaits of `delete_session_internal`. A payload is only its
kind and whether it adds a piece of content; `published` is the sequence of
revisions, `parts` and `pending` count pieces, `stored` lists those in the history.
Getting the chat queue and putting into it is one step: the queue holds 128
messages, and one run sends one.

### McpServers

One server by name. `life` says where the lifecycle task of a client is, `start`
where the `_start_mcp_server` that made it is, `conn` where each connection task
is; a cancelled task is in `hit` or `kill` until its next step. `_runtime_lock` is held
over code without an await, so it is never seen taken. `Dial` is `connect_to_server` up
to its wait, `CleansUp` and `Forgets` the two halves of `cleanup`, `Terminate` and
`LifeClosed` those of `_terminate_mcp_client`. `InitStarts` and `InitEnds` are
`init_mcp_clients` as far as it concerns this server: it ends some time after the
server has started or failed, when the others have too. A call of a tool
(`Offered` to `CallEnds`) may reconnect under the client's lock. The mcp library is
external: a connection opens, fails, or answers until it is closed.

### SessionWaiter

`userSessions` and `filters` are the two module-level tables, `future` the outcome of
a waiter's controller, `queue` the holder of a waiter's lock and those behind it.
`Scan` is the loop of `handle_session_control_agent` from one await to the next: it
visits the list as it is at that moment, so a filter that is removed shifts the
others under it and the loop, which goes on by index, may miss one. That the loop stops the
event it has triggered a waiter for is left out: the stop has no effect on these tables.
`Resume` is the end of `register_wait` with its one or two
`_cleanup`s.

## Runs

Passing:

| Run | Instance | Shows |
|---|---|---|
| `session_lock` | 4 tasks, 2 loops, 2 sessions, 3 lock objects (no more are in use at once) | `MutualExclusion`, `NoLeak`, the refinement of `KeyedMutex`, `EveryWaiterServed` |
| `follow_up` | 4 messages, 2 senders, every run may fail | unconsumed follow-ups resume in order (`ResumeInOrder`), and none waits for a turn that nobody will give up (`TurnIsHeld`) |
| `follow_up_live` | 3 messages of one sender, every run may fail | only a failed run leaves tickets behind (`OpenTicketHasRunner`), `EveryMessageSettles`, the refinement of `FollowUpQueue` |
| `rate_limit` | 5 messages, 2 per window, both strategies | `WindowBound`, `InOrder`, `EveryMessagePasses` |
| `pipeline` | 2 messages of a session, 2 replies to the first, none to the second | `RegistryExact`, `RepliesDelivered`, `ResentOnlyIfCaught`, `StoppedIsNotProcessed` |
| `agent_loop` | 3 models, 2 attempts, 2 tool steps and the final one, 2 calls per answer | `PairedHistory`, `ErrorAfterAllTried`, `HookOnce`, `StopEndsRun`, `EndsUnlessHung` |
| `truncator` | 10 messages spoken, limits of 1 and 2 turns, drops of 1 and 2 | `PairingKept`, `Chronological`, `UserLeads` |
| `chat_runs` | 1 run, 2 pages, queues of 1 and 2, 3 payloads, 1 deletion | `SubscriberLacksNothing`, `TranscriptExact`, `OverMeansGone`, `EveryAnswerIsSent`, `EveryStreamEnds` |
| `mcp_servers` | 2 successive clients, 3 connections, 1 tool call | `RegistryIsTrue`, `NoStrayConnection`, `EveryRequestEnds` |
| `session_waiter` | 3 waiters (2 share session and filter), 3 messages | `LiveWaiterIsFound`, `TriggersAreSerial`, `EverythingEnds` |

`session_lock`, `agent_loop`, `chat_runs`, `mcp_servers` and `session_waiter` also check
their module's `TypeOK`; those of `FollowUp`, `RateLimit` and `Pipeline` are theorems. The
bounds: three contenders are the holder, the waiter that is woken or cancelled and the one
behind it, and a fourth task on a second loop shows that loops share nothing. Three
captures are the one whose turn it is, one that was consumed in front of it and one behind
it. Five messages against two per window fill the window, stall one and queue two. Two
replies are needed for a handler that goes on after its first; the second message
(`OneReplies`) is there to reset the session at every point of the first and to be stopped
by it. Three models are a first, a
last and one that is neither, and two tool steps make a step start from a fallback that an
earlier one chose. Ten messages hold three tool steps and leave room to cut twice. Three
payloads against queues of one and two block the sender, fill a page's queue and leave one
to resume for. Two clients are one that starts and one that the first is in the way of;
three connections are one of each and a reconnection. Of three waiters two meet in the
same tables and the third is the one that must not notice.

Violated, each one property that a line of the repository states and the code
does not keep:

| Run | Property | What happens |
|---|---|---|
| `pipeline_blocked` | `BlockedIsNotProcessed` | the content check yields before it stops the event, and the agent runs on the blocked message |
| `mcp_start_twice` | `OneServerRuns` | a server that failed at boot and was enabled since loses its entry when the boot ends, and a second start runs beside it |

The models contain more deviations, which the properties of the passing runs
name as their conditions or leave room for:

* `FollowUp`: a run that ends without `done()` (`FailRun`: an exception, a dropped
  generator, the last step) leaves its tickets unresolved, so the captured message and its
  monitor task wait for ever, and so do the captures behind it. `OpenTicketHasRunner` says
  that nothing else leaves a ticket, `EveryMessageSettles` exempts just these messages,
  and neither run of the module checks for deadlock for this reason.
* `RateLimit`: a message that queued for the lock stalls from its old `now`, so past
  the start of the next window.
* `Pipeline`: an event stopped while one of its generators is suspended may go through
  decoration and sending again with the same reply (`ResentOnlyIfCaught` says that
  nothing else does, also not a hook that sets a result of type STOP before anything is
  suspended). With `unique_session` an event is registered before its session id is
  replaced: a reset of its session does not find it, and it is never removed, so the
  instance of `RegistryExact` has `UniqueSession` false. A result that is set and not followed
  by a yield may be replaced or cleared; `RepliesDelivered` is about those handed on. The
  notice of an agent that a handler asked and that fails after a reply is not: it is
  cleared when the handler ends (`AskedFails`, "notice"). The content check of replies only
  stops an event that was not addressed to the bot and leaves the blocked reply as the
  result, which is then sent (`DecorateBlocks`, "blocked").
* `AgentLoop`: a model that has streamed and reports an empty output is asked again.
  After a tool has returned `None` the watcher of the stop signal has left while
  calls go on, and a run that ends so has not run its done hook. An executor that yields
  nothing or twice unpairs the history, which is why `agent_loop` takes executors that
  answer once (`MinResults`, `MaxResults`). A result whose contents are all of kinds that are
  not read (audio, resource links) leaves its call without an answer even so: `PairedHistory` excepts just
  these (`unread`), though the chat APIs do not.
* `Truncator`: a cut in the middle of the tool steps of a question puts back the
  oldest user message and not the latest.
* `ChatRuns`: `Cleanup` empties the queues of the subscribers, so a page that has not
  read the tail of a finished answer is not shown it. A run that is cancelled in
  its last flush stays in `chat_runs`, where `chat_service.py:735` lists "resumable
  runs", and its streams send heartbeats for ever (`late`). A run started during the
  deletion loses its queues and waits for ever (`Stranded`). When the pipeline fails it sends no
  "end", so the run waits and its streams send heartbeats until the session is deleted
  (`HeartbeatsOnly`).
* `McpServers`: a tool call that reconnects after the cleanup of its client has begun
  makes a connection that nobody closes (`revived`). A late pop of the entry, by the
  end of the boot or of a start, takes that of another client (`robbed`). A second
  waiter of `_reconnect_lock` reconnects again.
* `SessionWaiter`: of two waiters in one session the end of one makes the other deaf
  (`crossed`), and a message that is in a handler when a filter leaves the list
  passes the next filter by, also that of a waiter that is not `crossed`: `LiveWaiterIsFound`
  is about a message that arrives. With default filters a message triggers a waiter once for each entry
  of its session in `FILTERS`.

## Fairness

* `SessionLock`: a woken or cancelled waiter runs (the event loop runs what is
  ready) and the body of the lock ends. Nobody has to ask for the lock.
* `FollowUp`: the head of the ready queue runs, and the I/O of an event that has
  arrived ends. Messages need not arrive.
* `RateLimit`: time goes on, and who is granted the lock or whose sleep is over
  runs.
* `AgentLoop`: a step of the runner is taken when one is possible, a model that is
  asked answers, fails or ends its stream in the end (requests have timeouts; a
  stream of chunks is not endless), the watcher polls and an interrupted wait
  returns. A tool need not ever return.
* `ChatRuns`: the tasks run on, the database and the pipeline answer or fail in the
  end, pages read what they are sent, a deletion that has begun goes on. Nobody
  has to start, resume, leave or delete.
* `McpServers`: tasks run on, timeouts expire and closing a connection ends. A
  server need not ever connect, list its tools or answer.
* `SessionWaiter`: timers expire, tasks run on, plugins' handlers return or raise.

`Pipeline` and `Truncator` are checked for safety only.

## Proofs

Every safety invariant and action property of the passing runs is a theorem of the
specification, for every value of the constants that satisfies the module's named
assumptions, and so are the two refinements. Each inductive invariant was first checked by
TLC as an invariant of the module's run. The proofs have one lemma per action or group of
actions, and one per operator they keep needing (a deque that loses a member, a queue that
is a range of revisions, the order state after a turn).

**`SessionLock_proofs`**, for any finite set of tasks and any sessions, loops and lock
objects. `IInv` (`Inductive`) adds to the properties that the deque of a lock holds its
queued tasks once each (`WaitersMatchPC`), that only the head is woken and the
lock stays free until it runs (`WokenIsHead`), and that one task is inside per lock
object (`OneInside`). Exclusion per object becomes exclusion per session (`Exclusive`) through
`EntryIsStable`, and that one needs `NoLeak` (`LeakFree`): an entry is only dropped when its
count is one, that is, by its last user. What leaving the table and leaving the deque
have in common is in `Leaving` and `LeavingDeque`. `Stable` and `WakeupKept` are about
`EntryIsStable` and `NoLostWakeup`, parts of `IInv` that no run lists.
`IsKeyedMutex` is the refinement: `Acquire` is `KEnter` or `KJoin`, `Resume` is `KGrant`,
`Release` is `KLeave`, `Cancel` is `KGiveUp`, `Unwind` changes nothing. The tasks ahead of a
waiter are those before it in the deque that are not cancelled, so the proof is about
what leaving and appending do to the order of a deque (`DropBefore`, `AppendBefore`); the abstract
module speaks of sets and of who is ahead because a filtered sequence is
defined by recursion, which the prover cannot follow.

**`FollowUp_proofs`**, for any finite set of messages, any senders and any failing runs.
`TaskInv` is about the event loop: the ready queue holds each task once, and only when
what it waits for has come about; who holds the lock is in its body; a ticket is in one
runner's list. `OrderInv` adds the order state: its numbers and statuses fit (`Good`), no
two captures share a slot (`OwnSlots`), a capture that is neither consumed nor done keeps
its slot in the current state (`SlotOK`). The last needs `Window`: between the moment the
agent consumes a message and the moment `process` of that message marks its slot, another
task might find the order state empty and drop it. It does not, because the consumed
capture is before the run that consumed it in the first-in first-out ready queue, and that
run keeps its runner registered. From it follow `TypeCorrect`, `ResumesInOrder` and the
refinement `IsFollowUpQueue`: a capture is `QCapture`, going past the turn is `QServe`,
the end of `process` is `QFinish`, marking a consumed slot is `QAbsorb`, any other step
changes nothing. `TurnNotLost` says that no wake-up is lost and needs more: `TurnInv` adds
that the slots of the order state have no gaps and the one whose turn it is is unhandled
(`Tight`), that every unhandled slot belongs to a message still in `process` (`Owned`),
and that who waits is on the condition while it is not its turn, or was notified
(`TurnOK`). A step either leaves the turn and the condition as they are or schedules all
that wait (`TurnKept`), which is what `notify_all` under the condition's lock gives. So a
message that waits unnotified always has an earlier one that holds the turn and whose end
will notify it; in particular no two wait for each other. `TicketHasRunner` says the same of runs that fail and of runs that do not; its
invariant is `HeldInv`: a runner with tickets has not reached `done()`, so it is in its run,
about to resolve them, or was abandoned, and an open ticket is in some runner's list.

**`RateLimit_proofs`**, for any number of messages, limit, window, slack and bounds:

* `TypeCorrect` and `Ordered`, from the inductive `OrderInv`: the lock's queue holds the
  queued messages in arrival order (`QueueInOrder`), who stalls holds the lock
  (`HolderStalls`), and all before a message that stalls or has passed have passed
  (`OlderPassed`), which says more than `InOrder` about the stalled.
* `Bounded`, from `IInv`. The deque does not say when messages passed: one that queued
  for the lock is recorded with the time it arrived. So the invariant gives each
  timestamp a message (`Logged`), such that those that passed in the last window all
  have one (`Covers`), and a timestamp that is older than its pass comes after one
  that is not (`Guarded`); `popleft` stops at that one, so pruning loses no pass that
  still counts (`PruneLogged`). When a queued message gets the lock, the guard is there
  because the message that released the lock recorded the present time and the clock
  has not moved since (`JustPassed`): here the proof uses that `Tick` waits for what
  is ready to run. The deque is shorter than the limit when a message passes, and
  what it covers is no more than its length (`CoverBound`).

**`Pipeline_proofs`**, for any events, sessions and number of replies:

* `RegistryIsExact`, with `UniqueSession = FALSE` (without the assumption
  it does not hold, see above), from the inductive `RegistryInv`: the
  session of an event never changes and only `Start`, `Finish` and `Fail` touch the
  registry.
* `StoppedNeverProcessed`, from the inductive `FrameInv`: all frames but the last
  are of stages that are generators, in increasing order. A step moves the stack in
  one of a few ways (`StackMoves`); the stage before ProcessStage has no yield, so
  ProcessStage is only reached by a return of that stage, which looks at the flag.
* `TypeCorrect`, `RepliesGoOut` and `ResentIsCaught`, from `ReplyInv`, which adds to
  `FrameInv` what the place of an event's frames says of its result: a reply that waits
  to be sent is the result, and the frames stand right before the stages that send it
  (`MadeOK`); a stopped event that was not caught has no suspended generator (`StopOK`); a
  reply that was sent is still the result only where no stage can send again, unless
  the event was caught (`SentOK`). Hooks, handlers and tools may do anything to the
  result that its methods allow, so the invariant speaks of the result as the stage that
  runs them leaves it (`Settled`, `NoneMade`).

**`AgentLoop_proofs`**, for any numbers of models, attempts, steps, calls and results.
`ControlInv` says where a run can be, that the hook has run only when the run is over or
has its final answer (`Hooked`), and that all models up to the one that is asked have
been tried (`Asked`); `TypeCorrect`, `HookRunsOnce` and `AllAreTried` follow from it. `HistoryIsPaired` is for
`MinResults = MaxResults = 1`, the executors that give one result; for others it is false
(see above). Its invariant adds `BlocksInOrder`: the answers of the step under way belong to
its first calls, in order, one to each whose result was read and none to the others. Wherever a step ends, finished, interrupted or in an
error, what it appends to the history is such a block or a single message, and a paired
history followed by either is paired.

The same module is about `Truncator`, as the messages of a run and of the conversation it
belongs to are one list; here for any numbers of turns to keep and to drop, of calls and
of messages. `ContextInv` (`Sound`) says that a conversation is in order (`Increasing`),
that each tool step is whole (`Blocks`), that the first message that is no system message
is the user's (`Leads`) and that nothing is kept that was never spoken (`Bounded`). Every
truncation is a cut: it keeps the system messages and a suffix of the rest, with or
without the first user message in between (`Without`). A suffix begins inside a tool step
at worst, so what `FixMessages` removes is exactly the answers at its head: a message is
judged by its neighbours, and those differ from the sound conversation's only there
(`FixRemoves`, `FixKeeps`). That `FixMessages`, a recursive function, has the values its
definition says is shown by a least counterexample (`FixedExists`, `FixIs`). The message
that is put back comes before all that is kept (`UserIsFirst`), hence `IsChronological`
and `UserComesFirst` with `PairingIsKept`, which holds for any series of cuts.

**`ChatRuns_proofs`**, for any runs, pages, payloads and queue bounds. `ChatInv` has the tasks
and tables (`Listed`, `Cancels`, `FlushOK`) and the pages: the queue of a subscriber is exactly
the revisions after the one it has read, and what it shows plus the content among those
is the answer so far (`UpToDate`); a page that is no subscriber any more finds the end in
its queue (`Told`). `LacksNothing`, `Gone`, `Exact` and `TypeCorrect` follow, the last two with `StoredOK`
(until a deletion begins the history is the answer without its pending pieces) and `QueuesOK`.

**`McpServers_proofs`**, for any clients, connections and calls (`McpAssumption`; a client is
not a call). `Entry`: while no pop or cleanup has hit another client's entry (`robbed`), the client whose
lifecycle task is under way is the one of the entry, so there is one. `Dialling`: an outcome
that is waited for is that of the client's current connection. `Known`: the client knows
every live connection, as the current one or as one to be closed, and its cleanup
waits for all of them. `RegistryHolds`, `NoneStrays` and `TypeCorrect` follow.

**`SessionWaiter_proofs`**, for any waiters, messages, sessions, filters and keys.
`TableInv`: the tables name only waiters that wait, two that wait and share something are
marked, and one that is not marked is in both tables; removing the first equal entry
of `FILTERS` takes another's only if they share the filter. `LineInv`: the line of a lock
holds once each of the messages that trigger its waiter, and only the first may run.
`Found`, `Serial` and `TypeCorrect` follow.

Not proved, only model-checked:

* the liveness properties (`EveryWaiterServed`, `EveryMessageSettles`, `EveryMessagePasses`,
  `StopEndsRun`, `EndsUnlessHung`, `EveryAnswerIsSent`, `EveryStreamEnds`, `EveryRequestEnds`,
  `EverythingEnds`): the prover handles neither fairness nor `ENABLED`.

No theorem is about the properties of the violated runs: they do not hold.

## Not modelled

The reason for each component is in `PROJECT.json`. Within the modelled ones:
the contents of prompts, replies and histories; streaming replies, segmenting and
text-to-speech; filters, permissions and wake prefixes; the generator finalised by
the garbage collector after a `break` (in `FollowUp` a run may be closed at any
later time); a rate-limit strategy that is neither of the two; `run_live_agent`,
hand-offs and background tools; token counting and summaries; the other users of
the web chat queues, and the done callback of their listeners; the transports of
the mcp library; the length of a waiter's keep.

## Plan

Done: `SessionLock`, `FollowUp`, `RateLimit`, `Pipeline`, `AgentLoop`,
`Truncator`, `ChatRuns`, `McpServers`, `SessionWaiter`, and the proofs above. Next, most
important first:

1. Proofs: theorems for the modules below, with their invariants written to be
   inductive.
2. `History`: the save of a run (`internal.py:402`) against `/reset` and `/new`.
3. `Cron`: `_run_job` against update, delete and shutdown. `Platforms`: reload,
   terminate, expiry.
4. Composition of `Pipeline` with `AgentLoop`'s stop flag; lifecycle; providers.

New modules bring one passing run each; runs of one module are kept together in
one instance where its size allows.

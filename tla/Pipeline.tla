------------------------------ MODULE Pipeline ------------------------------
(***************************************************************************)
(* astrbot/core/pipeline/scheduler.py: the stages of STAGES_ORDER run on an *)
(* event as an onion of generators, with what the stages do to the event's *)
(* result and to its stop flag, and core/utils/active_event_registry.py,   *)
(* through which one event stops the others of its session.                *)
(*                                                                         *)
(* `stack` is the recursion of _process_stages: a frame per invocation,    *)
(* with the stage it is at and the point inside the stage.  A frame that   *)
(* is not the last one is a generator suspended at its `yield`.            *)
(*                                                                         *)
(* Plugins (handlers, tools and hooks) may do to the event's result what   *)
(* its methods allow: PluginSets, PluginStops.  Streamed replies, the      *)
(* contents of replies and continue_event(), which nothing but a unit test *)
(* calls, are left out; request_agent_stop_all, which only sets a flag for *)
(* the agent, is RequestStop of AgentLoop.                                 *)
(***************************************************************************)
EXTENDS Integers, Sequences, FiniteSets, SequencesExt

CONSTANTS Event,         \* messages
          Umo,           \* unified_msg_origin values
          RawUmo,        \* [Event -> Umo]: as the platform sends it
          OwnUmo,        \* [Event -> Umo]: with build_unique_session_id applied
          UniqueSession, \* platform_settings.unique_session
          MaxReplies     \* bound: results set per event

ASSUME UmoAssumption == RawUmo \in [Event -> Umo] /\ OwnUmo \in [Event -> Umo]
ASSUME UniqueAssumption == UniqueSession \in BOOLEAN
ASSUME ReplyAssumption == MaxReplies \in Nat

STAGES_ORDER == <<"waking", "whitelist", "status", "rate", "safety",
                  "preprocess", "process", "decorate", "respond">>

Reply == 1 .. MaxReplies
None  == 0    \* _result is None
Bare  == -1   \* a result with an empty chain, as stop_event() makes it
Block == -2   \* the notice of the content safety stage

VARIABLES status,    \* of execute(): "new", "running", "done"
          stack,     \* the frames of _process_stages
          umo,       \* unified_msg_origin
          active,    \* ActiveEventRegistry._events
          forced,    \* _force_stopped
          result,    \* _result
          stopType,  \* the result's type is STOP
          awake,     \* is_at_or_wake_command
          hasSent,   \* _has_send_oper
          reply,     \* history: what became of each reply
          failed,    \* history: a stage raised
          caught     \* history: stopped while one of its generators was suspended

vars == <<status, stack, umo, active, forced, result, stopType, awake, hasSent, reply, failed, caught>>

\* "asked", "askedBack", "askedOn": the agent runs for a handler that yielded a
\* ProviderRequest, before its first yield, suspended at one, after one.
Point == {"enter", "blocked", "hooks", "handlers", "raised", "asked", "askedBack", "askedOn",
          "agent", "agentBack", "send"}
Frame == [st : 1 .. Len(STAGES_ORDER), pt : Point]

\* A reply is set by a plugin or is the notice of a failed agent; it is made
\* when the pipeline is given it to send; what becomes of it then.
Fate == {"unused", "set", "notice", "made", "dropped", "blocked", "sent", "resent"}

TypeOK == /\ status \in [Event -> {"new", "running", "done"}]
          /\ stack \in [Event -> Seq(Frame)]
          /\ umo \in [Event -> Umo]
          /\ active \in [Umo -> SUBSET Event]
          /\ forced \in [Event -> BOOLEAN]
          /\ result \in [Event -> Reply \cup {None, Bare, Block}]
          /\ stopType \in [Event -> BOOLEAN]
          /\ awake \in [Event -> BOOLEAN]
          /\ hasSent \in [Event -> BOOLEAN]
          /\ reply \in [Event -> [Reply -> Fate]]
          /\ failed \in [Event -> BOOLEAN]
          /\ caught \in [Event -> BOOLEAN]

Init == /\ status = [e \in Event |-> "new"]
        /\ stack = [e \in Event |-> <<>>]
        /\ umo = RawUmo
        /\ active = [u \in Umo |-> {}]
        /\ forced = [e \in Event |-> FALSE]
        /\ result = [e \in Event |-> None]
        /\ stopType = [e \in Event |-> FALSE]
        /\ awake = [e \in Event |-> FALSE]
        /\ hasSent = [e \in Event |-> FALSE]
        /\ reply = [e \in Event |-> [r \in Reply |-> "unused"]]
        /\ failed = [e \in Event |-> FALSE]
        /\ caught = [e \in Event |-> FALSE]

---------------------------------------------------------------------------
\* The event.  A step reads the flags it leaves behind: is_stopped() is asked
\* after a stage, so the operators below speak of primed variables.

is_stopped(e) == forced[e] \/ (result[e] # None /\ stopType[e])

\* stop_event() on the events of S; `r` and `t` are the results and types before.
StopEvents(S, r, t) ==
  /\ forced' = [e \in Event |-> forced[e] \/ e \in S]
  /\ result' = [e \in Event |-> IF e \in S /\ r[e] = None THEN Bare ELSE r[e]]
  /\ stopType' = [e \in Event |-> t[e] \/ e \in S]

SetResult(e, r, stop) == /\ result' = [result EXCEPT ![e] = r]
                         /\ stopType' = [stopType EXCEPT ![e] = stop]
                         /\ UNCHANGED forced

ClearResult(e) == SetResult(e, None, FALSE)

KeepResult == UNCHANGED <<forced, result, stopType>>

---------------------------------------------------------------------------
\* The scheduler

At(e, stage) == stack[e] # <<>> /\ STAGES_ORDER[Last(stack[e]).st] = stage
AtPoint(e, stage, pt) == At(e, stage) /\ Last(stack[e]).pt = pt

Replace(s, f) == Append(Front(s), f)
Enter(i) == [st |-> i, pt |-> "enter"]

\* The for loop goes on to the stage after the one at the end of s.
NextStage(s) == Replace(s, Enter(Last(s).st + 1))

\* The for loop of the last frame is over: back in the generator that yielded,
\* which is dropped at its yield if the event is stopped.  The `break` leaves
\* only the `async for`: the outer loop goes on to the next stage.
Return(s, stopped) == CASE Len(s) = 1 -> <<>>
                        [] Len(s) > 1 /\ stopped -> NextStage(Front(s))
                        [] Len(s) > 1 /\ ~stopped -> Front(s)

\* Mutant: a stopped event goes on to the next stage.
PlainDoneUnchecked(e) ==
  stack' = [stack EXCEPT ![e] = IF Last(@).st = Len(STAGES_ORDER) THEN Return(@, is_stopped(e)') ELSE NextStage(@)]

\* A stage without a yield returns.
PlainDone(e) ==
  stack' = [stack EXCEPT ![e] = IF is_stopped(e)' \/ Last(@).st = Len(STAGES_ORDER)
                                THEN Return(@, is_stopped(e)')
                                ELSE NextStage(@)]

\* Mutant: the for loop ends with its generator.
ExhaustedReturns(e) == stack' = [stack EXCEPT ![e] = Return(@, is_stopped(e)')]

\* A generator ends: the for loop goes on, stopped or not.
Exhausted(e) == stack' = [stack EXCEPT ![e] = NextStage(@)]

\* A generator yields, to be resumed at pt.
Yield(e, pt) ==
  stack' = [stack EXCEPT ![e] =
              IF is_stopped(e)' THEN NextStage(@)
              ELSE Append(Replace(@, [Last(@) EXCEPT !.pt = pt]), Enter(Last(@).st + 1))]

GoTo(e, pt) == stack' = [stack EXCEPT ![e] = Replace(@, [Last(@) EXCEPT !.pt = pt])]

---------------------------------------------------------------------------
\* execute()

\* dispatch() made a task of execute(): register, and into the first stage.
Start(e) ==
  /\ status[e] = "new"
  /\ status' = [status EXCEPT ![e] = "running"]
  /\ active' = [active EXCEPT ![umo[e]] = @ \cup {e}]
  /\ stack' = [stack EXCEPT ![e] = <<Enter(1)>>]
  /\ KeepResult
  /\ UNCHANGED <<umo, awake, hasSent, reply, failed>>

\* The finally clause; unregister() looks the event up by its session of now.
Finish(e) ==
  /\ status[e] = "running"
  /\ stack[e] = <<>>
  /\ status' = [status EXCEPT ![e] = "done"]
  /\ active' = [active EXCEPT ![umo[e]] = @ \ {e}]
  /\ KeepResult
  /\ UNCHANGED <<stack, umo, awake, hasSent, reply, failed>>

\* Mutant: the event stays in the registry.
FailUnnoticed(e) ==
  /\ stack[e] # <<>>
  /\ stack' = [stack EXCEPT ![e] = <<>>]
  /\ failed' = [failed EXCEPT ![e] = TRUE]
  /\ status' = [status EXCEPT ![e] = "done"]
  /\ KeepResult
  /\ UNCHANGED <<umo, active, awake, hasSent, reply>>

\* A stage raises: every frame is left, no suspended generator is resumed.
Fail(e) ==
  /\ stack[e] # <<>>
  /\ stack' = [stack EXCEPT ![e] = <<>>]
  /\ failed' = [failed EXCEPT ![e] = TRUE]
  /\ KeepResult
  /\ UNCHANGED <<status, umo, active, awake, hasSent, reply>>

---------------------------------------------------------------------------
\* The stages

MayStop(e) == KeepResult \/ StopEvents({e}, result, stopType)

Waking(e) ==
  /\ At(e, "waking")
  /\ umo' = IF UniqueSession THEN [umo EXCEPT ![e] = OwnUmo[e]] ELSE umo
  /\ \E w \in BOOLEAN : awake' = [awake EXCEPT ![e] = w]
  /\ MayStop(e)
  /\ PlainDone(e)
  /\ UNCHANGED <<status, active, hasSent, reply, failed>>

\* Whitelist, session status and rate limit let the event through or stop it.
Gate(e) ==
  /\ At(e, "whitelist") \/ At(e, "status") \/ At(e, "rate")
  /\ MayStop(e)
  /\ PlainDone(e)
  /\ UNCHANGED <<status, umo, active, awake, hasSent, reply, failed>>

PreProcess(e) ==
  /\ At(e, "preprocess")
  /\ KeepResult
  /\ PlainDone(e)
  /\ UNCHANGED <<status, umo, active, awake, hasSent, reply, failed>>

SafetyPasses(e) ==
  /\ AtPoint(e, "safety", "enter")
  /\ KeepResult
  /\ Exhausted(e)
  /\ UNCHANGED <<status, umo, active, awake, hasSent, reply, failed>>

\* Not addressed to the bot: stopped without a word.
SafetyBlocksSilently(e) ==
  /\ AtPoint(e, "safety", "enter")
  /\ ~awake[e]
  /\ StopEvents({e}, result, stopType)
  /\ Exhausted(e)
  /\ UNCHANGED <<status, umo, active, awake, hasSent, reply, failed>>

\* Addressed to the bot: the notice is the result, and the generator yields.
SafetyBlocks(e) ==
  /\ AtPoint(e, "safety", "enter")
  /\ awake[e]
  /\ SetResult(e, Block, FALSE)
  /\ Yield(e, "blocked")
  /\ UNCHANGED <<status, umo, active, awake, hasSent, reply, failed>>

\* ... and stops the event when it is resumed.
SafetyBlocked(e) ==
  /\ AtPoint(e, "safety", "blocked")
  /\ StopEvents({e}, result, stopType)
  /\ Exhausted(e)
  /\ UNCHANGED <<status, umo, active, awake, hasSent, reply, failed>>

---------------------------------------------------------------------------
\* ProcessStage: the handlers of plugins, then the agent

\* A reply of a plugin or of the agent, numbered in the order it is set.
Unused(e) == {r \in Reply : reply[e][r] = "unused"}
Fresh(e) == {r \in Unused(e) : \A x \in Unused(e) : r <= x}

NewReply(e, r, fate) == r \in Fresh(e) /\ reply' = [reply EXCEPT ![e][r] = fate]

\* The result goes on to the stages that send it.
HandOn(e) == reply' = [reply EXCEPT ![e] = [r \in Reply |->
               IF r = result[e] /\ @[r] \in {"set", "notice"} THEN "made" ELSE @[r]]]

\* A plugin sets a new result, with or without a chain, clears the result, or
\* sets the type of the one there.
PluginSets(e) ==
  \E r \in {result[e], None, Bare} \cup Fresh(e), stop \in BOOLEAN :
    /\ r = None => ~stop
    /\ SetResult(e, r, stop)
    /\ reply' = [reply EXCEPT ![e] = [q \in Reply |->
                   CASE q = r /\ @[q] = "unused" -> "set"
                     [] q # r /\ q = result[e] -> "dropped"
                     [] OTHER -> @[q]]]

\* The handlers are over: is the agent asked?  The result that counts is the
\* one left behind, so this reads primed variables like the scheduler.
HandlersOver(e) ==
  IF ~hasSent[e] /\ awake[e] /\ (result'[e] = None \/ ~is_stopped(e)')
  THEN GoTo(e, "agent") \/ Exhausted(e)    \* call_llm and the settings may forbid it
  ELSE Exhausted(e)

ProcessEnter(e) ==
  /\ AtPoint(e, "process", "enter")
  /\ KeepResult
  /\ GoTo(e, "handlers") \/ HandlersOver(e)
  /\ UNCHANGED <<status, umo, active, awake, hasSent, reply, failed>>

\* The code of a plugin runs: a handler, or a tool or a hook of the agent.
InPlugin(e) == \E pt \in {"handlers", "asked", "askedOn", "agent"} : AtPoint(e, "process", pt)

PluginSetsResult(e) ==
  /\ InPlugin(e)
  /\ PluginSets(e)
  /\ UNCHANGED <<status, stack, umo, active, awake, hasSent, failed>>

PluginStops(e) ==
  /\ InPlugin(e)
  /\ StopEvents({e}, result, stopType)
  /\ UNCHANGED <<status, stack, umo, active, awake, hasSent, reply, failed>>

\* A plugin sends by itself.
PluginSends(e) ==
  /\ InPlugin(e)
  /\ hasSent' = [hasSent EXCEPT ![e] = TRUE]
  /\ KeepResult
  /\ UNCHANGED <<status, stack, umo, active, awake, reply, failed>>

\* A handler yields, having set a result or not: what is there goes on.
HandlerYields(e) ==
  /\ AtPoint(e, "process", "handlers")
  /\ KeepResult
  /\ HandOn(e)
  /\ Yield(e, "handlers")
  /\ UNCHANGED <<status, umo, active, awake, hasSent, failed>>

\* A handler yields a ProviderRequest: the agent runs while the handler waits.
HandlerAsks(e) ==
  /\ AtPoint(e, "process", "handlers")
  /\ KeepResult
  /\ GoTo(e, "asked")
  /\ UNCHANGED <<status, umo, active, awake, hasSent, reply, failed>>

\* active_event_registry.stop_all(u, exclude=e)
stop_all(u, e) == StopEvents(active[u] \ {e}, result, stopType)

\* The command /reset (/stop and /new with a third-party agent).
HandlerResets(e) ==
  /\ AtPoint(e, "process", "handlers")
  /\ stop_all(umo[e], e)
  /\ UNCHANGED <<status, stack, umo, active, awake, hasSent, reply, failed>>

\* A handler ends: on to the next one, or to the agent.
HandlerEnds(e) ==
  /\ AtPoint(e, "process", "handlers")
  /\ \/ /\ is_stopped(e)
        /\ KeepResult
        /\ HandlersOver(e)
     \/ /\ ~is_stopped(e)
        /\ ClearResult(e)
        /\ GoTo(e, "handlers") \/ HandlersOver(e)
  /\ UNCHANGED <<status, umo, active, awake, hasSent, reply, failed>>

\* A handler raises: the user is told, then the event is stopped.
HandlerRaises(e) ==
  /\ AtPoint(e, "process", "handlers")
  /\ \/ /\ ~is_stopped(e) /\ awake[e]
        /\ \E r \in Reply : NewReply(e, r, "made") /\ SetResult(e, r, FALSE)
        /\ Yield(e, "raised")
     \/ /\ is_stopped(e) \/ ~awake[e]
        /\ StopEvents({e}, result, stopType)
        /\ HandlersOver(e)
        /\ UNCHANGED reply
  /\ UNCHANGED <<status, umo, active, awake, hasSent, failed>>

HandlerRaised(e) ==
  /\ AtPoint(e, "process", "raised")
  /\ StopEvents({e}, [result EXCEPT ![e] = None], [stopType EXCEPT ![e] = FALSE])
  /\ HandlersOver(e)
  /\ UNCHANGED <<status, umo, active, awake, hasSent, reply, failed>>

---------------------------------------------------------------------------
\* The agent

Asked(e) == AtPoint(e, "process", "asked") \/ AtPoint(e, "process", "askedOn")

\* run_agent: set_result, yield, clear_result.
AgentYields(e) ==
  /\ \E r \in Reply : NewReply(e, r, "made") /\ SetResult(e, r, FALSE)
  /\ \/ AtPoint(e, "process", "agent") /\ Yield(e, "agentBack")
     \/ Asked(e) /\ Yield(e, "askedBack")
  /\ UNCHANGED <<status, umo, active, awake, hasSent, failed>>

AgentBack(e) ==
  /\ ClearResult(e)
  /\ \/ AtPoint(e, "process", "agentBack") /\ GoTo(e, "agent")
     \/ AtPoint(e, "process", "askedBack") /\ GoTo(e, "askedOn")
  /\ UNCHANGED <<status, umo, active, awake, hasSent, reply, failed>>

AgentEnds(e) ==
  /\ AtPoint(e, "process", "agent")
  /\ KeepResult
  /\ Exhausted(e)
  /\ UNCHANGED <<status, umo, active, awake, hasSent, reply, failed>>

\* An exception in run_agent: the message about it is the result, without a yield.
AgentFails(e) ==
  /\ AtPoint(e, "process", "agent")
  /\ \E r \in Reply : NewReply(e, r, "made") /\ SetResult(e, r, FALSE)
  /\ Exhausted(e)
  /\ UNCHANGED <<status, umo, active, awake, hasSent, failed>>

\* An agent that a handler asked is over.  ProcessStage yields for one that did
\* not, and the handler goes on.
AskedEnds(e) ==
  /\ KeepResult
  /\ \/ AtPoint(e, "process", "asked") /\ HandOn(e) /\ Yield(e, "handlers")
     \/ AtPoint(e, "process", "askedOn") /\ GoTo(e, "handlers") /\ UNCHANGED reply
  /\ UNCHANGED <<status, umo, active, awake, hasSent, failed>>

AskedFails(e) ==
  /\ \E r \in Reply :
       /\ SetResult(e, r, FALSE)
       /\ \/ AtPoint(e, "process", "asked") /\ NewReply(e, r, "made") /\ Yield(e, "handlers")
          \/ AtPoint(e, "process", "askedOn") /\ NewReply(e, r, "notice") /\ GoTo(e, "handlers")
  /\ UNCHANGED <<status, umo, active, awake, hasSent, failed>>

---------------------------------------------------------------------------
\* ResultDecorateStage and RespondStage

Chained(e) == result[e] \in Reply \cup {Block}
Mark(e, fate) == reply' = [reply EXCEPT ![e] = [r \in Reply |-> IF r = result[e] THEN fate ELSE @[r]]]

\* The hooks before the sending, which do not run for an empty result, and the
\* generator ends: the for loop goes on with what they leave.
Decorate(e) ==
  /\ AtPoint(e, "decorate", "enter") \/ AtPoint(e, "decorate", "hooks")
  /\ \/ KeepResult /\ UNCHANGED reply
     \/ /\ Chained(e) \/ AtPoint(e, "decorate", "hooks")
        /\ PluginSets(e) \/ (StopEvents({e}, result, stopType) /\ UNCHANGED reply)
  /\ Exhausted(e)
  /\ UNCHANGED <<status, umo, active, awake, hasSent, failed>>

\* The content check of the model's replies blocks one: the notice takes its
\* place if the bot was addressed.  The hooks come next, stopped or not.
DecorateBlocks(e) ==
  /\ AtPoint(e, "decorate", "enter")
  /\ result[e] \in Reply
  /\ Mark(e, "blocked")
  /\ \/ awake[e] /\ SetResult(e, Block, FALSE) /\ Yield(e, "blocked")
     \/ ~awake[e] /\ StopEvents({e}, result, stopType) /\ GoTo(e, "hooks")
  /\ UNCHANGED <<status, umo, active, awake, hasSent, failed>>

DecorateBlocked(e) ==
  /\ AtPoint(e, "decorate", "blocked")
  /\ StopEvents({e}, result, stopType)
  /\ GoTo(e, "hooks")
  /\ UNCHANGED <<status, umo, active, awake, hasSent, reply, failed>>

NothingToSend(e) ==
  /\ AtPoint(e, "respond", "enter")
  /\ result[e] = None
  /\ KeepResult
  /\ PlainDone(e)
  /\ UNCHANGED <<status, umo, active, awake, hasSent, reply, failed>>

\* event.send() is under way; an empty chain is not sent.
Send(e) ==
  /\ AtPoint(e, "respond", "enter")
  /\ result[e] # None
  /\ hasSent' = [hasSent EXCEPT ![e] = @ \/ Chained(e)]
  /\ reply' = [reply EXCEPT ![e] = [r \in Reply |->
                 IF r = result[e] THEN (IF @[r] \in {"sent", "resent"} THEN "resent" ELSE "sent") ELSE @[r]]]
  /\ GoTo(e, "send")
  /\ KeepResult
  /\ UNCHANGED <<status, umo, active, awake, failed>>

\* Mutant: the result is not cleared.
SentUncleared(e) ==
  /\ AtPoint(e, "respond", "send")
  /\ \/ KeepResult /\ UNCHANGED reply
     \/ StopEvents({e}, result, stopType) /\ UNCHANGED reply
  /\ PlainDone(e)
  /\ UNCHANGED <<status, umo, active, awake, hasSent, failed>>

\* The hooks after the sending.  An event that is stopped when they are over, by
\* one of them or by another event in the meantime, keeps its result.
Sent(e) ==
  /\ AtPoint(e, "respond", "send")
  /\ \/ ~forced[e] /\ ClearResult(e) /\ UNCHANGED reply
     \/ /\ \/ KeepResult /\ UNCHANGED reply
           \/ StopEvents({e}, result, stopType) /\ UNCHANGED reply
           \/ PluginSets(e)
        /\ is_stopped(e)'
  /\ PlainDone(e)
  /\ UNCHANGED <<status, umo, active, awake, hasSent, failed>>

---------------------------------------------------------------------------
Step(e) == \/ Finish(e) \/ Waking(e) \/ Gate(e) \/ PreProcess(e)
           \/ SafetyPasses(e) \/ SafetyBlocksSilently(e) \/ SafetyBlocks(e) \/ SafetyBlocked(e)
           \/ ProcessEnter(e) \/ PluginSetsResult(e) \/ PluginStops(e) \/ PluginSends(e)
           \/ HandlerYields(e) \/ HandlerAsks(e) \/ HandlerEnds(e) \/ HandlerRaises(e) \/ HandlerRaised(e)
           \/ AgentYields(e) \/ AgentBack(e) \/ AgentEnds(e) \/ AgentFails(e) \/ AskedEnds(e) \/ AskedFails(e)
           \/ Decorate(e) \/ DecorateBlocks(e) \/ DecorateBlocked(e)
           \/ NothingToSend(e) \/ Send(e) \/ Sent(e)

\* A generator of ProcessStage or ResultDecorateStage is suspended at its yield.
Suspended(e) == \E i \in 1 .. Len(stack[e]) - 1 : STAGES_ORDER[stack[e][i].st] \in {"process", "decorate"}

Catch == caught' = [e \in Event |-> caught[e] \/ (Suspended(e) /\ is_stopped(e)')]

Next == /\ \E e \in Event : Start(e) \/ Step(e) \/ Fail(e) \/ HandlerResets(e)
        /\ Catch

Spec == Init /\ [][Next]_vars

---------------------------------------------------------------------------
\* The registry holds exactly the running events, each under the session it has
\* now, so that /reset and /stop reach all of them and nothing that is over.
RegistryExact == \A u \in Umo : active[u] = {e \in Event : status[e] = "running" /\ umo[e] = u}

\* A stopped event never reaches the handlers or the agent, though a generator
\* that ends lets the for loop go on without looking at the stop flag: between
\* content safety and ProcessStage it is a stage without a yield that looks.
StoppedIsNotProcessed ==
  [][\A e \in Event : (~At(e, "process") /\ At(e, "process")') => ~is_stopped(e)']_vars

\* When the pipeline has run to its end, every reply that was handed to it was
\* sent, unless a hook or the content check withdrew it: also the one of a handler
\* that stops the event, the notice of a raising handler and of a failed agent,
\* which are sent only because the for loop goes on.  A reply that is set and not
\* followed by a yield is not handed on: the next handler or the end of this one
\* may take its place, also that of the notice of an agent that a handler asked.
RepliesDelivered ==
  \A e \in Event : (status[e] = "done" /\ ~failed[e]) => \A r \in Reply : reply[e][r] # "made"

\* A reply goes out a second time only for an event that was stopped while a
\* generator of its was suspended: the outer loop then goes on with the result
\* that RespondStage left.  A reply handed over by a handler that stops the event,
\* by stop_event() or by the type of the result, is sent once.
ResentOnlyIfCaught == \A e \in Event, r \in Reply : reply[e][r] = "resent" => caught[e]

\* content_safety_check/stage.py:35: a message that was blocked is not processed.
BlockedIsNotProcessed ==
  \A e \in Event : AtPoint(e, "process", "agent") =>
    \A i \in DOMAIN stack[e] : STAGES_ORDER[stack[e][i].st] # "safety"
=============================================================================

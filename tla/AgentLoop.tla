----------------------------- MODULE AgentLoop -----------------------------
(***************************************************************************)
(* One run of the tool-loop agent: run_agent (astr_agent_run_util.py)      *)
(* drives ToolLoopAgentRunner.step (agent/runners/) until the runner is    *)
(* done or the step budget is spent.  A step asks the chat models, the     *)
(* current one and then its fallbacks, executes the tool calls of the      *)
(* answer one after the other, and appends the exchange to the messages.   *)
(*                                                                         *)
(* Abstractions.  A message is its role with the number of calls of an     *)
(* assistant or the call a tool message answers; texts, images (with the   *)
(* message that shows them to the model), token counts and notices are     *)
(* left out, compaction is module Truncator and follow-up messages are     *)
(* module FollowUp.  What a model streams is one flag per attempt.  The    *)
(* third-party runners are not modelled.                                   *)
(***************************************************************************)
EXTENDS Naturals, Sequences

CONSTANTS
    NProviders,   \* the chat model (1) and its fallbacks (2 .. NProviders)
    MaxStep,      \* run_agent's max_step
    Attempts,     \* EMPTY_OUTPUT_RETRY_ATTEMPTS
    MaxCalls,     \* bound: tool calls in one answer
    MinResults,   \* an executor gives at least so many results ...
    MaxResults,   \* ... and at most so many
    SkillsLike    \* tool_schema_mode = "skills_like"

ASSUME AgentAssumption ==
    /\ NProviders \in Nat \ {0} /\ MaxStep \in Nat /\ Attempts \in Nat \ {0}
    /\ MaxCalls \in Nat \ {0} /\ MinResults \in Nat /\ MaxResults \in Nat
    /\ MinResults <= MaxResults /\ SkillsLike \in BOOLEAN

VARIABLES
    pc,         \* where the run is suspended
    state,      \* AgentState
    stepIdx,    \* run_agent's step_idx
    toolsOn,    \* req.func_tool is not None
    provider,   \* self.provider
    cand,       \* position in the candidates of this step
    attempt,    \* number of the attempt on this candidate
    streamed,   \* has_stream_output of this attempt
    tried,      \* the models this run has asked
    resp,       \* the answer to be judged: "none", "text", "calls", "err"
    calls,      \* how many tool calls it holds
    call,       \* the call being executed
    given,      \* results its executor has given
    blocks,     \* tool_call_result_blocks: the call each one answers
    unread,     \* history: calls with a result that held nothing to append
    messages,   \* run_context.messages
    wanted,     \* the event's agent_stop_requested, or the event is stopped
    abort,      \* self._abort_signal
    aborted,    \* self._aborted
    hooks       \* how often on_agent_done has run

llmVars  == <<provider, cand, attempt, streamed, tried>>
toolVars == <<calls, call, given, blocks, unread>>
stopVars == <<wanted, abort, aborted>>
vars == <<pc, state, stepIdx, toolsOn, llmVars, resp, toolVars, messages,
          stopVars, hooks>>

\* An assistant message notes, as history, which of its n calls went unread.
User            == [role |-> "user", calls |-> 0, answers |-> 0, unread |-> {}]
Assistant(n, u) == [role |-> "assistant", calls |-> n, answers |-> 0, unread |-> u]
Spoken          == Assistant(0, {})
ToolMsg(c)      == [role |-> "tool", calls |-> 0, answers |-> c, unread |-> {}]

Done == state \in {"DONE", "ERROR"}

\* Every response the runner yields passes run_agent's check of the event.
Yielded == abort' = (abort \/ wanted)

Init ==
    /\ pc = "loop" /\ state = "IDLE" /\ stepIdx = 0 /\ toolsOn = TRUE
    /\ provider = 1 /\ cand = 1 /\ attempt = 1 /\ streamed = FALSE /\ tried = {}
    /\ resp = "none" /\ calls = 0 /\ call = 0 /\ given = 0 /\ blocks = <<>>
    /\ unread = {}
    /\ messages = <<User>>
    /\ wanted = FALSE /\ abort = FALSE /\ aborted = FALSE /\ hooks = 0

----------------------------------------------------------------------------
(* run_agent *)

Resumable == ~Done /\ stepIdx <= MaxStep

BeginStep ==
    /\ pc = "loop" /\ Resumable
    /\ stepIdx' = stepIdx + 1
    /\ IF stepIdx' = MaxStep + 1
         THEN toolsOn' = FALSE /\ messages' = Append(messages, User)
         ELSE UNCHANGED <<toolsOn, messages>>
    /\ state' = "RUNNING"
    /\ cand' = 1 /\ attempt' = 1 /\ streamed' = FALSE
    /\ tried' = tried \cup {provider}
    /\ resp' = "none" /\ pc' = "llm"
    /\ UNCHANGED <<provider, toolVars, stopVars, hooks>>

EndRun ==
    /\ pc = "loop" /\ ~Resumable
    /\ pc' = "ended"
    /\ UNCHANGED <<state, stepIdx, toolsOn, llmVars, resp, toolVars, messages,
                   stopVars, hooks>>

\* The user asks for a stop, or another handler stops the event.
RequestStop ==
    /\ pc # "ended" /\ ~wanted
    /\ wanted' = TRUE
    /\ UNCHANGED <<pc, state, stepIdx, toolsOn, llmVars, resp, toolVars,
                   messages, abort, aborted, hooks>>

\* _watch_agent_stop_signal, a task that lives as long as a step.
WatchStop ==
    /\ pc \notin {"loop", "ended"} /\ ~Done
    /\ wanted /\ ~abort
    /\ abort' = TRUE
    /\ UNCHANGED <<pc, state, stepIdx, toolsOn, llmVars, resp, toolVars,
                   messages, wanted, aborted, hooks>>

\* An exception leaves step() or the handling of what it yielded (a send that
\* fails, a re-query that raises): run_agent reports it and returns.
Answered == \E i \in DOMAIN blocks : blocks[i] = call

Fail ==
    /\ pc \in {"judge", "requery", "call"} \/ (pc = "told" /\ Answered)
    /\ hooks' = hooks + 1 /\ pc' = "ended"
    /\ UNCHANGED <<state, stepIdx, toolsOn, llmVars, resp, toolVars, messages,
                   stopVars>>

----------------------------------------------------------------------------
(* _iter_llm_responses_with_fallback *)

\* Mutant: the finaliser records the answer with its tool calls.
AbortWithCalls(hasText) ==
    /\ aborted' = TRUE /\ state' = "DONE"
    /\ messages' = IF hasText THEN Append(messages, Assistant(calls, unread)) ELSE messages
    /\ hooks' = hooks + 1 /\ wanted' = FALSE /\ pc' = "ended"

\* Mutant: the finaliser skips the on_agent_done hook.
AbortSilently(hasText) ==
    /\ aborted' = TRUE /\ state' = "DONE"
    /\ messages' = IF hasText THEN Append(messages, Spoken) ELSE messages
    /\ wanted' = FALSE /\ pc' = "ended" /\ hooks' = hooks

\* _finalize_aborted_step, and run_agent's return on "aborted".
Abort(hasText) ==
    /\ aborted' = TRUE /\ state' = "DONE"
    /\ messages' = IF hasText THEN Append(messages, Spoken) ELSE messages
    /\ hooks' = hooks + 1 /\ wanted' = FALSE /\ pc' = "ended"

Judged(r) == resp' = r /\ pc' = "judge" /\ Yielded

\* Mutant: the candidate before the last is taken for the last one.
NextCandidateShort ==
    \/ /\ cand + 1 < NProviders
       /\ cand' = cand + 1 /\ provider' = cand + 1
       /\ attempt' = 1 /\ streamed' = FALSE
       /\ tried' = tried \cup {cand + 1}
       /\ UNCHANGED <<pc, resp, abort>>
    \/ /\ cand + 1 >= NProviders
       /\ Judged("err")
       /\ UNCHANGED llmVars

\* The candidate is given up: the next one, or an error when it was the last.
NextCandidate ==
    \/ /\ cand < NProviders
       /\ cand' = cand + 1 /\ provider' = cand + 1
       /\ attempt' = 1 /\ streamed' = FALSE
       /\ tried' = tried \cup {cand + 1}
       /\ UNCHANGED <<pc, resp, abort>>
    \/ /\ cand = NProviders
       /\ Judged("err")
       /\ UNCHANGED llmVars

\* After a chunk a stop ends the step with the interruption message.
Chunk ==
    /\ pc = "llm"
    /\ streamed' = TRUE
    /\ Yielded
    /\ IF abort' THEN Abort(TRUE)
                 ELSE UNCHANGED <<pc, state, messages, wanted, aborted, hooks>>
    /\ UNCHANGED <<stepIdx, toolsOn, provider, cand, attempt, tried, resp,
                   toolVars>>

Answer ==
    /\ pc = "llm"
    /\ \E n \in 0 .. MaxCalls :
         /\ calls' = n
         /\ Judged(IF n = 0 THEN "text" ELSE "calls")
    /\ UNCHANGED <<state, stepIdx, toolsOn, llmVars, call, given, blocks, unread,
                   messages, wanted, aborted, hooks>>

\* The model answers with an error: passed on once it has streamed.
ErrorAnswer ==
    /\ pc = "llm"
    /\ IF streamed THEN Judged("err") /\ UNCHANGED llmVars ELSE NextCandidate
    /\ UNCHANGED <<state, stepIdx, toolsOn, toolVars, messages, wanted,
                   aborted, hooks>>

\* Mutant: one attempt too many.
EmptyOutputOverrun ==
    /\ pc = "llm"
    /\ \/ /\ attempt <= Attempts
          /\ attempt' = attempt + 1 /\ streamed' = FALSE
          /\ UNCHANGED <<pc, resp, abort, provider, cand, tried>>
       \/ attempt > Attempts /\ NextCandidate
    /\ UNCHANGED <<state, stepIdx, toolsOn, toolVars, messages, wanted,
                   aborted, hooks>>

\* Mutant: the attempts are not counted.
EmptyOutputForever ==
    /\ pc = "llm"
    /\ streamed' = FALSE
    /\ UNCHANGED <<pc, resp, abort, provider, cand, attempt, tried>>
    /\ UNCHANGED <<state, stepIdx, toolsOn, toolVars, messages, wanted,
                   aborted, hooks>>

\* EmptyModelOutputError: tenacity retries whatever has been streamed.
EmptyOutput ==
    /\ pc = "llm"
    /\ \/ /\ attempt < Attempts
          /\ attempt' = attempt + 1 /\ streamed' = FALSE
          /\ UNCHANGED <<pc, resp, abort, provider, cand, tried>>
       \/ attempt = Attempts /\ NextCandidate
    /\ UNCHANGED <<state, stepIdx, toolsOn, toolVars, messages, wanted,
                   aborted, hooks>>

\* Any other exception of the request.
RequestRaises ==
    /\ pc = "llm"
    /\ NextCandidate
    /\ UNCHANGED <<state, stepIdx, toolsOn, toolVars, messages, wanted,
                   aborted, hooks>>

\* The response ends without a final message.
StreamEnds ==
    /\ pc = "llm"
    /\ \/ /\ ~streamed /\ NextCandidate
          /\ UNCHANGED <<state, messages, wanted, aborted, hooks>>
       \/ /\ streamed /\ abort /\ Abort(FALSE)
          /\ UNCHANGED <<llmVars, resp, abort>>
       \/ /\ streamed /\ ~abort /\ pc' = "loop"
          /\ UNCHANGED <<llmVars, resp, abort, state, messages, wanted,
                         aborted, hooks>>
    /\ UNCHANGED <<stepIdx, toolsOn, toolVars>>

----------------------------------------------------------------------------
(* The rest of step(): the answer is judged *)

JudgeAbort ==
    /\ pc = "judge" /\ abort
    /\ \E hasText \in BOOLEAN : Abort(hasText)
    /\ UNCHANGED <<stepIdx, toolsOn, llmVars, resp, toolVars, abort>>

JudgeError ==
    /\ pc = "judge" /\ ~abort /\ resp = "err"
    /\ state' = "ERROR" /\ pc' = "loop"
    /\ Yielded
    /\ UNCHANGED <<stepIdx, toolsOn, llmVars, resp, toolVars, messages,
                   wanted, aborted, hooks>>

\* _complete_with_assistant_response, then the "llm_result" is yielded.
Complete ==
    /\ state' = "DONE" /\ hooks' = hooks + 1 /\ pc' = "loop"
    /\ messages' = Append(messages, Spoken)

JudgeText ==
    /\ pc = "judge" /\ ~abort /\ resp = "text"
    /\ Complete
    /\ Yielded
    /\ UNCHANGED <<stepIdx, toolsOn, llmVars, resp, toolVars, wanted, aborted>>

JudgeCalls ==
    /\ pc = "judge" /\ ~abort /\ resp = "calls"
    /\ pc' = IF SkillsLike THEN "requery" ELSE "call"
    /\ call' = 1 /\ given' = 0 /\ blocks' = <<>> /\ unread' = {}
    /\ Yielded
    /\ UNCHANGED <<state, stepIdx, toolsOn, llmVars, resp, calls, messages,
                   wanted, aborted, hooks>>

\* _resolve_tool_exec: the second answer replaces the calls, or completes.
Requery ==
    /\ pc = "requery"
    /\ \/ /\ \E n \in 1 .. MaxCalls : calls' = n
          /\ pc' = "call"
          /\ UNCHANGED <<state, messages, hooks, abort>>
       \/ Complete /\ Yielded /\ UNCHANGED calls
    /\ UNCHANGED <<stepIdx, toolsOn, llmVars, resp, call, given, blocks,
                   unread, wanted, aborted>>

----------------------------------------------------------------------------
(* _handle_function_tools and _iter_tool_executor_results *)

\* The next call, or the end of the step: the assistant message with the calls
\* and the blocks are appended together.
Advance(bs) ==
    \/ /\ call < calls
       /\ call' = call + 1 /\ given' = 0 /\ blocks' = bs /\ pc' = "call"
       /\ UNCHANGED messages
    \/ /\ call = calls
       /\ messages' = Append(messages, Assistant(calls, unread))
                        \o [i \in DOMAIN bs |-> ToolMsg(bs[i])]
       /\ blocks' = <<>> /\ pc' = "loop"
       /\ UNCHANGED <<call, given>>

\* No such tool, or no tools at all: the call is answered with an error.
UnknownTool ==
    /\ pc = "call"
    /\ Advance(Append(blocks, call))
    /\ Yielded
    /\ UNCHANGED <<state, stepIdx, toolsOn, llmVars, resp, calls, unread, wanted,
                   aborted, hooks>>

StartTool ==
    /\ pc = "call" /\ toolsOn
    /\ pc' = "poll"
    /\ Yielded
    /\ UNCHANGED <<state, stepIdx, toolsOn, llmVars, resp, toolVars, messages,
                   wanted, aborted, hooks>>

\* A stop is noticed before the next result is read ...
Poll ==
    /\ pc = "poll"
    /\ \/ /\ abort /\ \E hasText \in BOOLEAN : Abort(hasText)
       \/ /\ ~abort /\ pc' = "exec"
          /\ UNCHANGED <<state, messages, wanted, aborted, hooks>>
    /\ UNCHANGED <<stepIdx, toolsOn, llmVars, resp, toolVars, abort>>

\* Mutant: the wait for a result does not listen to the abort signal.
InterruptNever == FALSE /\ UNCHANGED vars

\* ... or while it is awaited; a result that is ready is then dropped.
Interrupt ==
    /\ pc = "exec" /\ abort
    /\ \E hasText \in BOOLEAN : Abort(hasText)
    /\ UNCHANGED <<stepIdx, toolsOn, llmVars, resp, toolVars, abort>>

\* A result, or None: the tool has spoken to the user itself and the run is
\* done, though the calls that are left still execute.  Nothing is appended for
\* a result whose contents are all of kinds that are not read: audio, links.
ToolResult ==
    /\ pc = "exec" /\ given < MaxResults
    /\ given' = given + 1 /\ pc' = "poll"
    /\ \/ blocks' = Append(blocks, call) /\ state' \in {state, "DONE"} /\ UNCHANGED unread
       \/ unread' = unread \cup {call} /\ UNCHANGED <<state, blocks>>
    /\ UNCHANGED <<stepIdx, toolsOn, llmVars, resp, calls, call, messages,
                   stopVars, hooks>>

\* The tool raises, by itself (a timeout included) or on being cancelled.
ToolRaises ==
    /\ pc = "exec" /\ given < MaxResults
    /\ given' = given + 1 /\ blocks' = Append(blocks, call) /\ pc' = "told"
    /\ UNCHANGED <<state, stepIdx, toolsOn, llmVars, resp, calls, call, unread,
                   messages, stopVars, hooks>>

ToolEnds ==
    /\ pc = "exec" /\ given >= MinResults
    /\ pc' = "told"
    /\ UNCHANGED <<state, stepIdx, toolsOn, llmVars, resp, toolVars, messages,
                   stopVars, hooks>>

\* The answer, if there is one, is shown ("tool_call_result") and the next call
\* comes.
NextCall ==
    /\ pc = "told"
    /\ Advance(blocks)
    /\ abort' = (abort \/ (wanted /\ Answered))
    /\ UNCHANGED <<state, stepIdx, toolsOn, llmVars, resp, calls, unread, wanted,
                   aborted, hooks>>

----------------------------------------------------------------------------
Model == \/ Chunk \/ Answer \/ ErrorAnswer \/ EmptyOutput \/ RequestRaises
         \/ StreamEnds

Runner == \/ JudgeAbort \/ JudgeError \/ JudgeText \/ JudgeCalls \/ Requery
          \/ UnknownTool \/ StartTool \/ Poll \/ Interrupt \/ NextCall
          \/ BeginStep \/ EndRun \/ WatchStop

Tool == ToolResult \/ ToolRaises \/ ToolEnds

Next == Model \/ Runner \/ Tool \/ RequestStop \/ Fail

Spec == Init /\ [][Next]_vars

\* The event loop runs what is ready and a model's answer comes to an end; a
\* tool may run for ever.
FairSpec == Spec /\ WF_vars(Runner)
                 /\ WF_vars(Answer \/ ErrorAnswer \/ EmptyOutput
                              \/ RequestRaises \/ StreamEnds)
                 /\ WF_vars(WatchStop) /\ WF_vars(Interrupt)

----------------------------------------------------------------------------
(* Properties *)

\* Every variable stays in its range.
TypeOK ==
    /\ pc \in {"loop", "llm", "judge", "requery", "call", "poll", "exec",
               "told", "ended"}
    /\ state \in {"IDLE", "RUNNING", "DONE", "ERROR"}
    /\ stepIdx \in 0 .. MaxStep + 1
    /\ provider \in 1 .. NProviders /\ cand \in 1 .. NProviders
    /\ attempt \in 1 .. Attempts /\ tried \subseteq 1 .. NProviders
    /\ resp \in {"none", "text", "calls", "err"}
    /\ calls \in 0 .. MaxCalls /\ call \in 0 .. MaxCalls
    /\ given \in 0 .. MaxResults
    /\ \A i \in DOMAIN blocks : blocks[i] \in 1 .. MaxCalls
    /\ unread \subseteq 1 .. MaxCalls
    /\ \A i \in DOMAIN messages :
         messages[i] \in [role : {"user", "assistant", "tool"},
                          calls : 0 .. MaxCalls, answers : 0 .. MaxCalls,
                          unread : SUBSET (1 .. MaxCalls)]
    /\ {toolsOn, streamed, wanted, abort, aborted} \subseteq BOOLEAN
    /\ hooks \in Nat

\* The messages right after the assistant message i, as far as i + k, are tool's.
Answers(i, k) == \A j \in 1 .. k : i + j \in DOMAIN messages /\ messages[i + j].role = "tool"

\* Which answers there may be, whichever way a step ends: right after an
\* assistant message with calls come answers to them, each to one call, in the
\* order of the calls, and there is no other tool message.  Every call is
\* answered, one that failed included, but for one whose result held nothing
\* that is read; an interrupted step leaves neither calls nor
\* answers.  The chat APIs demand this pairing of the next request.  It needs
\* executors that give exactly one result, MinResults = MaxResults = 1.
PairedHistory ==
    \A i \in DOMAIN messages :
      /\ messages[i].role = "assistant" =>
           \A c \in 1 .. messages[i].calls :
             c \in messages[i].unread \/ \E k \in 1 .. c : Answers(i, k) /\ messages[i + k] = ToolMsg(c)
      /\ messages[i].role = "tool" =>
           \E k \in 1 .. messages[i].answers :
             /\ i - k \in DOMAIN messages /\ messages[i - k].role = "assistant" /\ Answers(i - k, k)
             /\ messages[i].answers \in 1 .. messages[i - k].calls \ messages[i - k].unread
             /\ \A j \in 1 .. k - 1 : messages[i - j].answers < messages[i].answers

\* A run reports an error of the models only when it has asked every one of
\* them, unless the last one had begun to stream: a step that starts from a
\* fallback skips the first model only because an earlier step gave it up.
ErrorAfterAllTried ==
    state = "ERROR" /\ ~streamed => tried = 1 .. NProviders

\* on_agent_done runs at most once per run, and it has run when a run ends with
\* a final answer or was aborted, even if the stop and the answer cross.
HookOnce ==
    /\ hooks <= 1
    /\ pc = "ended" /\ (aborted \/ (state = "DONE" /\ resp = "text")) => hooks = 1

\* Once the runner has been told to stop the run ends, even while a tool never
\* returns: a pending result is abandoned, calls that are left are not executed.
StopEndsRun == abort ~> pc = "ended"

\* Every run comes to an end by itself unless a tool never returns: failing
\* models, empty answers and unknown tools use up attempts, candidates and steps.
EndsUnlessHung == <>(pc = "ended" \/ [](pc = "exec"))

=============================================================================

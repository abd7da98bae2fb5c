-------------------------- MODULE AgentLoop_proofs --------------------------
(***************************************************************************)
(* Proofs about the agent run and its messages.                            *)
(*                                                                         *)
(* About AgentLoop, for any numbers of models, steps, attempts and calls:  *)
(* its types, that on_agent_done runs once, that an error is reported only *)
(* when all models were asked, and, for executors that give one result,    *)
(* that the answers in the history belong to calls, in their order, and    *)
(* that only calls whose result could not be read have none.               *)
(*                                                                         *)
(* About Truncator, for any turns to keep and to drop: that a conversation *)
(* so paired stays paired, in order and led by a user under any cuts.      *)
(***************************************************************************)
EXTENDS AgentLoop, Truncator, SequenceTheorems, WellFoundedInduction, TLAPS

AgentMessage == [role : {"user", "assistant", "tool"}, calls : 0 .. MaxCalls, answers : 0 .. MaxCalls,
                 unread : SUBSET (1 .. MaxCalls)]

\* The models that are asked.
LlmOK == /\ provider \in 1 .. NProviders /\ cand \in 1 .. NProviders
         /\ attempt \in 1 .. Attempts
         /\ \A i \in tried : i \in 1 .. NProviders

FlagsOK == /\ toolsOn \in BOOLEAN /\ streamed \in BOOLEAN /\ wanted \in BOOLEAN
           /\ abort \in BOOLEAN /\ aborted \in BOOLEAN

\* The other variables that hold no sequence.
ControlOK ==
    /\ pc \in {"loop", "llm", "judge", "requery", "call", "poll", "exec", "told", "ended"}
    /\ state \in {"IDLE", "RUNNING", "DONE", "ERROR"}
    /\ stepIdx \in 0 .. MaxStep + 1
    /\ resp \in {"none", "text", "calls", "err"}
    /\ calls \in 0 .. MaxCalls /\ call \in 0 .. MaxCalls /\ given \in 0 .. MaxResults
    /\ unread \in SUBSET (1 .. MaxCalls)
    /\ hooks \in Nat

\* Where the run is and what is being judged belong together.
Executing == pc \in {"requery", "call", "poll", "exec", "told"}
Stage ==
    /\ Executing => resp = "calls" /\ call \in 1 .. calls
    /\ pc = "requery" => call = 1
    /\ resp = "calls" => calls >= 1
    /\ pc = "llm" => resp = "none"
    /\ pc \in {"llm", "judge", "requery"} => state = "RUNNING"
    /\ state = "ERROR" => resp = "err"

\* The hook has run only when the run is over, or has its final answer.
Hooked ==
    /\ hooks <= 1
    /\ hooks = 1 => pc = "ended" \/ (pc = "loop" /\ state = "DONE")
    /\ aborted => pc = "ended" /\ hooks = 1
    /\ state = "DONE" /\ resp = "text" => hooks = 1

\* A step asks its candidates in order; it starts from a fallback only after
\* the first model was asked.
Asked ==
    /\ stepIdx = 0 => provider = 1 /\ pc \in {"loop", "ended"} /\ resp = "none"
    /\ stepIdx > 0 => 1 .. cand \subseteq tried
    /\ resp = "err" /\ ~streamed => cand = NProviders

ControlInv == LlmOK /\ FlagsOK /\ ControlOK /\ Stage /\ Hooked /\ Asked

\* What the blocks of the step answer, and the history, as sequences.
SeqInv == messages \in Seq(AgentMessage) /\ blocks \in Seq(1 .. MaxCalls)

\* With executors that give one result, the blocks answer the calls so far in
\* order, but for those whose result was not read.
Heard == call - 1 + given
InOrder(bs, n) ==
    /\ Len(bs) <= n
    /\ \A i \in 1 .. Len(bs) : i <= bs[i] /\ bs[i] <= n /\ bs[i] \notin unread
    /\ \A i, j \in 1 .. Len(bs) : i < j => bs[i] < bs[j]
    /\ \A c \in 1 .. n : c \in unread \/ \E i \in 1 .. Len(bs) : bs[i] = c
BlocksInOrder ==
    Executing =>
      /\ InOrder(blocks, Heard)
      /\ \A c \in unread : c <= Heard
      /\ pc \in {"requery", "call"} => given = 0
      /\ pc = "told" => given = 1

IInv == ControlInv /\ SeqInv /\ BlocksInOrder

----------------------------------------------------------------------------
(* Where the run is *)

LEMMA InitControl == Init => ControlInv
<1> SUFFICES ASSUME Init PROVE ControlInv
  OBVIOUS
<1>1. ControlOK
  BY AgentAssumption DEF Init, ControlOK
<1>2. Stage /\ Hooked /\ Asked
  BY DEF Init, Stage, Hooked, Asked, Executing
<1>3. LlmOK
  BY AgentAssumption DEF Init, LlmOK
<1>4. FlagsOK
  BY Zenon DEF Init, FlagsOK
<1>5. QED BY <1>1, <1>2, <1>3, <1>4 DEF ControlInv

LEMMA ControlStep == ControlInv /\ [Next]_vars => ControlInv'
<1> SUFFICES ASSUME ControlInv, [Next]_vars PROVE ControlInv'
  OBVIOUS
<1> USE AgentAssumption DEF ControlInv, Executing, Done, Resumable, llmVars, toolVars, stopVars,
        Yielded, Judged
<1>1. CASE BeginStep
  <2>1. FlagsOK'
    BY <1>1, Zenon DEF BeginStep, FlagsOK
  <2>2. LlmOK' /\ ControlOK' /\ Stage' /\ Hooked' /\ Asked'
    BY <1>1 DEF BeginStep, LlmOK, ControlOK, Stage, Hooked, Asked
  <2>3. QED BY <2>1, <2>2
<1>2. CASE EndRun
  <2>1. FlagsOK'
    BY <1>2, Zenon DEF EndRun, FlagsOK
  <2>2. LlmOK' /\ ControlOK' /\ Stage' /\ Hooked' /\ Asked'
    BY <1>2 DEF EndRun, LlmOK, ControlOK, Stage, Hooked, Asked
  <2>3. QED BY <2>1, <2>2
<1>3. CASE RequestStop
  <2>1. FlagsOK'
    BY <1>3, Zenon DEF RequestStop, FlagsOK
  <2>2. LlmOK' /\ ControlOK' /\ Stage' /\ Hooked' /\ Asked'
    BY <1>3 DEF RequestStop, LlmOK, ControlOK, Stage, Hooked, Asked
  <2>3. QED BY <2>1, <2>2
<1>4. CASE WatchStop
  <2>1. FlagsOK'
    BY <1>4, Zenon DEF WatchStop, FlagsOK
  <2>2. LlmOK' /\ ControlOK' /\ Stage' /\ Hooked' /\ Asked'
    BY <1>4 DEF WatchStop, LlmOK, ControlOK, Stage, Hooked, Asked
  <2>3. QED BY <2>1, <2>2
<1>5. CASE Fail
  <2>1. FlagsOK'
    BY <1>5, Zenon DEF Fail, FlagsOK
  <2>2. LlmOK' /\ ControlOK' /\ Stage' /\ Hooked' /\ Asked'
    BY <1>5 DEF Fail, LlmOK, ControlOK, Stage, Hooked, Asked
  <2>3. QED BY <2>1, <2>2
<1>6. CASE Chunk
  <2>1. FlagsOK'
    BY <1>6, Zenon DEF Chunk, Abort, FlagsOK
  <2>2. LlmOK' /\ ControlOK' /\ Stage' /\ Hooked' /\ Asked'
    BY <1>6 DEF Chunk, Abort, LlmOK, ControlOK, Stage, Hooked, Asked
  <2>3. QED BY <2>1, <2>2
<1>7. CASE Answer
  <2>1. FlagsOK'
    BY <1>7, Zenon DEF Answer, FlagsOK
  <2>2. LlmOK' /\ ControlOK' /\ Stage' /\ Hooked' /\ Asked'
    BY <1>7 DEF Answer, LlmOK, ControlOK, Stage, Hooked, Asked
  <2>3. QED BY <2>1, <2>2
<1>8. CASE ErrorAnswer
  <2>1. FlagsOK'
    BY <1>8, Zenon DEF ErrorAnswer, NextCandidate, FlagsOK
  <2>2. LlmOK' /\ ControlOK' /\ Stage' /\ Hooked' /\ Asked'
    BY <1>8 DEF ErrorAnswer, NextCandidate, LlmOK, ControlOK, Stage, Hooked, Asked
  <2>3. QED BY <2>1, <2>2
<1>9. CASE EmptyOutput
  <2>1. FlagsOK'
    BY <1>9, Zenon DEF EmptyOutput, NextCandidate, FlagsOK
  <2>2. LlmOK' /\ ControlOK' /\ Stage' /\ Hooked' /\ Asked'
    BY <1>9 DEF EmptyOutput, NextCandidate, LlmOK, ControlOK, Stage, Hooked, Asked
  <2>3. QED BY <2>1, <2>2
<1>10. CASE RequestRaises
  <2>1. FlagsOK'
    BY <1>10, Zenon DEF RequestRaises, NextCandidate, FlagsOK
  <2>2. LlmOK' /\ ControlOK' /\ Stage' /\ Hooked' /\ Asked'
    BY <1>10 DEF RequestRaises, NextCandidate, LlmOK, ControlOK, Stage, Hooked, Asked
  <2>3. QED BY <2>1, <2>2
<1>11. CASE StreamEnds
  <2>1. FlagsOK'
    BY <1>11, Zenon DEF StreamEnds, NextCandidate, Abort, FlagsOK
  <2>2. LlmOK' /\ ControlOK' /\ Stage' /\ Hooked' /\ Asked'
    BY <1>11 DEF StreamEnds, NextCandidate, Abort, LlmOK, ControlOK, Stage, Hooked, Asked
  <2>3. QED BY <2>1, <2>2
<1>12. CASE JudgeAbort
  <2>1. FlagsOK'
    BY <1>12, Zenon DEF JudgeAbort, Abort, FlagsOK
  <2>2. LlmOK' /\ ControlOK' /\ Stage' /\ Hooked' /\ Asked'
    BY <1>12 DEF JudgeAbort, Abort, LlmOK, ControlOK, Stage, Hooked, Asked
  <2>3. QED BY <2>1, <2>2
<1>13. CASE JudgeError
  <2>1. FlagsOK'
    BY <1>13, Zenon DEF JudgeError, FlagsOK
  <2>2. LlmOK' /\ ControlOK' /\ Stage' /\ Hooked' /\ Asked'
    BY <1>13 DEF JudgeError, LlmOK, ControlOK, Stage, Hooked, Asked
  <2>3. QED BY <2>1, <2>2
<1>14. CASE JudgeText
  <2>1. FlagsOK'
    BY <1>14, Zenon DEF JudgeText, Complete, FlagsOK
  <2>2. LlmOK' /\ ControlOK' /\ Stage' /\ Hooked' /\ Asked'
    BY <1>14 DEF JudgeText, Complete, LlmOK, ControlOK, Stage, Hooked, Asked
  <2>3. QED BY <2>1, <2>2
<1>15. CASE JudgeCalls
  <2>1. FlagsOK'
    BY <1>15, Zenon DEF JudgeCalls, FlagsOK
  <2>2. LlmOK' /\ ControlOK' /\ Stage' /\ Hooked' /\ Asked'
    BY <1>15 DEF JudgeCalls, LlmOK, ControlOK, Stage, Hooked, Asked
  <2>3. QED BY <2>1, <2>2
<1>16. CASE Requery
  <2>1. FlagsOK'
    BY <1>16, Zenon DEF Requery, Complete, FlagsOK
  <2>2. LlmOK' /\ ControlOK' /\ Stage' /\ Hooked' /\ Asked'
    BY <1>16 DEF Requery, Complete, LlmOK, ControlOK, Stage, Hooked, Asked
  <2>3. QED BY <2>1, <2>2
<1>17. CASE UnknownTool
  <2>1. FlagsOK'
    BY <1>17, Zenon DEF UnknownTool, Advance, FlagsOK
  <2>2. LlmOK' /\ ControlOK' /\ Stage' /\ Hooked' /\ Asked'
    BY <1>17 DEF UnknownTool, Advance, LlmOK, ControlOK, Stage, Hooked, Asked
  <2>3. QED BY <2>1, <2>2
<1>18. CASE NextCall
  <2>1. FlagsOK'
    BY <1>18, Zenon DEF NextCall, Advance, FlagsOK
  <2>2. LlmOK' /\ ControlOK' /\ Stage' /\ Hooked' /\ Asked'
    BY <1>18 DEF NextCall, Advance, LlmOK, ControlOK, Stage, Hooked, Asked
  <2>3. QED BY <2>1, <2>2
<1>19. CASE StartTool
  <2>1. FlagsOK'
    BY <1>19, Zenon DEF StartTool, FlagsOK
  <2>2. LlmOK' /\ ControlOK' /\ Stage' /\ Hooked' /\ Asked'
    BY <1>19 DEF StartTool, LlmOK, ControlOK, Stage, Hooked, Asked
  <2>3. QED BY <2>1, <2>2
<1>20. CASE Poll
  <2>1. FlagsOK'
    BY <1>20, Zenon DEF Poll, Abort, FlagsOK
  <2>2. LlmOK' /\ ControlOK' /\ Stage' /\ Hooked' /\ Asked'
    BY <1>20 DEF Poll, Abort, LlmOK, ControlOK, Stage, Hooked, Asked
  <2>3. QED BY <2>1, <2>2
<1>21. CASE Interrupt
  <2>1. FlagsOK'
    BY <1>21, Zenon DEF Interrupt, Abort, FlagsOK
  <2>2. LlmOK' /\ ControlOK' /\ Stage' /\ Hooked' /\ Asked'
    BY <1>21 DEF Interrupt, Abort, LlmOK, ControlOK, Stage, Hooked, Asked
  <2>3. QED BY <2>1, <2>2
<1>22. CASE ToolResult
  <2>1. FlagsOK'
    BY <1>22, Zenon DEF ToolResult, FlagsOK
  <2>2. LlmOK' /\ ControlOK' /\ Stage' /\ Hooked' /\ Asked'
    <3>1. unread' \in SUBSET (1 .. MaxCalls)
      <4>1. call \in 1 .. MaxCalls
        BY <1>22 DEF ToolResult, ControlOK, Stage
      <4>2. QED BY <1>22, <4>1 DEF ToolResult, ControlOK
    <3>2. QED BY <1>22, <3>1 DEF ToolResult, LlmOK, ControlOK, Stage, Hooked, Asked
  <2>3. QED BY <2>1, <2>2
<1>23. CASE ToolRaises
  <2>1. FlagsOK'
    BY <1>23, Zenon DEF ToolRaises, FlagsOK
  <2>2. LlmOK' /\ ControlOK' /\ Stage' /\ Hooked' /\ Asked'
    BY <1>23 DEF ToolRaises, LlmOK, ControlOK, Stage, Hooked, Asked
  <2>3. QED BY <2>1, <2>2
<1>24. CASE ToolEnds
  <2>1. FlagsOK'
    BY <1>24, Zenon DEF ToolEnds, FlagsOK
  <2>2. LlmOK' /\ ControlOK' /\ Stage' /\ Hooked' /\ Asked'
    BY <1>24 DEF ToolEnds, LlmOK, ControlOK, Stage, Hooked, Asked
  <2>3. QED BY <2>1, <2>2
<1>25. CASE UNCHANGED vars
  BY <1>25 DEF vars, FlagsOK, LlmOK, ControlOK, Stage, Hooked, Asked
<1>26. QED
  BY <1>1, <1>2, <1>3, <1>4, <1>5, <1>6, <1>7, <1>8, <1>9, <1>10, <1>11, <1>12, <1>13, <1>14, <1>15, <1>16, <1>17, <1>18, <1>19, <1>20, <1>21, <1>22, <1>23, <1>24, <1>25
  DEF Next, Model, Runner, Tool

----------------------------------------------------------------------------
(* The history *)

\* The blocks of a step that is at its last call.
LastBlocks(bs) == /\ call = calls
                  /\ \/ pc = "call" /\ bs = Append(blocks, call)
                     \/ pc = "told" /\ bs = blocks

Exchange(n, bs) == Append(messages, Assistant(n, unread)) \o [i \in DOMAIN bs |-> ToolMsg(bs[i])]

\* The ways in which a step of the run moves the history ...
LEMMA HistoryMoves ==
  ASSUME [Next]_vars
  PROVE  \/ messages' \in {messages, Append(messages, User), Append(messages, Spoken)}
         \/ \E bs : LastBlocks(bs) /\ messages' = Exchange(calls, bs)
<1> USE DEF Abort, LastBlocks, Exchange, NextCandidate, Judged
<1>1. CASE BeginStep
  BY <1>1 DEF BeginStep
<1>2. CASE EndRun \/ RequestStop \/ WatchStop \/ Fail
  BY <1>2 DEF EndRun, RequestStop, WatchStop, Fail
<1>3. CASE Chunk
  BY <1>3 DEF Chunk
<1>4. CASE Answer \/ ErrorAnswer \/ EmptyOutput \/ RequestRaises
  BY <1>4 DEF Answer, ErrorAnswer, EmptyOutput, RequestRaises
<1>5. CASE StreamEnds
  BY <1>5 DEF StreamEnds
<1>6. CASE JudgeAbort \/ JudgeError \/ JudgeCalls
  BY <1>6 DEF JudgeAbort, JudgeError, JudgeCalls
<1>7. CASE JudgeText \/ Requery
  BY <1>7 DEF JudgeText, Requery, Complete
<1>8. CASE UnknownTool
  BY <1>8 DEF UnknownTool, Advance
<1>9. CASE NextCall
  BY <1>9 DEF NextCall, Advance
<1>10. CASE StartTool \/ ToolResult \/ ToolRaises \/ ToolEnds
  BY <1>10 DEF StartTool, ToolResult, ToolRaises, ToolEnds
<1>11. CASE Poll \/ Interrupt
  BY <1>11 DEF Poll, Interrupt
<1>12. CASE UNCHANGED vars
  BY <1>12 DEF vars
<1>13. QED
  BY <1>1, <1>2, <1>3, <1>4, <1>5, <1>6, <1>7, <1>8, <1>9, <1>10, <1>11, <1>12
  DEF Next, Model, Runner, Tool

\* ... and the blocks.
LEMMA BlockMoves ==
  ASSUME [Next]_vars
  PROVE  \/ blocks' \in {blocks, <<>>}
         \/ pc \in {"call", "exec"} /\ blocks' = Append(blocks, call)
<1> USE DEF toolVars, NextCandidate, Judged
<1>1. CASE BeginStep \/ EndRun \/ RequestStop \/ WatchStop \/ Fail
  BY <1>1 DEF BeginStep, EndRun, RequestStop, WatchStop, Fail
<1>2. CASE Chunk \/ Answer \/ ErrorAnswer \/ EmptyOutput \/ RequestRaises \/ StreamEnds
  BY <1>2 DEF Chunk, Answer, ErrorAnswer, EmptyOutput, RequestRaises, StreamEnds
<1>3. CASE JudgeAbort \/ JudgeError \/ JudgeText \/ JudgeCalls \/ Requery
  BY <1>3 DEF JudgeAbort, JudgeError, JudgeText, JudgeCalls, Requery
<1>4. CASE UnknownTool
  BY <1>4 DEF UnknownTool, Advance
<1>5. CASE NextCall
  BY <1>5 DEF NextCall, Advance
<1>6. CASE StartTool \/ ToolResult \/ ToolRaises \/ ToolEnds \/ Poll \/ Interrupt
  BY <1>6 DEF StartTool, ToolResult, ToolRaises, ToolEnds, Poll, Interrupt
<1>7. CASE UNCHANGED vars
  BY <1>7 DEF vars
<1>8. QED
  BY <1>1, <1>2, <1>3, <1>4, <1>5, <1>6, <1>7 DEF Next, Model, Runner, Tool

\* The exchange of a step, as a sequence.
LEMMA ExchangeFacts ==
  ASSUME ControlInv, SeqInv, NEW bs \in Seq(1 .. MaxCalls), NEW n \in 0 .. MaxCalls
  PROVE  /\ Exchange(n, bs) \in Seq(AgentMessage)
         /\ Len(Exchange(n, bs)) = Len(messages) + 1 + Len(bs)
         /\ \A i \in 1 .. Len(messages) : Exchange(n, bs)[i] = messages[i]
         /\ Exchange(n, bs)[Len(messages) + 1] = Assistant(n, unread)
         /\ \A i \in 1 .. Len(bs) : Exchange(n, bs)[Len(messages) + 1 + i] = ToolMsg(bs[i])
<1> DEFINE a == Append(messages, Assistant(n, unread))
           t == [i \in DOMAIN bs |-> ToolMsg(bs[i])]
<1>1. messages \in Seq(AgentMessage) /\ Len(messages) \in Nat /\ Len(bs) \in Nat
  BY DEF SeqInv
<1>2. Assistant(n, unread) \in AgentMessage
  <2>1. unread \in SUBSET (1 .. MaxCalls) /\ 0 \in 0 .. MaxCalls
    BY AgentAssumption DEF ControlInv, ControlOK
  <2>2. QED BY <2>1 DEF Assistant, AgentMessage
<1>3. /\ a \in Seq(AgentMessage) /\ Len(a) = Len(messages) + 1 /\ a[Len(messages) + 1] = Assistant(n, unread)
      /\ \A i \in 1 .. Len(messages) : a[i] = messages[i]
  BY <1>1, <1>2, AppendProperties
<1>4. \A i \in 1 .. Len(bs) : ToolMsg(bs[i]) \in AgentMessage
  BY AgentAssumption DEF ToolMsg, AgentMessage
<1>5. t \in Seq(AgentMessage) /\ Len(t) = Len(bs) /\ \A i \in 1 .. Len(bs) : t[i] = ToolMsg(bs[i])
  <2>1. DOMAIN bs = 1 .. Len(bs)
    OBVIOUS
  <2>2. t \in [1 .. Len(bs) -> AgentMessage] /\ \A i \in 1 .. Len(bs) : t[i] = ToolMsg(bs[i])
    BY <2>1, <1>4
  <2> HIDE DEF t
  <2>3. QED BY <2>2, <1>1
<1> HIDE DEF a, t
<1>6. /\ a \o t \in Seq(AgentMessage) /\ Len(a \o t) = Len(a) + Len(t)
      /\ \A i \in 1 .. Len(a) + Len(t) : (a \o t)[i] = IF i <= Len(a) THEN a[i] ELSE t[i - Len(a)]
  <2>1. a \in Seq(AgentMessage) /\ t \in Seq(AgentMessage)
    BY <1>3, <1>5
  <2>2. /\ a \o t \in Seq(AgentMessage) /\ Len(a \o t) = Len(a) + Len(t)
        /\ \A i \in 1 .. Len(a) + Len(t) : (a \o t)[i] = IF i <= Len(a) THEN a[i] ELSE t[i - Len(a)]
    BY <2>1, ConcatProperties, Zenon
  <2>3. QED BY <2>2
<1>7. Exchange(n, bs) = a \o t
  BY DEF Exchange, a, t
<1> DEFINE x == a \o t
<1>8. \A i \in 1 .. Len(messages) + 1 : x[i] = a[i]
  BY <1>1, <1>3, <1>5, <1>6
<1>9. \A i \in 1 .. Len(bs) : x[Len(messages) + 1 + i] = t[i]
  BY <1>1, <1>3, <1>5, <1>6
<1>10. Len(messages) + 1 \in 1 .. Len(messages) + 1 /\ \A i \in 1 .. Len(messages) : i \in 1 .. Len(messages) + 1
  BY <1>1
<1> HIDE DEF x
<1>11. /\ x[Len(messages) + 1] = Assistant(n, unread) /\ \A i \in 1 .. Len(messages) : x[i] = messages[i]
       /\ \A i \in 1 .. Len(bs) : x[Len(messages) + 1 + i] = ToolMsg(bs[i])
  BY <1>3, <1>5, <1>8, <1>9, <1>10
<1>12. x \in Seq(AgentMessage) /\ Len(x) = Len(messages) + 1 + Len(bs)
  BY <1>3, <1>5, <1>6 DEF x
<1>13. QED BY <1>7, <1>11, <1>12 DEF x

LEMMA SeqStep == ControlInv /\ SeqInv /\ [Next]_vars => SeqInv'
<1> SUFFICES ASSUME ControlInv, SeqInv, [Next]_vars PROVE SeqInv'
  OBVIOUS
<1>1. messages \in Seq(AgentMessage) /\ blocks \in Seq(1 .. MaxCalls) /\ calls \in 0 .. MaxCalls
  BY DEF SeqInv, ControlInv, ControlOK
<1>2. pc \in {"call", "exec"} => call \in 1 .. MaxCalls
  BY <1>1, AgentAssumption DEF ControlInv, Stage, Executing
<1>3. User \in AgentMessage /\ Spoken \in AgentMessage
  BY AgentAssumption DEF User, Spoken, Assistant, AgentMessage
<1>4. pc \in {"call", "exec"} => Append(blocks, call) \in Seq(1 .. MaxCalls)
  BY <1>1, <1>2, AppendProperties
<1>5. blocks' \in Seq(1 .. MaxCalls)
  BY <1>1, <1>4, BlockMoves, EmptySeq
<1>6. /\ Append(messages, User) \in Seq(AgentMessage)
      /\ Append(messages, Spoken) \in Seq(AgentMessage)
  BY <1>1, <1>3, AppendProperties
<1>7. \A bs : LastBlocks(bs) => Exchange(calls, bs) \in Seq(AgentMessage)
  <2> SUFFICES ASSUME NEW bs, LastBlocks(bs) PROVE Exchange(calls, bs) \in Seq(AgentMessage)
    OBVIOUS
  <2>1. bs \in Seq(1 .. MaxCalls)
    BY <1>1, <1>4 DEF LastBlocks
  <2>2. QED BY <1>1, <2>1, ExchangeFacts
<1>8. messages' \in Seq(AgentMessage)
  BY <1>1, <1>6, <1>7, HistoryMoves
<1>9. QED BY <1>5, <1>8 DEF SeqInv

LEMMA Typed == Spec => [](ControlInv /\ SeqInv)
<1>1. Init => SeqInv
  <2> SUFFICES ASSUME Init PROVE SeqInv
    OBVIOUS
  <2>1. User \in AgentMessage
    BY AgentAssumption DEF User, AgentMessage
  <2>2. <<User>> \in Seq(AgentMessage)
    BY <2>1
  <2>3. QED BY <2>2, EmptySeq DEF Init, SeqInv
<1>2. QED BY <1>1, InitControl, ControlStep, SeqStep, PTL DEF Spec

\* Every variable stays in its range, for any numbers of models, attempts, steps
\* and calls.
THEOREM TypeCorrect == Spec => []TypeOK
<1>1. ControlInv /\ SeqInv => TypeOK
  <2> SUFFICES ASSUME ControlInv, SeqInv PROVE TypeOK
    OBVIOUS
  <2>1. \A i \in DOMAIN messages : messages[i] \in AgentMessage
    BY DEF SeqInv
  <2>2. \A i \in DOMAIN blocks : blocks[i] \in 1 .. MaxCalls
    <3>1. blocks \in Seq(1 .. MaxCalls) /\ DOMAIN blocks = 1 .. Len(blocks)
      BY DEF SeqInv
    <3>2. QED BY <3>1, ElementOfSeq, Zenon
  <2>3. {toolsOn, streamed, wanted, abort, aborted} \subseteq BOOLEAN
    BY Zenon DEF ControlInv, FlagsOK
  <2>4. QED BY <2>1, <2>2, <2>3 DEF TypeOK, AgentMessage, ControlInv, ControlOK, LlmOK
<1>2. QED BY <1>1, Typed, PTL

\* on_agent_done runs at most once, and it has run when the run ends with a final
\* answer or was aborted.
THEOREM HookRunsOnce == Spec => []HookOnce
<1>1. ControlInv => HookOnce
  BY DEF ControlInv, Hooked, HookOnce
<1>2. QED BY <1>1, Typed, PTL

\* An error of the models is reported only when each of them was asked, unless
\* the last had begun to stream.
THEOREM AllAreTried == Spec => []ErrorAfterAllTried
<1>1. ControlInv => ErrorAfterAllTried
  <2> SUFFICES ASSUME ControlInv, state = "ERROR", ~streamed PROVE tried = 1 .. NProviders
    BY DEF ErrorAfterAllTried
  <2>1. resp = "err" /\ cand = NProviders /\ stepIdx # 0
    BY DEF ControlInv, Stage, Asked
  <2>2. 1 .. NProviders \subseteq tried /\ \A i \in tried : i \in 1 .. NProviders
    BY <2>1 DEF ControlInv, Asked, ControlOK, LlmOK
  <2>3. QED BY <2>2
<1>2. QED BY <1>1, Typed, PTL

----------------------------------------------------------------------------
(* Executors that give exactly one result *)

\* The block of a call follows those of the calls before it.
LEMMA NextBlock ==
  ASSUME SeqInv, call \in 1 .. MaxCalls, InOrder(blocks, call - 1),
         \A c \in unread : c <= call - 1
  PROVE  Append(blocks, call) \in Seq(1 .. MaxCalls) /\ InOrder(Append(blocks, call), call)
<1> DEFINE b == Append(blocks, call)
           L == Len(blocks)
<1>1. blocks \in Seq(1 .. MaxCalls) /\ L \in Nat
  BY DEF SeqInv
<1>2. /\ b \in Seq(1 .. MaxCalls) /\ Len(b) = L + 1
      /\ \A i \in 1 .. L : b[i] = blocks[i]
      /\ b[L + 1] = call
  BY <1>1, AppendProperties
<1>3. \A i \in 1 .. L : blocks[i] \in 1 .. MaxCalls
  BY <1>1, ElementOfSeq, Zenon
<1>4. /\ L <= call - 1
      /\ \A i \in 1 .. L : i <= blocks[i] /\ blocks[i] <= call - 1 /\ blocks[i] \notin unread
      /\ \A i, j \in 1 .. L : i < j => blocks[i] < blocks[j]
      /\ \A c \in 1 .. call - 1 : c \in unread \/ \E i \in 1 .. L : blocks[i] = c
  BY DEF InOrder
<1> HIDE DEF b, L
<1>5. call \in Nat /\ call \notin unread
  <2>1. call \in Nat
    BY AgentAssumption
  <2>2. QED BY <2>1
<1>6. \A i \in 1 .. L + 1 : i <= b[i] /\ b[i] <= call /\ b[i] \notin unread
  <2> SUFFICES ASSUME NEW i \in 1 .. L + 1 PROVE i <= b[i] /\ b[i] <= call /\ b[i] \notin unread
    OBVIOUS
  <2>1. CASE i = L + 1
    BY <1>1, <1>2, <1>4, <1>5, <2>1
  <2>2. CASE i # L + 1
    <3>1. i \in 1 .. L
      BY <1>1, <2>2
    <3>2. QED BY <1>2, <1>3, <1>4, <1>5, <3>1
  <2>3. QED BY <2>1, <2>2
<1>7. \A i, j \in 1 .. L + 1 : i < j => b[i] < b[j]
  <2> SUFFICES ASSUME NEW i \in 1 .. L + 1, NEW j \in 1 .. L + 1, i < j PROVE b[i] < b[j]
    OBVIOUS
  <2>1. i \in 1 .. L
    BY <1>1
  <2>2. CASE j = L + 1
    BY <1>2, <1>3, <1>4, <1>5, <2>1, <2>2
  <2>3. CASE j # L + 1
    <3>1. j \in 1 .. L
      BY <1>1, <2>3
    <3>2. QED BY <1>2, <1>4, <2>1, <3>1
  <2>4. QED BY <2>2, <2>3
<1>8. \A c \in 1 .. call : c \in unread \/ \E i \in 1 .. L + 1 : b[i] = c
  <2> SUFFICES ASSUME NEW c \in 1 .. call, c \notin unread PROVE \E i \in 1 .. L + 1 : b[i] = c
    OBVIOUS
  <2>1. CASE c = call
    <3>1. L + 1 \in 1 .. L + 1
      BY <1>1
    <3>2. QED BY <1>2, <2>1, <3>1
  <2>2. CASE c # call
    <3>1. c \in 1 .. call - 1
      BY <1>5, <2>2
    <3>2. PICK i \in 1 .. L : blocks[i] = c
      BY <1>4, <3>1
    <3>3. i \in 1 .. L + 1
      BY <1>1
    <3>4. QED BY <1>2, <3>2, <3>3
  <2>3. QED BY <2>1, <2>2
<1>9. InOrder(b, call)
  BY <1>1, <1>2, <1>4, <1>5, <1>6, <1>7, <1>8 DEF InOrder
<1>10. QED BY <1>2, <1>9 DEF b

\* A call that goes unread leaves no block.
LEMMA UnreadBlock ==
  ASSUME SeqInv, call \in 1 .. MaxCalls, InOrder(blocks, call - 1), unread' = unread \cup {call}
  PROVE  /\ Len(blocks) <= call
         /\ \A i \in 1 .. Len(blocks) : i <= blocks[i] /\ blocks[i] <= call /\ blocks[i] \notin unread'
         /\ \A i, j \in 1 .. Len(blocks) : i < j => blocks[i] < blocks[j]
         /\ \A c \in 1 .. call : c \in unread' \/ \E i \in 1 .. Len(blocks) : blocks[i] = c
<1>1. Len(blocks) \in Nat /\ call \in Nat /\ \A i \in 1 .. Len(blocks) : blocks[i] \in 1 .. MaxCalls
  <2>1. blocks \in Seq(1 .. MaxCalls)
    BY DEF SeqInv
  <2>2. QED BY <2>1, AgentAssumption
<1>2. /\ Len(blocks) <= call - 1
      /\ \A i \in 1 .. Len(blocks) : i <= blocks[i] /\ blocks[i] <= call - 1 /\ blocks[i] \notin unread
      /\ \A i, j \in 1 .. Len(blocks) : i < j => blocks[i] < blocks[j]
      /\ \A c \in 1 .. call - 1 : c \in unread \/ \E i \in 1 .. Len(blocks) : blocks[i] = c
  BY DEF InOrder
<1>3. Len(blocks) <= call
  BY <1>1, <1>2
<1>4. \A i \in 1 .. Len(blocks) : i <= blocks[i] /\ blocks[i] <= call /\ blocks[i] # call
  BY <1>1, <1>2
<1>5. \A c \in 1 .. call : c = call \/ c \in 1 .. call - 1
  BY <1>1
<1>6. QED BY <1>2, <1>3, <1>4, <1>5

LEMMA OrderStep ==
  ASSUME MinResults = 1, MaxResults = 1,
         ControlInv, SeqInv, BlocksInOrder, [Next]_vars
  PROVE  BlocksInOrder'
<1> DEFINE v == <<pc, call, given, blocks, unread>>
<1>1. /\ call \in 0 .. MaxCalls /\ given \in {0, 1} /\ calls \in 0 .. MaxCalls
      /\ Executing => call \in 1 .. calls
      /\ pc = "requery" => call = 1
  BY DEF ControlInv, ControlOK, Stage
<1>2. call \in Int /\ (Executing => call \in 1 .. MaxCalls)
  BY <1>1, AgentAssumption
<1>3. Executing /\ given = 0 => InOrder(blocks, call - 1) /\ \A c \in unread : c <= call - 1
  BY <1>1, <1>2 DEF BlocksInOrder, Heard
<1>4. Executing /\ given = 0 => InOrder(Append(blocks, call), call)
  BY <1>2, <1>3, NextBlock
<1>5. \A c \in unread : c \in 1 .. MaxCalls
  BY DEF ControlInv, ControlOK
<1>6. ASSUME pc' \notin {"requery", "call", "poll", "exec", "told"} PROVE BlocksInOrder'
  BY <1>6 DEF BlocksInOrder, Executing
<1>7. ASSUME UNCHANGED v PROVE BlocksInOrder'
  BY <1>7 DEF BlocksInOrder, Executing, InOrder, Heard
<1>8. CASE BeginStep \/ EndRun \/ Fail
  BY <1>6, <1>8 DEF BeginStep, EndRun, Fail
<1>9. CASE RequestStop \/ WatchStop
  BY <1>7, <1>9 DEF RequestStop, WatchStop, toolVars
<1>10. CASE Chunk \/ Answer \/ ErrorAnswer \/ EmptyOutput \/ RequestRaises \/ StreamEnds
  BY <1>6, <1>10 DEF Chunk, Answer, ErrorAnswer, EmptyOutput, RequestRaises, StreamEnds,
                     Abort, NextCandidate, Judged
<1>11. CASE JudgeAbort \/ JudgeError \/ JudgeText
  BY <1>6, <1>11 DEF JudgeAbort, JudgeError, JudgeText, Abort, Complete
<1>12. CASE JudgeCalls
  <2>1. pc' \in {"requery", "call"} /\ call' = 1 /\ given' = 0 /\ blocks' = <<>> /\ unread' = {}
    BY <1>12 DEF JudgeCalls
  <2>2. QED BY <2>1 DEF BlocksInOrder, Executing, InOrder, Heard
<1>13. CASE Requery
  <2>1. pc = "requery" /\ (pc' = "call" \/ pc' = "loop") /\ UNCHANGED <<call, given, blocks, unread>>
    BY <1>13 DEF Requery, Complete
  <2>2. QED BY <2>1 DEF BlocksInOrder, Executing, InOrder, Heard
<1>14. CASE UnknownTool
  <2>1. /\ unread' = unread
        /\ \/ pc' = "loop"
           \/ pc' = "call" /\ call' = call + 1 /\ given' = 0 /\ blocks' = Append(blocks, call)
    BY <1>14 DEF UnknownTool, Advance
  <2>2. Executing /\ given = 0
    BY <1>14 DEF UnknownTool, Executing, BlocksInOrder
  <2>3. CASE pc' = "loop"
    BY <2>3, <1>6
  <2>4. CASE pc' = "call" /\ call' = call + 1 /\ given' = 0 /\ blocks' = Append(blocks, call)
    <3>1. Heard' = call
      BY <1>2, <2>4 DEF Heard
    <3>2. InOrder(blocks, Heard)'
      BY <1>4, <2>1, <2>2, <2>4, <3>1 DEF InOrder
    <3>3. \A c \in unread' : c <= Heard'
      BY <1>2, <1>3, <1>5, <2>1, <2>2, <3>1
    <3>4. QED BY <2>4, <3>2, <3>3 DEF BlocksInOrder
  <2>5. QED BY <2>1, <2>3, <2>4
<1>15. CASE StartTool
  BY <1>15 DEF StartTool, toolVars, BlocksInOrder, Executing, InOrder, Heard
<1>16. CASE Poll \/ Interrupt
  <2>1. CASE pc' = "ended"
    BY <2>1, <1>6
  <2>2. CASE pc = "poll" /\ pc' = "exec" /\ UNCHANGED toolVars
    BY <2>2 DEF toolVars, BlocksInOrder, Executing, InOrder, Heard
  <2>3. QED BY <1>16, <2>1, <2>2 DEF Poll, Interrupt, Abort
<1>17. CASE ToolResult \/ ToolRaises
  <2>1. /\ pc = "exec" /\ given = 0 /\ given' = 1 /\ call' = call /\ pc' \in {"poll", "told"}
        /\ \/ blocks' = Append(blocks, call) /\ unread' = unread
           \/ blocks' = blocks /\ unread' = unread \cup {call}
    BY <1>1, <1>17 DEF ToolResult, ToolRaises
  <2>2. Executing /\ Heard' = call
    BY <1>2, <2>1 DEF Executing, Heard
  <2>3. InOrder(blocks, Heard)'
    <3>1. CASE blocks' = Append(blocks, call) /\ unread' = unread
      BY <1>4, <2>1, <2>2, <3>1 DEF InOrder
    <3>2. CASE blocks' = blocks /\ unread' = unread \cup {call}
      BY <1>2, <1>3, <2>1, <2>2, <3>2, UnreadBlock DEF InOrder
    <3>3. QED BY <2>1, <3>1, <3>2
  <2>4. \A c \in unread' : c <= Heard'
    BY <1>2, <1>3, <1>5, <2>1, <2>2
  <2>5. QED BY <2>1, <2>3, <2>4 DEF BlocksInOrder
<1>18. CASE ToolEnds
  BY <1>1, <1>18 DEF ToolEnds, toolVars, BlocksInOrder, Executing, InOrder, Heard
<1>19. CASE NextCall
  <2>1. /\ unread' = unread
        /\ \/ pc' = "loop"
           \/ pc' = "call" /\ call' = call + 1 /\ given' = 0 /\ blocks' = blocks
    BY <1>19 DEF NextCall, Advance
  <2>2. Executing /\ given = 1
    BY <1>19 DEF NextCall, Executing, BlocksInOrder
  <2>3. CASE pc' = "loop"
    BY <2>3, <1>6
  <2>4. CASE pc' = "call" /\ call' = call + 1 /\ given' = 0 /\ blocks' = blocks
    <3>1. Heard' = Heard
      BY <1>2, <2>2, <2>4 DEF Heard
    <3>2. QED BY <2>1, <2>2, <2>4, <3>1 DEF BlocksInOrder, InOrder
  <2>5. QED BY <2>1, <2>3, <2>4
<1>20. CASE UNCHANGED vars
  BY <1>7, <1>20 DEF vars, toolVars
<1>21. QED
  BY <1>8, <1>9, <1>10, <1>11, <1>12, <1>13, <1>14, <1>15, <1>16, <1>17, <1>18, <1>19, <1>20
  DEF Next, Model, Runner, Tool

\* PairedHistory for the message at place i of s.
AnswersAt(s, i, k) == \A j \in 1 .. k : i + j \in DOMAIN s /\ s[i + j].role = "tool"
PairedAt(s, i) ==
  /\ s[i].role = "assistant" =>
       \A c \in 1 .. s[i].calls :
         c \in s[i].unread \/ \E k \in 1 .. c : AnswersAt(s, i, k) /\ s[i + k] = ToolMsg(c)
  /\ s[i].role = "tool" =>
       \E k \in 1 .. s[i].answers :
         /\ i - k \in DOMAIN s /\ s[i - k].role = "assistant" /\ AnswersAt(s, i - k, k)
         /\ s[i].answers \in 1 .. s[i - k].calls \ s[i - k].unread
         /\ \A j \in 1 .. k - 1 : s[i - j].answers < s[i].answers

\* What follows a message changes nothing for it.
LEMMA PairedBefore ==
  ASSUME NEW s \in Seq(AgentMessage), NEW t \in Seq(AgentMessage), Len(s) <= Len(t),
         \A i \in 1 .. Len(s) : t[i] = s[i],
         NEW i \in 1 .. Len(s), PairedAt(s, i)
  PROVE  PairedAt(t, i)
<1> DEFINE L == Len(s)
<1>1. L \in Nat /\ DOMAIN s = 1 .. L /\ Len(t) \in Nat /\ DOMAIN t = 1 .. Len(t)
  OBVIOUS
<1>2. t[i] = s[i] /\ s[i] \in AgentMessage /\ i \in Nat
  BY <1>1
<1>3. s[i].calls \in Nat /\ s[i].answers \in Nat
  BY <1>2, AgentAssumption DEF AgentMessage
<1>4. \A p \in DOMAIN s : p \in DOMAIN t /\ t[p] = s[p]
  BY <1>1
<1> HIDE DEF L
<1>5. ASSUME NEW p, NEW k, AnswersAt(s, p, k) PROVE AnswersAt(t, p, k)
  BY <1>4, <1>5 DEF AnswersAt
<1>6. ASSUME s[i].role = "assistant", NEW c \in 1 .. s[i].calls, c \notin s[i].unread
      PROVE  \E k \in 1 .. c : AnswersAt(t, i, k) /\ t[i + k] = ToolMsg(c)
  <2>1. PICK k \in 1 .. c : AnswersAt(s, i, k) /\ s[i + k] = ToolMsg(c)
    BY <1>6 DEF PairedAt
  <2>2. k \in 1 .. k
    BY <1>3
  <2>3. i + k \in DOMAIN s
    BY <2>1, <2>2 DEF AnswersAt
  <2>4. AnswersAt(t, i, k) /\ t[i + k] = ToolMsg(c)
    BY <1>4, <1>5, <2>1, <2>3
  <2>5. QED BY <2>4
<1>7. ASSUME s[i].role = "tool"
      PROVE  \E k \in 1 .. s[i].answers :
               /\ i - k \in DOMAIN t /\ t[i - k].role = "assistant" /\ AnswersAt(t, i - k, k)
               /\ s[i].answers \in 1 .. t[i - k].calls \ t[i - k].unread
               /\ \A j \in 1 .. k - 1 : t[i - j].answers < s[i].answers
  <2>1. PICK k \in 1 .. s[i].answers :
               /\ i - k \in DOMAIN s /\ s[i - k].role = "assistant" /\ AnswersAt(s, i - k, k)
               /\ s[i].answers \in 1 .. s[i - k].calls \ s[i - k].unread
               /\ \A j \in 1 .. k - 1 : s[i - j].answers < s[i].answers
    BY <1>7 DEF PairedAt
  <2>2. \A j \in 1 .. k - 1 : i - j \in DOMAIN s
    BY <1>1, <1>2, <1>3, <2>1
  <2>3. \A j \in 1 .. k - 1 : t[i - j].answers < s[i].answers
    BY <1>4, <2>1, <2>2
  <2>4. i - k \in DOMAIN t /\ t[i - k] = s[i - k] /\ AnswersAt(t, i - k, k)
    BY <1>4, <1>5, <2>1
  <2>5. QED BY <2>1, <2>3, <2>4
<1>8. QED BY <1>2, <1>6, <1>7 DEF PairedAt

LEMMA Pairing == PairedHistory <=> \A i \in DOMAIN messages : PairedAt(messages, i)
BY Zenon DEF PairedHistory, PairedAt, AnswersAt, Answers

LEMMA PairingPrimed == PairedHistory' <=> \A i \in DOMAIN messages' : PairedAt(messages', i)
BY Zenon DEF PairedHistory, PairedAt, AnswersAt, Answers

\* A message without calls leaves the pairing of the others alone.
LEMMA AppendKeepsPairing ==
  ASSUME SeqInv, PairedHistory, NEW m \in {User, Spoken}
  PROVE  \A i \in 1 .. Len(Append(messages, m)) : PairedAt(Append(messages, m), i)
<1> DEFINE L == Len(messages)
           x == Append(messages, m)
<1>1. messages \in Seq(AgentMessage) /\ L \in Nat
  BY DEF SeqInv
<1>2. m \in AgentMessage /\ m.role \in {"user", "assistant"} /\ m.calls = 0
  BY AgentAssumption DEF User, Spoken, Assistant, AgentMessage
<1>3. /\ x \in Seq(AgentMessage) /\ Len(x) = L + 1
      /\ \A i \in 1 .. L : x[i] = messages[i]
      /\ x[L + 1] = m
  BY <1>1, <1>2, AppendProperties
<1>4. \A i \in 1 .. L : PairedAt(messages, i)
  BY <1>1, Pairing
<1> HIDE DEF x
<1>5. \A i \in 1 .. L : PairedAt(x, i)
  <2>1. L <= Len(x)
    BY <1>1, <1>3
  <2>2. QED BY <1>1, <1>3, <1>4, <2>1, PairedBefore
<1> HIDE DEF L
<1>6. PairedAt(x, L + 1)
  BY <1>2, <1>3 DEF PairedAt
<1>7. \A i \in 1 .. L + 1 : i = L + 1 \/ i \in 1 .. L
  BY <1>1
<1>8. \A i \in 1 .. Len(x) : PairedAt(x, i)
  BY <1>3, <1>5, <1>6, <1>7
<1>9. QED BY <1>8 DEF x

\* Nor does an exchange whose blocks answer its calls in order.
LEMMA ExchangeKeepsPairing ==
  ASSUME ControlInv, SeqInv, PairedHistory, NEW n \in 0 .. MaxCalls, NEW bs \in Seq(1 .. MaxCalls), InOrder(bs, n)
  PROVE  \A i \in 1 .. Len(Exchange(n, bs)) : PairedAt(Exchange(n, bs), i)
<1> DEFINE L == Len(messages)
           M == Len(bs)
           x == Exchange(n, bs)
<1>1. messages \in Seq(AgentMessage) /\ L \in Nat /\ n \in Nat /\ M \in Nat
  BY AgentAssumption DEF SeqInv
<1>2. /\ x \in Seq(AgentMessage) /\ Len(x) = L + 1 + M
      /\ \A i \in 1 .. L : x[i] = messages[i]
      /\ x[L + 1] = Assistant(n, unread)
      /\ \A i \in 1 .. M : x[L + 1 + i] = ToolMsg(bs[i])
  BY ExchangeFacts, Zenon
<1>3. \A i \in 1 .. L : PairedAt(messages, i)
  BY <1>1, Pairing
<1>4. /\ M <= n
      /\ \A i \in 1 .. M : i <= bs[i] /\ bs[i] <= n /\ bs[i] \notin unread
      /\ \A i, j \in 1 .. M : i < j => bs[i] < bs[j]
      /\ \A c \in 1 .. n : c \in unread \/ \E i \in 1 .. M : bs[i] = c
  BY DEF InOrder
<1>5. \A i \in 1 .. M : bs[i] \in Nat /\ bs[i] >= 1
  BY AgentAssumption
<1> HIDE DEF x
<1>6. \A i \in 1 .. L : PairedAt(x, i)
  <2>1. L <= Len(x)
    BY <1>1, <1>2
  <2>2. QED BY <1>1, <1>2, <1>3, <2>1, PairedBefore
<1> HIDE DEF L, M
<1>7. DOMAIN x = 1 .. L + 1 + M
  BY <1>2
<1>8. \A k \in 0 .. M : AnswersAt(x, L + 1, k)
  <2> SUFFICES ASSUME NEW k \in 0 .. M, NEW j \in 1 .. k
               PROVE  L + 1 + j \in DOMAIN x /\ x[L + 1 + j].role = "tool"
    BY DEF AnswersAt
  <2>1. j \in 1 .. M /\ L + 1 + j \in 1 .. L + 1 + M
    BY <1>1
  <2>2. x[L + 1 + j] = ToolMsg(bs[j])
    BY <1>2, <2>1
  <2>3. QED BY <1>7, <2>1, <2>2 DEF ToolMsg
<1>9. PairedAt(x, L + 1)
  <2>1. x[L + 1].role = "assistant" /\ x[L + 1].calls = n /\ x[L + 1].unread = unread
    BY <1>2 DEF Assistant
  <2>2. ASSUME NEW c \in 1 .. n, c \notin unread
        PROVE  \E k \in 1 .. c : AnswersAt(x, L + 1, k) /\ x[L + 1 + k] = ToolMsg(c)
    <3>1. PICK k \in 1 .. M : bs[k] = c
      BY <1>4, <2>2
    <3>2. k \in 1 .. c /\ k \in 0 .. M
      BY <1>1, <1>4, <3>1
    <3>3. x[L + 1 + k] = ToolMsg(c)
      BY <1>2, <3>1
    <3>4. QED BY <1>8, <3>2, <3>3
  <2>3. QED BY <2>1, <2>2 DEF PairedAt
<1>10. ASSUME NEW p \in 1 .. M, NEW i, i = L + 1 + p PROVE PairedAt(x, i)
  <2>1. x[i].role = "tool" /\ x[i].answers = bs[p]
    <3>1. x[i] = ToolMsg(bs[p])
      BY <1>2, <1>10
    <3>2. QED BY <3>1 DEF ToolMsg
  <2>2. p \in 1 .. bs[p] /\ p \in 0 .. M /\ bs[p] \in 1 .. n /\ bs[p] \notin unread
    BY <1>1, <1>4, <1>5, <1>10
  <2>3. i - p = L + 1 /\ L + 1 \in DOMAIN x
    BY <1>1, <1>7, <1>10
  <2>4. x[L + 1].role = "assistant" /\ x[L + 1].calls = n /\ x[L + 1].unread = unread
    BY <1>2 DEF Assistant
  <2>5. ASSUME NEW j \in 1 .. p - 1 PROVE x[i - j].answers < bs[p]
    <3>1. p - j \in 1 .. M /\ p - j < p /\ i - j = L + 1 + (p - j)
      BY <1>1, <1>10
    <3>2. x[L + 1 + (p - j)] = ToolMsg(bs[p - j])
      BY <1>2, <3>1
    <3>3. bs[p - j] < bs[p]
      BY <1>4, <1>10, <3>1
    <3>4. QED BY <3>1, <3>2, <3>3 DEF ToolMsg
  <2>6. AnswersAt(x, L + 1, p)
    BY <1>8, <2>2
  <2>7. /\ i - p \in DOMAIN x /\ x[i - p].role = "assistant" /\ AnswersAt(x, i - p, p)
        /\ bs[p] \in 1 .. x[i - p].calls \ x[i - p].unread
    BY <2>2, <2>3, <2>4, <2>6
  <2>8. QED BY <2>1, <2>2, <2>5, <2>7 DEF PairedAt
<1>11. \A i \in 1 .. L + 1 + M : i \in 1 .. L \/ i = L + 1 \/ \E p \in 1 .. M : i = L + 1 + p
  <2> SUFFICES ASSUME NEW i \in 1 .. L + 1 + M, i \notin 1 .. L, i # L + 1
               PROVE  \E p \in 1 .. M : i = L + 1 + p
    OBVIOUS
  <2>1. i - (L + 1) \in 1 .. M /\ i = L + 1 + (i - (L + 1))
    BY <1>1
  <2>2. QED BY <2>1
<1>12. \A i \in 1 .. L + 1 + M : PairedAt(x, i)
  BY <1>6, <1>9, <1>10, <1>11
<1>13. \A i \in 1 .. Len(x) : PairedAt(x, i)
  BY <1>2, <1>12
<1>14. QED BY <1>13 DEF x

LEMMA PairingStep ==
  ControlInv /\ SeqInv /\ BlocksInOrder /\ PairedHistory /\ [Next]_vars => PairedHistory'
<1> SUFFICES ASSUME ControlInv, SeqInv, BlocksInOrder, PairedHistory, [Next]_vars
             PROVE  PairedHistory'
  OBVIOUS
<1>1. CASE messages' = messages
  BY <1>1, Pairing, PairingPrimed
<1>2. ASSUME NEW x, messages' = x, \A i \in 1 .. Len(x) : PairedAt(x, i) PROVE PairedHistory'
  <2>1. messages' \in Seq(AgentMessage)
    BY SeqStep DEF SeqInv
  <2>2. DOMAIN messages' = 1 .. Len(messages')
    BY <2>1
  <2>3. QED BY <1>2, <2>2, PairingPrimed
<1>3. CASE messages' \in {Append(messages, User), Append(messages, Spoken)}
  BY <1>2, <1>3, AppendKeepsPairing
<1>4. CASE \E bs : LastBlocks(bs) /\ messages' = Exchange(calls, bs)
  <2>1. PICK bs : LastBlocks(bs) /\ messages' = Exchange(calls, bs)
    BY <1>4
  <2>2. /\ calls \in 0 .. MaxCalls /\ call = calls /\ call \in 1 .. MaxCalls
        /\ pc \in {"call", "told"} /\ Executing /\ blocks \in Seq(1 .. MaxCalls)
    BY <2>1, AgentAssumption DEF LastBlocks, ControlInv, ControlOK, Stage, Executing, SeqInv
  <2>3. bs \in Seq(1 .. MaxCalls) /\ InOrder(bs, calls)
    <3>1. CASE pc = "call" /\ bs = Append(blocks, call)
      <4>1. given = 0 /\ InOrder(blocks, call - 1 + 0) /\ \A c \in unread : c <= call - 1 + 0
        BY <2>2, <3>1 DEF BlocksInOrder, Heard
      <4>2. call - 1 + 0 = call - 1
        BY <2>2, AgentAssumption
      <4>3. QED BY <2>2, <3>1, <4>1, <4>2, NextBlock
    <3>2. CASE pc = "told" /\ bs = blocks
      <4>1. given = 1 /\ InOrder(blocks, call - 1 + 1)
        BY <2>2, <3>2 DEF BlocksInOrder, Heard
      <4>2. call - 1 + 1 = call
        BY <2>2, AgentAssumption
      <4>3. QED BY <2>2, <3>2, <4>1, <4>2
    <3>3. QED BY <2>1, <3>1, <3>2 DEF LastBlocks
  <2>4. QED BY <1>2, <2>1, <2>2, <2>3, ExchangeKeepsPairing
<1>5. QED BY <1>1, <1>3, <1>4, HistoryMoves

\* With executors that give exactly one result, every call of every assistant
\* message is followed by its answer unless its result held nothing that is read,
\* the answers come in the order of their calls, and there is no other tool
\* message, for any number of calls and any mixture of unknown tools, failing
\* tools, unread results, stops and retries.
THEOREM HistoryIsPaired ==
  ASSUME MinResults = 1, MaxResults = 1
  PROVE  Spec => []PairedHistory
<1>1. Init => BlocksInOrder /\ PairedHistory
  <2> SUFFICES ASSUME Init PROVE BlocksInOrder /\ PairedHistory
    OBVIOUS
  <2>1. BlocksInOrder
    BY DEF Init, BlocksInOrder, Executing
  <2>2. DOMAIN messages = {1} /\ messages[1].role = "user"
    BY DEF Init, User
  <2>3. QED BY <2>1, <2>2 DEF PairedHistory
<1>2. ControlInv /\ SeqInv /\ BlocksInOrder /\ PairedHistory /\ [Next]_vars
        => (BlocksInOrder /\ PairedHistory)'
  BY OrderStep, PairingStep
<1>3. QED BY <1>1, <1>2, Typed, PTL DEF Spec

-----------------------------------------------------------------------------
(* Truncator: the messages of the conversation                             *)

Msg == [role : {"system", "user", "assistant", "tool"}, calls : Nat, n : Nat]

\* A call has its answers right after it, and an answer its call before it.
Blocks(s) == \A i \in DOMAIN s :
  /\ HasToolCalls(s[i]) => \A c \in 1 .. s[i].calls :
       i + c \in DOMAIN s /\ IsTool(s[i + c]) /\ s[i + c].n = s[i].n + c
  /\ IsTool(s[i]) => \E c \in 1 .. i - 1 : HasToolCalls(s[i - c]) /\ c <= s[i - c].calls

Increasing(s) == \A i, j \in DOMAIN s : i < j => s[i].n < s[j].n

\* p is the place of the first message that is no system message.
First(s, p) == /\ p \in DOMAIN s /\ s[p].role # "system"
               /\ \A j \in 1 .. p - 1 : s[j].role = "system"

Leads(s) == \A i \in DOMAIN s : First(s, i) => IsUser(s[i])
HasUser(s) == \E i \in DOMAIN s : IsUser(s[i])

\* Nothing is kept that was never spoken.
Bounded(s) == \A i \in DOMAIN s : s[i].n <= spoken

\* What every cut keeps.
Sound(s) == s \in Seq(Msg) /\ Blocks(s) /\ Increasing(s) /\ Leads(s) /\ Bounded(s)

ContextInv == Sound(history) /\ spoken \in Nat

\* A set of naturals that is not empty has a least member.
LEMMA Least ==
  ASSUME NEW T \in SUBSET Nat, T # {}
  PROVE  Min(T) \in T /\ \A y \in T : Min(T) <= y
<1>1. PICK x \in T : \A y \in T : ~(<<y, x>> \in OpToRel(<, Nat))
  BY NatLessThanWellFounded, WFMin, Zenon
<1>2. ASSUME NEW y \in T PROVE x <= y
  <2>1. ~(<<y, x>> \in OpToRel(<, Nat))
    BY <1>1
  <2>2. x \in Nat /\ y \in Nat
    OBVIOUS
  <2>3. y < x => <<y, x>> \in OpToRel(<, Nat)
    BY <2>2 DEF OpToRel
  <2>4. ~(y < x)
    BY <2>1, <2>3, Zenon
  <2>5. QED BY <2>2, <2>4
<1>3. QED BY <1>1, <1>2 DEF Min

\* What follows the first d messages.
LEMMA Suffix ==
  ASSUME NEW s \in Seq(Msg), NEW d \in 0 .. Len(s)
  PROVE  LET t == SubSeq(s, d + 1, Len(s))
         IN  /\ t \in Seq(Msg) /\ Len(t) = Len(s) - d
             /\ \A i \in 1 .. Len(s) - d : t[i] = s[d + i]
<1> DEFINE t == SubSeq(s, d + 1, Len(s))
<1>1. Len(s) \in Nat /\ d \in Nat /\ d <= Len(s)
  OBVIOUS
<1>2. \A i \in d + 1 .. Len(s) : s[i] \in Msg
  BY <1>1, ElementOfSeq
<1>3. /\ t \in Seq(Msg) /\ Len(t) = IF d + 1 <= Len(s) THEN Len(s) - (d + 1) + 1 ELSE 0
      /\ \A i \in 1 .. Len(s) - (d + 1) + 1 : t[i] = s[d + 1 + i - 1]
  BY <1>1, <1>2, SubSeqProperties
<1> HIDE DEF t
<1>4. Len(t) = Len(s) - d
  <2>1. CASE d + 1 <= Len(s)
    BY <1>1, <1>3, <2>1
  <2>2. CASE ~(d + 1 <= Len(s))
    <3>1. d = Len(s) /\ Len(t) = 0
      BY <1>1, <1>3, <2>2
    <3>2. QED BY <1>1, <3>1
  <2>3. QED BY <2>1, <2>2
<1>5. \A i \in 1 .. Len(s) - d : i \in 1 .. Len(s) - (d + 1) + 1 /\ d + 1 + i - 1 = d + i
  BY <1>1
<1>6. QED BY <1>3, <1>4, <1>5 DEF t

\* A conversation with a user: the system messages end before the user's first.
LEMMA UserIsFirst ==
  ASSUME NEW s, Sound(s), HasUser(s)
  PROVE  LET p == NSystem(s) + 1
         IN  /\ p \in 1 .. Len(s) /\ IsUser(s[p]) /\ \A j \in 1 .. p - 1 : s[j].role = "system"
             /\ SelectInSeq(s, IsUser) = p /\ NSystem(s) \in Nat
<1> s \in Seq(Msg) /\ Len(s) \in Nat /\ DOMAIN s = 1 .. Len(s)
  BY DEF Sound
<1> DEFINE I == {k \in 1 .. Len(s) : s[k].role # "system"}
           U == {k \in 1 .. Len(s) : IsUser(s[k])}
           p == Min(I)
<1>1. U # {} /\ U \subseteq I /\ I \subseteq Nat
  BY DEF HasUser, IsUser
<1>2. p \in I /\ \A y \in I : p <= y
  BY <1>1, Least
<1>3. \A j \in 1 .. p - 1 : s[j].role = "system"
  BY <1>2
<1>4. First(s, p)
  BY <1>2, <1>3 DEF First
<1>5. p \in U
  BY <1>2, <1>4 DEF Sound, Leads
<1>6. Min(U) = p
  <2>1. Min(U) \in U /\ \A y \in U : Min(U) <= y
    BY <1>1, Least
  <2>2. QED BY <1>1, <1>2, <1>5, <2>1
<1>7. NSystem(s) = p - 1
  <2>1. SelectInSeq(s, IsOther) = p
    BY <1>1 DEF SelectInSeq, IsOther
  <2>2. p # 0
    <3> HIDE DEF p
    <3>1. QED BY <1>2
  <2>3. QED BY <2>1, <2>2 DEF NSystem
<1>8. SelectInSeq(s, IsUser) = p
  BY <1>1, <1>6 DEF SelectInSeq, IsUser
<1>9. p - 1 + 1 = p /\ p - 1 \in Nat
  BY <1>2
<1> HIDE DEF p
<1>10. QED BY <1>2, <1>3, <1>5, <1>7, <1>8, <1>9

-----------------------------------------------------------------------------
(* What is left when the messages after the first x, up to c, are left out *)

Without(s, x, c) == SubSeq(s, 1, x) \o SubSeq(s, c + 1, Len(s))

LEMMA RemoveIs ==
  ASSUME NEW s \in Seq(Msg), NEW c \in 0 .. Len(s), NEW x \in 0 .. c
  PROVE  /\ Without(s, x, c) \in Seq(Msg)
         /\ Len(Without(s, x, c)) = x + Len(s) - c
         /\ \A i \in 1 .. x + Len(s) - c :
              Without(s, x, c)[i] = IF i <= x THEN s[i] ELSE s[i - x + c]
<1> Len(s) \in Nat /\ \A i \in 1 .. Len(s) : s[i] \in Msg
  OBVIOUS
<1> DEFINE a == SubSeq(s, 1, x)
           b == SubSeq(s, c + 1, Len(s))
<1>1. a \in Seq(Msg) /\ Len(a) = x /\ \A i \in 1 .. x : a[i] = s[i]
  OBVIOUS
<1>2. b \in Seq(Msg) /\ Len(b) = Len(s) - c /\ \A i \in 1 .. Len(s) - c : b[i] = s[c + i]
  BY Suffix
<1> HIDE DEF a, b
<1>3. /\ a \o b \in Seq(Msg) /\ Len(a \o b) = x + Len(s) - c
      /\ \A i \in 1 .. x + Len(s) - c : (a \o b)[i] = IF i <= x THEN a[i] ELSE b[i - x]
  <2>1. /\ a \o b \in Seq(Msg) /\ Len(a \o b) = Len(a) + Len(b)
        /\ \A i \in 1 .. Len(a) + Len(b) : (a \o b)[i] = IF i <= Len(a) THEN a[i] ELSE b[i - Len(a)]
    BY <1>1, <1>2, ConcatProperties
  <2>2. Len(a) + Len(b) = x + Len(s) - c
    BY <1>1, <1>2
  <2>3. QED BY <1>1, <2>1, <2>2
<1>4. \A i \in 1 .. x + Len(s) - c : i > x => b[i - x] = s[i - x + c]
  <2> SUFFICES ASSUME NEW i \in 1 .. x + Len(s) - c, i > x PROVE b[i - x] = s[i - x + c]
    OBVIOUS
  <2>1. i - x \in 1 .. Len(s) - c /\ c + (i - x) = i - x + c
    OBVIOUS
  <2>2. QED BY <1>2, <2>1
<1>5. \A i \in 1 .. x + Len(s) - c : i <= x => a[i] = s[i]
  BY <1>1
<1>6. \A i \in 1 .. x + Len(s) - c : (a \o b)[i] = IF i <= x THEN s[i] ELSE s[i - x + c]
  <2> SUFFICES ASSUME NEW i \in 1 .. x + Len(s) - c
               PROVE  (a \o b)[i] = IF i <= x THEN s[i] ELSE s[i - x + c]
    OBVIOUS
  <2>1. (a \o b)[i] = IF i <= x THEN a[i] ELSE b[i - x]
    BY <1>3
  <2>2. i <= x => a[i] = s[i]
    BY <1>5
  <2>3. ~(i <= x) => b[i - x] = s[i - x + c]
    BY <1>4
  <2>4. QED BY <2>1, <2>2, <2>3
<1>7. Without(s, x, c) = a \o b
  BY DEF Without, a, b
<1>8. QED BY <1>3, <1>6, <1>7

\* A cut that does not fall among the answers of a call, behind a user's message.
LEMMA RemoveKeeps ==
  ASSUME NEW s, Sound(s), NEW c \in 0 .. Len(s), NEW x \in 0 .. c,
         \A i \in 1 .. x : s[i].role \in {"system", "user"},
         c < Len(s) => ~IsTool(s[c + 1]),
         \/ \E i \in 1 .. x : IsUser(s[i])
         \/ c < Len(s) /\ IsUser(s[c + 1])
  PROVE  Sound(Without(s, x, c)) /\ HasUser(Without(s, x, c))
<1> s \in Seq(Msg) /\ Len(s) \in Nat /\ DOMAIN s = 1 .. Len(s)
  BY DEF Sound
<1> DEFINE r == Without(s, x, c)
           at(i) == IF i <= x THEN i ELSE i - x + c
           n == x + Len(s) - c
<1>1. r \in Seq(Msg) /\ Len(r) = n /\ \A i \in 1 .. n : r[i] = s[at(i)]
  BY RemoveIs
<1>2. DOMAIN r = 1 .. n /\ n \in Nat
  BY <1>1
<1>3. \A i \in 1 .. n : at(i) \in 1 .. Len(s)
  OBVIOUS
<1>4. \A i, j \in 1 .. n : i < j => at(i) < at(j)
  OBVIOUS
<1>5. Increasing(r)
  BY <1>1, <1>2, <1>3, <1>4 DEF Increasing, Sound
<1>0. Bounded(r)
  BY <1>1, <1>2, <1>3 DEF Bounded, Sound
<1> HIDE DEF r
<1>6. Blocks(r)
  <2>1. ASSUME NEW i \in 1 .. n, HasToolCalls(r[i]), NEW k \in 1 .. r[i].calls
        PROVE  i + k \in 1 .. n /\ IsTool(r[i + k]) /\ r[i + k].n = r[i].n + k
    <3>0. HasToolCalls(s[at(i)]) /\ r[i].calls = s[at(i)].calls
      BY <1>1, <2>1
    <3>1. i > x /\ HasToolCalls(s[at(i)]) /\ r[i].calls = s[at(i)].calls
      BY <3>0 DEF HasToolCalls
    <3>2. at(i) + k \in 1 .. Len(s) /\ IsTool(s[at(i) + k]) /\ s[at(i) + k].n = s[at(i)].n + k
      BY <1>3, <2>1, <3>1 DEF Sound, Blocks
    <3>3. k \in Nat \ {0}
      <4>1. s[at(i)] \in Msg
        BY <1>3, ElementOfSeq
      <4>2. QED BY <2>1, <3>1, <4>1 DEF Msg
    <3>4. i + k \in 1 .. n /\ at(i + k) = at(i) + k
      BY <3>1, <3>2, <3>3, SMTT(30)
    <3> HIDE DEF at
    <3>5. r[i + k] = s[at(i + k)] /\ r[i] = s[at(i)]
      BY <1>1, <3>4
    <3>6. QED BY <3>2, <3>4, <3>5, Zenon
  <2>2. ASSUME NEW i \in 1 .. n, IsTool(r[i])
        PROVE  \E k \in 1 .. i - 1 : HasToolCalls(r[i - k]) /\ k <= r[i - k].calls
    <3>0. r[i] = s[at(i)] /\ IsTool(s[at(i)])
      BY <1>1, <2>2
    <3>1. i > x /\ IsTool(s[at(i)]) /\ at(i) = i - x + c
      BY <3>0 DEF IsTool
    <3>2. PICK k \in 1 .. at(i) - 1 : HasToolCalls(s[at(i) - k]) /\ k <= s[at(i) - k].calls
      BY <1>3, <3>1 DEF Sound, Blocks
    <3>3. at(i) - k > c
      <4>1. SUFFICES ASSUME at(i) - k <= c PROVE FALSE
        BY <3>1, <3>2
      <4> DEFINE a == at(i) - k
      <4>2. a \in 1 .. Len(s) /\ s[a].calls \in Nat
        <5>1. a \in 1 .. Len(s)
          BY <1>3, <3>2
        <5>2. s[a] \in Msg
          BY <5>1, ElementOfSeq
        <5>3. QED BY <5>1, <5>2 DEF Msg
      <4>3. c + 1 - a \in 1 .. s[a].calls /\ c < Len(s)
        BY <1>3, <3>1, <3>2, <4>1, <4>2
      <4>4. IsTool(s[a + (c + 1 - a)])
        BY <3>2, <4>2, <4>3 DEF Sound, Blocks
      <4>5. a + (c + 1 - a) = c + 1
        BY <4>2
      <4>6. QED BY <4>3, <4>4, <4>5
    <3>4. k \in 1 .. i - 1 /\ at(i - k) = at(i) - k /\ i - k \in 1 .. n
      <4>1. k \in Nat \ {0} /\ i \in Nat /\ x \in Nat /\ c \in Nat
        BY <1>3, <3>2
      <4>2. i - x + c - k > c
        BY <3>1, <3>3
      <4>3. i - k > x /\ i - k - x + c = i - x + c - k
        BY <4>1, <4>2
      <4>4. QED BY <1>2, <3>1, <4>1, <4>3
    <3> HIDE DEF at
    <3>5. r[i - k] = s[at(i - k)]
      BY <1>1, <3>4
    <3>6. QED BY <3>2, <3>4, <3>5, Zenon
  <2>3. QED BY <1>2, <2>1, <2>2, Zenon DEF Blocks
<1>7. HasUser(r)
  <2>1. CASE \E i \in 1 .. x : IsUser(s[i])
    BY <1>1, <1>2, <2>1, SMTT(30) DEF HasUser
  <2>2. CASE c < Len(s) /\ IsUser(s[c + 1])
    <3>1. x + 1 \in 1 .. n /\ at(x + 1) = c + 1
      BY <2>2
    <3>2. QED BY <1>1, <1>2, <2>2, <3>1 DEF HasUser
  <2>3. QED BY <2>1, <2>2
<1>8. Leads(r)
  <2> SUFFICES ASSUME NEW i \in 1 .. n, First(r, i) PROVE IsUser(r[i])
    BY <1>2 DEF Leads
  <2>1. r[i].role # "system" /\ \A j \in 1 .. i - 1 : r[j].role = "system"
    BY DEF First
  <2>2. CASE i <= x
    BY <1>1, <2>1, <2>2 DEF IsUser
  <2>3. CASE i > x
    <3>1. ~\E j \in 1 .. x : IsUser(s[j])
      <4>1. \A j \in 1 .. x : j \in 1 .. i - 1 /\ j \in 1 .. n /\ at(j) = j
        BY <2>3
      <4>2. QED BY <1>1, <2>1, <4>1 DEF IsUser
    <3>2. c < Len(s) /\ IsUser(s[c + 1])
      BY <3>1
    <3>3. x + 1 \in 1 .. n /\ at(x + 1) = c + 1
      BY <3>2
    <3>4. i = x + 1
      <4>1. ~(x + 1 \in 1 .. i - 1)
        BY <1>1, <2>1, <3>2, <3>3 DEF IsUser
      <4>2. QED BY <2>3, <4>1
    <3>5. QED BY <1>1, <3>2, <3>3, <3>4
  <2>4. QED BY <2>2, <2>3
<1>9. QED BY <1>0, <1>1, <1>5, <1>6, <1>7, <1>8 DEF Sound, r

-----------------------------------------------------------------------------
(* fix_messages *)

\* The message a tool message answers is the last that is no tool's.
LEMMA PendingIs ==
  ASSUME NEW s, NEW i \in Nat, NEW p \in 1 .. i - 1, ~IsTool(s[p]),
         \A j \in p + 1 .. i - 1 : IsTool(s[j])
  PROVE  Pending(s, i) = p
<1> DEFINE I == {k \in 1 .. i - 1 : ~IsTool(s[k])}
<1>1. p \in I /\ \A k \in I : p >= k
  OBVIOUS
<1>2. Max(I) = p
  <2>1. \A q \in I : (\A k \in I : q >= k) => q = p
    BY <1>1
  <2>2. (CHOOSE q \in I : \A k \in I : q >= k) = p
    BY <1>1, <2>1
  <2>3. QED BY <2>2 DEF Max
<1>3. QED BY <1>1, <1>2 DEF Pending, SelectLastInSubSeq

LEMMA NonePending ==
  ASSUME NEW s, NEW i \in Nat, \A j \in 1 .. i - 1 : IsTool(s[j])
  PROVE  Pending(s, i) = 0
BY DEF Pending, SelectLastInSubSeq

\* f is the recursive function of FixMessages, up to n.
Upto(s, n, f) ==
  f = [i \in 0 .. n |-> IF i = 0 THEN <<>>
                        ELSE IF Valid(s, i) THEN Append(f[i - 1], s[i]) ELSE f[i - 1]]

\* The recursive function of FixMessages exists.
LEMMA FixedExists ==
  ASSUME NEW s, NEW n \in Nat
  PROVE  \E f : Upto(s, n, f)
<1> DEFINE T == {k \in Nat : ~\E f : Upto(s, k, f)}
<1>1. ASSUME T # {} PROVE FALSE
  <2> DEFINE m == Min(T)
  <2>1. m \in T /\ \A y \in T : m <= y
    BY <1>1, Least
  <2> HIDE DEF m
  <2> DEFINE e == [i \in 0 .. 0 |-> <<>>]
  <2>2. Upto(s, 0, e)
    BY DEF Upto
  <2>3. m # 0 /\ m \in Nat
    BY <2>1, <2>2
  <2>4. m - 1 \in Nat /\ m - 1 \notin T
    BY <2>1, <2>3
  <2>5. PICK f : Upto(s, m - 1, f)
    BY <2>4
  <2> DEFINE g == [i \in 0 .. m |-> IF i = 0 THEN <<>>
                                    ELSE IF Valid(s, i) THEN Append(f[i - 1], s[i]) ELSE f[i - 1]]
  <2>6. \A i \in 0 .. m - 1 : f[i] = IF i = 0 THEN <<>>
                                     ELSE IF Valid(s, i) THEN Append(f[i - 1], s[i]) ELSE f[i - 1]
    BY <2>5, Zenon DEF Upto
  <2>7. \A i \in 0 .. m - 1 : g[i] = f[i]
    <3>1. \A i \in 0 .. m - 1 : i \in 0 .. m
      BY <2>3
    <3>2. QED BY <2>6, <3>1, Zenon
  <2>8. \A i \in 0 .. m : i # 0 => g[i - 1] = f[i - 1]
    <3>1. \A i \in 0 .. m : i # 0 => i - 1 \in 0 .. m - 1
      BY <2>3
    <3>2. QED BY <2>7, <3>1, Zenon
  <2>9. Upto(s, m, g)
    <3>1. g = [i \in 0 .. m |-> IF i = 0 THEN <<>>
                                ELSE IF Valid(s, i) THEN Append(g[i - 1], s[i]) ELSE g[i - 1]]
      BY <2>8
    <3>2. QED BY <3>1 DEF Upto
  <2>10. QED BY <2>1, <2>9
<1>2. QED BY <1>1

LEMMA FixIs ==
  ASSUME NEW s, Len(s) \in Nat
  PROVE  \E f : /\ FixMessages(s) = f[Len(s)] /\ f[0] = <<>>
                /\ \A i \in 1 .. Len(s) :
                     f[i] = IF Valid(s, i) THEN Append(f[i - 1], s[i]) ELSE f[i - 1]
<1> DEFINE g == CHOOSE f : Upto(s, Len(s), f)
<1>1. FixMessages(s) = g[Len(s)]
  BY DEF FixMessages, Upto
<1>2. Upto(s, Len(s), g)
  BY FixedExists
<1>3. \A i \in 0 .. Len(s) : g[i] = IF i = 0 THEN <<>>
                                    ELSE IF Valid(s, i) THEN Append(g[i - 1], s[i]) ELSE g[i - 1]
  BY <1>2, Zenon DEF Upto
<1>4. g[0] = <<>>
  BY <1>3
<1>5. \A i \in 1 .. Len(s) : g[i] = IF Valid(s, i) THEN Append(g[i - 1], s[i]) ELSE g[i - 1]
  BY <1>3
<1>6. QED BY <1>1, <1>4, <1>5

\* When all are valid but those after x and up to c, these are left out.
LEMMA FixRemoves ==
  ASSUME NEW t \in Seq(Msg), NEW c \in 0 .. Len(t), NEW x \in 0 .. c,
         \A i \in 1 .. Len(t) : Valid(t, i) <=> i <= x \/ i > c
  PROVE  FixMessages(t) = Without(t, x, c)
<1> Len(t) \in Nat /\ \A i \in 1 .. Len(t) : t[i] \in Msg
  BY ElementOfSeq
<1>1. PICK f : /\ FixMessages(t) = f[Len(t)] /\ f[0] = <<>>
               /\ \A i \in 1 .. Len(t) : f[i] = IF Valid(t, i) THEN Append(f[i - 1], t[i]) ELSE f[i - 1]
  BY FixIs
<1> DEFINE size(n) == IF n <= x THEN n ELSE IF n <= c THEN x ELSE x + n - c
           P(n) == /\ f[n] \in Seq(Msg) /\ Len(f[n]) = size(n)
                   /\ \A i \in 1 .. size(n) : f[n][i] = IF i <= x THEN t[i] ELSE t[i - x + c]
           T == {n \in 0 .. Len(t) : ~P(n)}
<1>2. ASSUME T # {} PROVE FALSE
  <2> DEFINE m == Min(T)
  <2>1. m \in T /\ \A y \in T : m <= y
    <3>1. T \subseteq Nat
      OBVIOUS
    <3>2. QED BY <1>2, <3>1, Least
  <2> HIDE DEF m
  <2>2. m \in 0 .. Len(t) /\ ~P(m)
    BY <2>1
  <2>3. m # 0
    <3>1. P(0)
      BY <1>1
    <3>2. QED BY <2>2, <3>1
  <2>4. m - 1 \in 0 .. Len(t) /\ m - 1 \notin T
    <3> HIDE DEF T
    <3>1. m - 1 \in 0 .. Len(t) /\ ~(m <= m - 1)
      BY <2>2, <2>3
    <3>2. QED BY <2>1, <3>1
  <2>5. P(m - 1)
    BY <2>4
  <2>6. m \in 1 .. Len(t) /\ t[m] \in Msg
    BY <2>2, <2>3
  <2>7. CASE m <= x \/ m > c
    <3> DEFINE q == f[m - 1]
    <3>1. f[m] = Append(q, t[m])
      BY <1>1, <2>6, <2>7
    <3>2. q \in Seq(Msg) /\ Len(q) = size(m - 1)
      BY <2>5
    <3>3. size(m) = size(m - 1) + 1 /\ size(m - 1) \in Nat
      BY <2>6, <2>7
    <3>4. t[m] = IF size(m) <= x THEN t[size(m)] ELSE t[size(m) - x + c]
      BY <2>6, <2>7
    <3>5. \A i \in 1 .. size(m - 1) : q[i] = IF i <= x THEN t[i] ELSE t[i - x + c]
      BY <2>5
    <3> HIDE DEF q, size
    <3>6. /\ f[m] \in Seq(Msg) /\ Len(f[m]) = size(m)
          /\ \A i \in 1 .. size(m - 1) : f[m][i] = q[i]
          /\ f[m][size(m)] = t[m]
      BY <2>6, <3>1, <3>2, <3>3, AppendProperties
    <3>7. \A i \in 1 .. size(m) : i \in 1 .. size(m - 1) \/ i = size(m)
      BY <3>3
    <3>8. QED BY <2>2, <3>4, <3>5, <3>6, <3>7
  <2>8. CASE ~(m <= x \/ m > c)
    <3>1. f[m] = f[m - 1]
      BY <1>1, <2>6, <2>8
    <3>2. size(m) = size(m - 1)
      BY <2>6, <2>8
    <3> HIDE DEF size
    <3>3. QED BY <2>2, <2>5, <3>1, <3>2
  <2>9. QED BY <2>7, <2>8
<1>3. P(Len(t))
  BY <1>2
<1>4. size(Len(t)) = x + Len(t) - c
  OBVIOUS
<1> DEFINE r == Without(t, x, c)
<1>5. r \in Seq(Msg) /\ Len(r) = x + Len(t) - c
      /\ \A i \in 1 .. x + Len(t) - c : r[i] = IF i <= x THEN t[i] ELSE t[i - x + c]
  BY RemoveIs
<1> HIDE DEF r, size
<1>6. FixMessages(t) = r
  <2>1. f[Len(t)] \in Seq(Msg) /\ Len(f[Len(t)]) = Len(r)
    BY <1>3, <1>4, <1>5
  <2>2. \A i \in 1 .. Len(f[Len(t)]) : f[Len(t)][i] = r[i]
    BY <1>3, <1>4, <1>5
  <2>3. r \in Seq(Msg)
    BY <1>5
  <2>4. f[Len(t)] = r
    BY <2>1, <2>2, <2>3, SeqEqual
  <2>5. QED BY <1>1, <2>4
<1>7. QED BY <1>6 DEF r

\* Repairing a cut takes out the answers that have lost their call, no more.
LEMMA FixKeeps ==
  ASSUME NEW s, Sound(s), NEW c \in 0 .. Len(s), NEW x \in 0 .. c,
         \A i \in 1 .. x : s[i].role \in {"system", "user"},
         \/ \E i \in 1 .. x : IsUser(s[i])
         \/ c < Len(s) /\ IsUser(s[c + 1])
  PROVE  LET r == FixMessages(Without(s, x, c)) IN Sound(r) /\ HasUser(r)
<1> s \in Seq(Msg) /\ Len(s) \in Nat /\ DOMAIN s = 1 .. Len(s)
  BY DEF Sound
<1> DEFINE t == Without(s, x, c)
           at(i) == IF i <= x THEN i ELSE i - x + c
           n == x + Len(s) - c
           K == {k \in c .. Len(s) : k < Len(s) => ~IsTool(s[k + 1])}
           d == Min(K)
           y == d - c + x
\* s[c + 1] to s[d] are the answers at the head of what follows the cut
<1>1. /\ d \in c .. Len(s) /\ (d < Len(s) => ~IsTool(s[d + 1]))
      /\ \A k \in c + 1 .. d : IsTool(s[k])
  <2>1. Len(s) \in K /\ K \subseteq Nat
    OBVIOUS
  <2>2. d \in K /\ \A k \in K : d <= k
    BY <2>1, Least
  <2> HIDE DEF d
  <2>3. ASSUME NEW k \in c + 1 .. d PROVE IsTool(s[k])
    <3>1. k - 1 \in c .. Len(s) /\ k - 1 < Len(s) /\ k - 1 + 1 = k /\ ~(d <= k - 1)
      BY <2>2
    <3>2. QED BY <2>2, <3>1
  <2>4. QED BY <2>2, <2>3
<1> HIDE DEF d, K
<1>0. /\ c \in Nat /\ x \in Nat /\ d \in Nat /\ x <= c /\ c <= d /\ d <= Len(s)
      /\ y \in Nat /\ n \in Nat
  BY <1>1
<1>2. t \in Seq(Msg) /\ Len(t) = n /\ \A i \in 1 .. n : t[i] = s[at(i)]
  BY RemoveIs
<1> HIDE DEF t
<1>3. n \in Nat /\ y \in x .. n /\ y \in Nat /\ \A i \in 1 .. n : at(i) \in 1 .. Len(s)
  BY <1>1, SMTT(30)
<1>4. ASSUME NEW i \in 1 .. x PROVE Valid(t, i)
  <2>1. t[i] = s[i] /\ s[i].role \in {"system", "user"}
    BY <1>2, <1>3
  <2>2. QED BY <2>1 DEF Valid, IsTool, HasToolCalls
<1>5. ASSUME NEW i \in x + 1 .. y PROVE ~Valid(t, i)
  <2>1. i \in 1 .. n /\ IsTool(t[i]) /\ \A j \in x + 1 .. i - 1 : IsTool(t[j])
    <3>1. \A j \in x + 1 .. i : j \in 1 .. n /\ at(j) \in c + 1 .. d
      BY <1>1, <1>3
    <3>2. \A j \in x + 1 .. i : IsTool(t[j])
      BY <1>1, <1>2, <3>1
    <3>3. QED BY <1>3, <3>2
  <2>2. CASE x = 0
    <3>1. Pending(t, i) = 0
      BY <2>1, <2>2, NonePending
    <3>2. QED BY <2>1, <3>1 DEF Valid
  <2>3. CASE x # 0
    <3>0. x \in 1 .. i - 1 /\ x \in 1 .. n /\ x \in 1 .. x
      BY <1>0, <2>1, <2>3
    <3>1. x \in 1 .. i - 1 /\ t[x] = s[x] /\ s[x].role \in {"system", "user"}
      BY <1>2, <3>0
    <3>2. ~IsTool(t[x]) /\ ~HasToolCalls(t[x])
      BY <3>1 DEF IsTool, HasToolCalls
    <3>3. Pending(t, i) = x
      BY <2>1, <3>1, <3>2, PendingIs
    <3>4. QED BY <2>1, <3>2, <3>3 DEF Valid
  <2>4. QED BY <2>2, <2>3
<1>6. ASSUME NEW i \in y + 1 .. n PROVE Valid(t, i)
  <2>1. i \in 1 .. n /\ i > x /\ at(i) = i - x + c /\ at(i) > d
    BY <1>0
  <2>2. ASSUME IsTool(t[i]) PROVE Pending(t, i) # 0 /\ HasToolCalls(t[Pending(t, i)])
    <3>0. at(i) \in 1 .. Len(s) /\ IsTool(s[at(i)])
      BY <1>2, <1>3, <2>1, <2>2
    <3>1. PICK k \in 1 .. at(i) - 1 : HasToolCalls(s[at(i) - k]) /\ k <= s[at(i) - k].calls
      <4> HIDE DEF at
      <4>1. Blocks(s) /\ DOMAIN s = 1 .. Len(s)
        BY DEF Sound
      <4>2. QED BY <3>0, <4>1 DEF Blocks
    <3> DEFINE a == at(i) - k
    <3>2. /\ a \in 1 .. Len(s) /\ ~IsTool(s[a])
          /\ \A j \in a + 1 .. at(i) : IsTool(s[j])
      <4>1. a \in 1 .. Len(s)
        BY <1>3, <2>1, <3>1, SMTT(30)
      <4>2. s[a].calls \in Nat
        <5>1. s[a] \in Msg
          BY <4>1, ElementOfSeq
        <5>2. QED BY <5>1 DEF Msg
      <4>3. \A h \in 1 .. s[a].calls : IsTool(s[a + h])
        BY <3>1, <4>1 DEF Sound, Blocks
      <4>4. ASSUME NEW j \in a + 1 .. at(i) PROVE IsTool(s[j])
        <5>1. j - a \in 1 .. s[a].calls /\ a + (j - a) = j
          BY <2>1, <3>1, <4>1, <4>2
        <5>2. QED BY <4>3, <5>1
      <4>5. QED BY <3>1, <4>1, <4>4 DEF HasToolCalls, IsTool
    <3>3. a > d
      <4>1. CASE a \in c + 1 .. d
        BY <1>1, <3>2, <4>1
      <4>2. CASE a <= c
        <5>1. d < Len(s) /\ d + 1 \in a + 1 .. at(i)
          BY <1>1, <1>3, <2>1, <3>2, <4>2
        <5>2. QED BY <1>1, <3>2, <5>1
      <4>3. QED BY <1>1, <3>2, <4>1, <4>2, SMTT(30)
    <3> DEFINE p == i - k
    <3>9. k \in Nat \ {0} /\ a = i - x + c - k
      <4> HIDE DEF at
      <4>1. i - x + c \in Nat
        BY <1>0, <2>1
      <4>2. QED BY <2>1, <3>1, <4>1
    <3>4. p \in 1 .. i - 1 /\ p \in 1 .. n /\ at(p) = a
      BY <1>0, <2>1, <3>9, <3>3
    <3>6. \A j \in p + 1 .. i - 1 : IsTool(t[j])
      <4>1. \A j \in p + 1 .. i - 1 : j \in 1 .. n /\ at(j) \in a + 1 .. at(i)
        BY <1>1, <2>1, <3>1, <3>3, <3>4
      <4>2. QED BY <1>2, <3>2, <4>1
    <3> HIDE DEF p, a, at
    <3>5. t[p] = s[a] /\ HasToolCalls(t[p]) /\ ~IsTool(t[p])
      <4>1. HasToolCalls(s[a])
        BY <3>1 DEF a
      <4>2. t[p] = s[a]
        BY <1>2, <3>4
      <4>3. QED BY <3>2, <4>1, <4>2
    <3>7. Pending(t, i) = p
      <4>1. i \in Nat
        BY <2>1
      <4>2. QED BY <3>4, <3>5, <3>6, <4>1, PendingIs
    <3>8. QED BY <3>4, <3>5, <3>7
  <2>3. ASSUME HasToolCalls(t[i]) PROVE i < n /\ IsTool(t[i + 1])
    <3>1. HasToolCalls(s[at(i)]) /\ s[at(i)] \in Msg
      BY <1>2, <1>3, <2>1, <2>3, ElementOfSeq
    <3>2. 1 \in 1 .. s[at(i)].calls
      BY <3>1 DEF HasToolCalls, Msg
    <3>3. at(i) + 1 \in 1 .. Len(s) /\ IsTool(s[at(i) + 1])
      <4>1. at(i) \in 1 .. Len(s)
        BY <1>3, <2>1
      <4> HIDE DEF at
      <4>2. Blocks(s) /\ DOMAIN s = 1 .. Len(s)
        BY DEF Sound
      <4>3. QED BY <3>1, <3>2, <4>1, <4>2 DEF Blocks
    <3>4. i + 1 \in 1 .. n /\ at(i + 1) = at(i) + 1
      BY <2>1, <3>3, SMTT(30)
    <3>5. QED BY <1>2, <3>3, <3>4
  <2>4. QED BY <1>2, <2>2, <2>3 DEF Valid
<1>7. FixMessages(t) = Without(t, x, y)
  <2>1. \A i \in 1 .. Len(t) : Valid(t, i) <=> i <= x \/ i > y
    BY <1>2, <1>3, <1>4, <1>5, <1>6
  <2>2. y \in 0 .. Len(t) /\ x \in 0 .. y
    BY <1>2, <1>3
  <2>3. QED BY <1>2, <2>1, <2>2, FixRemoves
<1>8. Without(t, x, y) = Without(s, x, d)
  <2> DEFINE u == Without(t, x, y)
             v == Without(s, x, d)
  <2>1. /\ u \in Seq(Msg) /\ Len(u) = x + n - y
        /\ \A i \in 1 .. x + n - y : u[i] = IF i <= x THEN t[i] ELSE t[i - x + y]
    <3>1. y \in 0 .. Len(t) /\ x \in 0 .. y
      BY <1>2, <1>3
    <3>2. QED BY <1>2, <3>1, RemoveIs
  <2>2. /\ v \in Seq(Msg) /\ Len(v) = x + Len(s) - d
        /\ \A i \in 1 .. x + Len(s) - d : v[i] = IF i <= x THEN s[i] ELSE s[i - x + d]
    <3>1. d \in 0 .. Len(s) /\ x \in 0 .. d
      BY <1>1
    <3>2. QED BY <3>1, RemoveIs
  <2> HIDE DEF u, v
  <2>3. x + n - y = x + Len(s) - d
    BY <1>1
  <2>4. ASSUME NEW i \in 1 .. x + n - y PROVE u[i] = v[i]
    <3>1. CASE i <= x
      <4>1. i \in 1 .. n /\ at(i) = i
        BY <1>3, <3>1
      <4>2. QED BY <1>2, <2>1, <2>2, <2>3, <2>4, <3>1, <4>1
    <3>2. CASE i > x
      <4>1. i - x + y \in 1 .. n /\ at(i - x + y) = i - x + d
        BY <1>1, <1>3, <2>4, <3>2
      <4>2. u[i] = t[i - x + y] /\ v[i] = s[i - x + d]
        BY <2>1, <2>2, <2>3, <2>4, <3>2
      <4>3. QED BY <1>2, <4>1, <4>2
    <3>3. QED BY <3>1, <3>2, <1>3
  <2>5. u = v
    BY <2>1, <2>2, <2>3, <2>4, SeqEqual
  <2>6. QED BY <2>5 DEF u, v
<1>9. Sound(Without(s, x, d)) /\ HasUser(Without(s, x, d))
  <2>1. d \in 0 .. Len(s) /\ x \in 0 .. d
    BY <1>1
  <2>2. \/ \E i \in 1 .. x : IsUser(s[i])
        \/ d < Len(s) /\ IsUser(s[d + 1])
    <3>1. CASE c < Len(s) /\ IsUser(s[c + 1])
      <4>1. ~IsTool(s[c + 1])
        BY <3>1 DEF IsUser, IsTool
      <4>2. d = c
        <5>1. ~(c + 1 \in c + 1 .. d)
          BY <1>1, <4>1
        <5>2. QED BY <1>1, <5>1
      <4>3. QED BY <3>1, <4>2
    <3>2. QED BY <3>1
  <2>3. QED BY <1>1, <2>1, <2>2, RemoveKeeps
<1>10. QED BY <1>7, <1>8, <1>9 DEF t

-----------------------------------------------------------------------------
(* The truncations *)

\* What follows the first user's message, if any, is a suffix still.
LEMMA FromUser ==
  ASSUME NEW s \in Seq(Msg), NEW c \in 0 .. Len(s)
  PROVE  \E d \in c .. Len(s) :
           /\ FromFirstUser(SubSeq(s, c + 1, Len(s))) = SubSeq(s, d + 1, Len(s))
           /\ (d < Len(s) /\ IsUser(s[d + 1])) \/ \A i \in c + 1 .. Len(s) : ~IsUser(s[i])
<1> DEFINE b == SubSeq(s, c + 1, Len(s))
           U == {k \in 1 .. Len(b) : IsUser(b[k])}
           u == Min(U)
<1>0. Len(s) \in Nat
  OBVIOUS
<1>1. b \in Seq(Msg) /\ Len(b) = Len(s) - c /\ \A i \in 1 .. Len(s) - c : b[i] = s[c + i]
  BY Suffix
<1>2. SelectInSeq(b, IsUser) = IF U # {} THEN u ELSE 0
  BY DEF SelectInSeq
<1> HIDE DEF b, u
<1>3. CASE U = {}
  <2>1. FromFirstUser(b) = b
    BY <1>2, <1>3 DEF FromFirstUser
  <2>2. \A i \in c + 1 .. Len(s) : ~IsUser(s[i])
    <3> SUFFICES ASSUME NEW i \in c + 1 .. Len(s) PROVE ~IsUser(s[i])
      OBVIOUS
    <3>1. i - c \in 1 .. Len(b) /\ c + (i - c) = i
      BY <1>0, <1>1
    <3>2. QED BY <1>1, <1>3, <3>1
  <2>3. QED BY <1>0, <2>1, <2>2 DEF b
<1>4. CASE U # {}
  <2>1. u \in U
    <3>1. U \subseteq Nat
      BY <1>0, <1>1
    <3>2. QED BY <1>4, <3>1, Least DEF u
  <2>2. u \in 1 .. Len(s) - c /\ u # 0 /\ IsUser(s[c + u])
    BY <1>1, <2>1
  <2> DEFINE d == c + u - 1
  <2>3. d \in c .. Len(s) /\ d < Len(s) /\ d + 1 = c + u
    BY <1>0, <2>2
  <2>4. FromFirstUser(b) = SubSeq(b, u, Len(b))
    BY <1>2, <1>4, <2>2 DEF FromFirstUser
  <2>5. SubSeq(b, u, Len(b)) = SubSeq(s, d + 1, Len(s))
    <3> DEFINE p == SubSeq(b, u, Len(b))
               q == SubSeq(s, d + 1, Len(s))
    <3>1. p \in Seq(Msg) /\ Len(p) = Len(s) - d /\ \A i \in 1 .. Len(s) - d : p[i] = b[u + i - 1]
      BY <1>0, <1>1, <2>2
    <3>2. q \in Seq(Msg) /\ Len(q) = Len(s) - d /\ \A i \in 1 .. Len(s) - d : q[i] = s[d + i]
      <4>1. d \in 0 .. Len(s)
        BY <1>0, <2>3
      <4>2. QED BY <4>1, Suffix
    <3> HIDE DEF p, q
    <3>3. ASSUME NEW i \in 1 .. Len(s) - d PROVE p[i] = q[i]
      <4>1. u + i - 1 \in 1 .. Len(s) - c /\ c + (u + i - 1) = d + i
        BY <1>0, <2>2
      <4>2. QED BY <1>1, <3>1, <3>2, <4>1
    <3>4. p = q
      BY <3>1, <3>2, <3>3, SeqEqual
    <3>5. QED BY <3>4 DEF p, q
  <2> HIDE DEF d
  <2>6. QED BY <2>2, <2>3, <2>4, <2>5 DEF b
<1>5. QED BY <1>3, <1>4

\* The repaired cut of a conversation with a user keeps what it has to.
LEMMA CutKeeps ==
  ASSUME NEW s, Sound(s), HasUser(s), NEW c \in NSystem(s) .. Len(s)
  PROVE  LET r == Repair(s, FromFirstUser(SubSeq(s, c + 1, Len(s))))
         IN  Sound(r) /\ HasUser(r)
<1> s \in Seq(Msg) /\ Len(s) \in Nat /\ DOMAIN s = 1 .. Len(s)
  BY DEF Sound
<1> DEFINE m == NSystem(s)
           p == m + 1
<1>1. /\ m \in Nat /\ p \in 1 .. Len(s) /\ IsUser(s[p]) /\ SelectInSeq(s, IsUser) = p
      /\ \A j \in 1 .. m : s[j].role = "system"
  <2>1. p \in 1 .. Len(s) /\ \A j \in 1 .. p - 1 : s[j].role = "system"
    BY UserIsFirst
  <2>2. m \in Nat
    BY UserIsFirst
  <2>3. p - 1 = m
    BY <2>2
  <2>4. QED BY <2>1, <2>2, <2>3, UserIsFirst
<1>2. PICK d \in c .. Len(s) :
        /\ FromFirstUser(SubSeq(s, c + 1, Len(s))) = SubSeq(s, d + 1, Len(s))
        /\ (d < Len(s) /\ IsUser(s[d + 1])) \/ \A i \in c + 1 .. Len(s) : ~IsUser(s[i])
  <2>1. c \in 0 .. Len(s)
    BY <1>1
  <2>2. QED BY <2>1, FromUser
<1> DEFINE t == SubSeq(s, d + 1, Len(s))
           w == EnsureUserMessage(System(s), t, s)
<1> HIDE DEF m
<1>3. System(s) = SubSeq(s, 1, m)
  BY DEF System, m
<1>4. d \in 0 .. Len(s) /\ m \in 0 .. d
  BY <1>1, <1>2 DEF m
<1>5. (t # <<>> <=> d < Len(s)) /\ (t # <<>> => Head(t) = s[d + 1])
  <2>1. t \in Seq(Msg) /\ Len(t) = Len(s) - d /\ \A i \in 1 .. Len(s) - d : t[i] = s[d + i]
    <3>1. d \in 0 .. Len(s)
      BY <1>4
    <3>2. QED BY <3>1, Suffix
  <2> HIDE DEF t
  <2>2. (t # <<>> <=> d < Len(s)) /\ (t # <<>> => Head(t) = t[1] /\ 1 \in 1 .. Len(s) - d)
    BY <1>4, <2>1
  <2>3. QED BY <2>1, <2>2
<1>6. CASE t # <<>> /\ IsUser(Head(t))
  <2>1. w = Without(s, m, d)
    BY <1>3, <1>6 DEF EnsureUserMessage, Without
  <2>2. d < Len(s) /\ IsUser(s[d + 1])
    BY <1>5, <1>6
  <2>3. Sound(FixMessages(w)) /\ HasUser(FixMessages(w))
    BY <1>1, <1>4, <2>1, <2>2, FixKeeps
  <2>4. QED BY <1>2, <2>3 DEF Repair
<1>7. CASE ~(t # <<>> /\ IsUser(Head(t)))
  <2>1. w = System(s) \o <<s[p]>> \o t
    <3>1. SelectInSeq(s, IsUser) = p /\ p # 0
      BY <1>1
    <3> HIDE DEF p, t
    <3>2. QED BY <1>7, <3>1 DEF EnsureUserMessage
  <2>2. System(s) \o <<s[p]>> = SubSeq(s, 1, p)
    BY <1>1, <1>3
  <2>3. w = Without(s, p, d)
    BY <2>1, <2>2 DEF Without
  <2>4. d # m
    <3>1. ~(d < Len(s) /\ IsUser(s[d + 1]))
      BY <1>5, <1>7
    <3>2. QED BY <1>1, <3>1
  <2>5. p \in 0 .. d
    BY <1>1, <1>4, <2>4
  <2>6. /\ \A i \in 1 .. p : s[i].role \in {"system", "user"}
        /\ \E i \in 1 .. p : IsUser(s[i])
    BY <1>1 DEF IsUser
  <2>7. Sound(FixMessages(w)) /\ HasUser(FixMessages(w))
    BY <1>4, <2>3, <2>5, <2>6, FixKeeps
  <2>8. QED BY <1>2, <2>7 DEF Repair
<1>8. QED BY <1>6, <1>7

LEMMA RestIs ==
  ASSUME NEW s, Sound(s), HasUser(s)
  PROVE  LET m == NSystem(s)
         IN  /\ m \in 0 .. Len(s) - 1 /\ Rest(s) = SubSeq(s, m + 1, Len(s))
             /\ Rest(s) \in Seq(Msg) /\ Len(Rest(s)) = Len(s) - m
             /\ \A a \in 0 .. Len(s) - m :
                  SubSeq(Rest(s), a + 1, Len(Rest(s))) = SubSeq(s, m + a + 1, Len(s))
<1> s \in Seq(Msg) /\ Len(s) \in Nat /\ DOMAIN s = 1 .. Len(s)
  BY DEF Sound
<1> DEFINE m == NSystem(s)
           r == Rest(s)
<1>1. m \in 0 .. Len(s) - 1
  <2>1. m + 1 \in 1 .. Len(s) /\ m \in Nat
    BY UserIsFirst
  <2> HIDE DEF m
  <2>2. QED BY <2>1
<1>2. r = SubSeq(s, m + 1, Len(s))
  BY DEF Rest
<1> HIDE DEF m, r
<1>3. r \in Seq(Msg) /\ Len(r) = Len(s) - m /\ \A i \in 1 .. Len(s) - m : r[i] = s[m + i]
  BY <1>1, <1>2, Suffix
<1>4. ASSUME NEW a \in 0 .. Len(s) - m
      PROVE  SubSeq(r, a + 1, Len(r)) = SubSeq(s, m + a + 1, Len(s))
  <2> DEFINE u == SubSeq(r, a + 1, Len(r))
             v == SubSeq(s, m + a + 1, Len(s))
  <2>1. u \in Seq(Msg) /\ Len(u) = Len(s) - m - a /\ \A i \in 1 .. Len(s) - m - a : u[i] = r[a + i]
    <3>1. a \in 0 .. Len(r) /\ Len(r) - a = Len(s) - m - a
      BY <1>1, <1>3
    <3>2. QED BY <1>3, <3>1, Suffix
  <2>2. v \in Seq(Msg) /\ Len(v) = Len(s) - m - a /\ \A i \in 1 .. Len(s) - m - a : v[i] = s[m + a + i]
    <3>1. m + a \in 0 .. Len(s) /\ Len(s) - (m + a) = Len(s) - m - a
      BY <1>1
    <3>2. QED BY <3>1, Suffix
  <2> HIDE DEF u, v
  <2>3. ASSUME NEW i \in 1 .. Len(s) - m - a PROVE u[i] = v[i]
    <3>1. a + i \in 1 .. Len(s) - m /\ m + (a + i) = m + a + i
      BY <1>1
    <3>2. QED BY <1>3, <2>1, <2>2, <3>1
  <2>4. u = v
    BY <2>1, <2>2, <2>3, SeqEqual
  <2>5. QED BY <2>4 DEF u, v
<1>5. QED BY <1>1, <1>2, <1>3, <1>4 DEF m, r

\* Leaving out the first a messages of the rest, or all of them.
LEMMA DropKeeps ==
  ASSUME NEW s, Sound(s), HasUser(s), NEW t,
         \/ t = <<>>
         \/ \E a \in 0 .. Len(Rest(s)) : t = SubSeq(Rest(s), a + 1, Len(Rest(s)))
  PROVE  Sound(Repair(s, FromFirstUser(t))) /\ HasUser(Repair(s, FromFirstUser(t)))
<1> s \in Seq(Msg) /\ Len(s) \in Nat
  BY DEF Sound
<1> DEFINE m == NSystem(s)
<1>1. /\ m \in 0 .. Len(s) - 1 /\ Len(Rest(s)) = Len(s) - m
      /\ \A a \in 0 .. Len(s) - m :
           SubSeq(Rest(s), a + 1, Len(Rest(s))) = SubSeq(s, m + a + 1, Len(s))
  BY RestIs
<1>2. \E c \in m .. Len(s) : t = SubSeq(s, c + 1, Len(s))
  <2> HIDE DEF m
  <2>1. CASE t = <<>>
    <3>1. SubSeq(s, Len(s) + 1, Len(s)) = <<>> /\ Len(s) \in m .. Len(s)
      BY <1>1
    <3>2. QED BY <2>1, <3>1
  <2>2. ASSUME NEW a \in 0 .. Len(Rest(s)), t = SubSeq(Rest(s), a + 1, Len(Rest(s)))
        PROVE  \E c \in m .. Len(s) : t = SubSeq(s, c + 1, Len(s))
    <3>1. m + a \in m .. Len(s) /\ a \in 0 .. Len(s) - m
      BY <1>1
    <3>2. t = SubSeq(s, m + a + 1, Len(s))
      BY <1>1, <2>2, <3>1
    <3>3. QED BY <3>1, <3>2
  <2>3. QED BY <2>1, <2>2
<1>3. QED BY <1>2, CutKeeps

LEMMA TruncationsKeep ==
  ASSUME NEW s, Sound(s), HasUser(s), NEW k \in Nat, NEW d \in Nat, NEW r,
         r \in {TruncateByTurns(s, k, d), TruncateByDroppingOldestTurns(s, d), TruncateByHalving(s)}
  PROVE  Sound(r) /\ HasUser(r)
<1> DEFINE t == Rest(s)
           Drop(a) == SubSeq(t, a + 1, Len(t))
<1>1. t \in Seq(Msg) /\ Len(t) \in Nat
  <2>1. t \in Seq(Msg)
    BY RestIs
  <2>2. QED BY <2>1
<1> HIDE DEF t
<1>2. CASE r = TruncateByTurns(s, k, d)
  <2>1. CASE Len(t) \div 2 <= k
    BY <1>2, <2>1 DEF TruncateByTurns, t
  <2>2. CASE ~(Len(t) \div 2 <= k)
    <3> DEFINE n == (k + 1 - d) * 2
               u == IF k + 1 <= d THEN <<>> ELSE LastN(t, n)
    <3>1. r = Repair(s, FromFirstUser(u))
      BY <1>2, <2>2 DEF TruncateByTurns, t
    <3>2. CASE k + 1 <= d
      BY <3>1, <3>2, DropKeeps
    <3>3. CASE ~(k + 1 <= d)
      <4>1. n \in Nat
        BY <3>3
      <4>2. u = LastN(t, n)
        BY <3>3
      <4> HIDE DEF n, u
      <4>3. \E a \in 0 .. Len(t) : u = Drop(a)
        <5>1. CASE n >= Len(t)
          <6>1. Drop(0) = t
            BY <1>1
          <6>2. QED BY <1>1, <4>2, <5>1, <6>1 DEF LastN
        <5>2. CASE ~(n >= Len(t))
          <6>1. Len(t) - n \in 0 .. Len(t)
            BY <1>1, <4>1, <5>2
          <6>2. u = Drop(Len(t) - n)
            BY <4>2, <5>2 DEF LastN
          <6>3. QED BY <6>1, <6>2
        <5>3. QED BY <5>1, <5>2
      <4>4. QED BY <3>1, <4>3, DropKeeps DEF t
    <3>4. QED BY <3>2, <3>3
  <2>3. QED BY <2>1, <2>2
<1>3. CASE r = TruncateByDroppingOldestTurns(s, d)
  <2>1. CASE d = 0
    BY <1>3, <2>1 DEF TruncateByDroppingOldestTurns
  <2>2. CASE d # 0
    <3> DEFINE u == IF Len(t) \div 2 <= d THEN <<>> ELSE Drop(d * 2)
    <3>1. r = Repair(s, FromFirstUser(u))
      BY <1>3, <2>2 DEF TruncateByDroppingOldestTurns, t
    <3>2. CASE Len(t) \div 2 <= d
      BY <3>1, <3>2, DropKeeps
    <3>3. CASE ~(Len(t) \div 2 <= d)
      <4>1. d * 2 \in 0 .. Len(t)
        BY <1>1, <3>3
      <4>2. u = Drop(d * 2)
        BY <3>3
      <4>3. QED BY <3>1, <4>1, <4>2, DropKeeps DEF t
    <3>4. QED BY <3>2, <3>3
  <2>3. QED BY <2>1, <2>2
<1>4. CASE r = TruncateByHalving(s)
  <2> DEFINE gone == Len(t) \div 2
  <2>1. CASE Len(s) <= 2 \/ gone = 0
    BY <1>4, <2>1 DEF TruncateByHalving, t
  <2>2. CASE ~(Len(s) <= 2 \/ gone = 0)
    <3>1. r = Repair(s, FromFirstUser(Drop(gone)))
      BY <1>4, <2>2 DEF TruncateByHalving, t
    <3>2. gone \in 0 .. Len(t)
      BY <1>1
    <3>3. QED BY <3>1, <3>2, DropKeeps DEF t
  <2>3. QED BY <2>1, <2>2
<1>5. QED BY <1>2, <1>3, <1>4

-----------------------------------------------------------------------------
(* The conversation *)

LEMMA ContextInit == CInit => ContextInv
<1> SUFFICES ASSUME CInit PROVE ContextInv
  OBVIOUS
<1> DEFINE m == Message("system", 0, 0)
<1>0. m \in Msg
  BY DEF Message, Msg
<1>1. history \in Seq(Msg)
  <2>1. history \in {<<>>, <<m>>}
    BY DEF CInit
  <2> HIDE DEF m
  <2>2. <<>> \in Seq(Msg) /\ <<m>> \in Seq(Msg)
    BY <1>0
  <2>3. QED BY <2>1, <2>2
<1>2. \A i \in DOMAIN history : i = 1 /\ history[i] = Message("system", 0, 0)
  BY DEF CInit
<1>3. QED BY <1>1, <1>2 DEF ContextInv, CInit, Sound, Blocks, Increasing, Leads, First, HasUser,
              Message, IsTool, IsUser, HasToolCalls, Bounded

\* What is spoken is a step: messages numbered on, calls with their answers.
Said(ms) ==
  /\ ms \in Seq(Msg) /\ Blocks(ms)
  /\ \A i \in DOMAIN ms : ms[i].n = spoken + i /\ ms[i].role # "system"
  /\ HasUser(history) \/ IsUser(ms[1])

LEMMA SpeakKeeps ==
  ASSUME ContextInv, NEW ms, Said(ms), ms # <<>>, Speak(ms)
  PROVE  ContextInv'
<1> DEFINE h == history
           L == Len(h)
           r == h \o ms
<1>0. /\ h \in Seq(Msg) /\ L \in Nat /\ DOMAIN h = 1 .. L
      /\ ms \in Seq(Msg) /\ Len(ms) \in Nat \ {0} /\ DOMAIN ms = 1 .. Len(ms) /\ spoken \in Nat
  BY EmptySeq DEF ContextInv, Sound, Said
<1> HIDE DEF r, L
<1>1. /\ r \in Seq(Msg) /\ Len(r) = L + Len(ms) /\ DOMAIN r = 1 .. L + Len(ms)
      /\ \A i \in 1 .. L : r[i] = h[i]
      /\ \A i \in 1 .. Len(ms) : r[L + i] = ms[i]
  <2>1. /\ r \in Seq(Msg) /\ Len(r) = L + Len(ms)
        /\ \A i \in 1 .. L + Len(ms) : r[i] = IF i <= L THEN h[i] ELSE ms[i - L]
    BY <1>0, ConcatProperties DEF r, L
  <2>2. \A i \in 1 .. Len(ms) : L + i \in 1 .. L + Len(ms) /\ ~(L + i <= L) /\ L + i - L = i
    BY <1>0
  <2>3. \A i \in 1 .. L : i \in 1 .. L + Len(ms) /\ i <= L
    BY <1>0
  <2>4. ASSUME NEW i \in 1 .. Len(ms) PROVE r[L + i] = ms[i]
    <3> DEFINE j == L + i
    <3>1. j \in 1 .. L + Len(ms) /\ ~(j <= L) /\ j - L = i
      BY <1>0
    <3> HIDE DEF j
    <3>2. r[j] = ms[j - L]
      BY <2>1, <3>1
    <3>3. QED BY <3>1, <3>2 DEF j
  <2>5. QED BY <1>0, <2>1, <2>3, <2>4
<1>2. ASSUME NEW i \in 1 .. L + Len(ms), ~(i \in 1 .. L)
      PROVE  i - L \in 1 .. Len(ms) /\ r[i] = ms[i - L] /\ i = L + (i - L)
  <2>1. i - L \in 1 .. Len(ms) /\ i = L + (i - L)
    BY <1>0, <1>2
  <2>2. QED BY <1>1, <2>1
<1>3. Increasing(r)
  <2>1. ASSUME NEW i \in 1 .. L + Len(ms), NEW j \in 1 .. L + Len(ms), i < j
        PROVE  r[i].n < r[j].n
    <3>1. CASE j \in 1 .. L
      <4>1. i \in 1 .. L
        BY <1>0, <2>1, <3>1
      <4>2. QED BY <1>0, <1>1, <2>1, <3>1, <4>1 DEF ContextInv, Sound, Increasing
    <3>2. CASE j \notin 1 .. L
      <4>1. r[j].n = spoken + (j - L)
        BY <1>0, <1>2, <3>2 DEF Said
      <4>2. CASE i \in 1 .. L
        <5>1. r[i].n <= spoken /\ r[i].n \in Nat
          <6>1. r[i] \in Msg
            BY <1>0, <1>1, <4>2, ElementOfSeq
          <6>2. QED BY <1>0, <1>1, <4>2, <6>1 DEF ContextInv, Sound, Bounded, Msg
        <5>2. j - L >= 1
          BY <1>0, <3>2
        <5>3. QED BY <1>0, <4>1, <5>1, <5>2
      <4>3. CASE i \notin 1 .. L
        <5>1. r[i].n = spoken + (i - L)
          BY <1>0, <1>2, <4>3 DEF Said
        <5>2. QED BY <1>0, <2>1, <4>1, <5>1
      <4>4. QED BY <4>2, <4>3
    <3>3. QED BY <3>1, <3>2
  <2>2. QED BY <1>1, <2>1 DEF Increasing
<1>4. Blocks(r)
  <2>1. ASSUME NEW i \in 1 .. L + Len(ms), HasToolCalls(r[i]), NEW k \in 1 .. r[i].calls
        PROVE  i + k \in 1 .. L + Len(ms) /\ IsTool(r[i + k]) /\ r[i + k].n = r[i].n + k
    <3>1. CASE i \in 1 .. L
      <4>1. i + k \in 1 .. L /\ IsTool(h[i + k]) /\ h[i + k].n = h[i].n + k
        BY <1>0, <1>1, <2>1, <3>1 DEF ContextInv, Sound, Blocks
      <4>2. QED BY <1>0, <1>1, <3>1, <4>1
    <3>2. CASE i \notin 1 .. L
      <4> DEFINE j == i - L
      <4>1. j \in 1 .. Len(ms) /\ r[i] = ms[j] /\ i = L + j
        BY <1>2, <3>2
      <4> HIDE DEF j
      <4>2. j + k \in 1 .. Len(ms) /\ IsTool(ms[j + k]) /\ ms[j + k].n = ms[j].n + k
        BY <1>0, <2>1, <4>1 DEF Said, Blocks
      <4>3. k \in Int
        BY <2>1
      <4>4. i + k = L + (j + k) /\ i + k \in 1 .. L + Len(ms)
        BY <1>0, <4>1, <4>2, <4>3
      <4>5. r[i + k] = ms[j + k]
        BY <1>1, <4>2, <4>4
      <4>6. QED BY <4>1, <4>2, <4>4, <4>5
    <3>3. QED BY <3>1, <3>2
  <2>2. ASSUME NEW i \in 1 .. L + Len(ms), IsTool(r[i])
        PROVE  \E k \in 1 .. i - 1 : HasToolCalls(r[i - k]) /\ k <= r[i - k].calls
    <3>1. CASE i \in 1 .. L
      <4>1. PICK k \in 1 .. i - 1 : HasToolCalls(h[i - k]) /\ k <= h[i - k].calls
        BY <1>0, <1>1, <2>2, <3>1 DEF ContextInv, Sound, Blocks
      <4>2. i - k \in 1 .. L
        BY <1>0, <3>1
      <4>3. QED BY <1>1, <4>1, <4>2
    <3>2. CASE i \notin 1 .. L
      <4> DEFINE j == i - L
      <4>1. j \in 1 .. Len(ms) /\ r[i] = ms[j] /\ i = L + j
        BY <1>2, <3>2
      <4> HIDE DEF j
      <4>2. PICK k \in 1 .. j - 1 : HasToolCalls(ms[j - k]) /\ k <= ms[j - k].calls
        BY <1>0, <2>2, <4>1 DEF Said, Blocks
      <4>3. j - k \in 1 .. Len(ms) /\ i - k = L + (j - k) /\ k \in 1 .. i - 1
        BY <1>0, <4>1
      <4>4. r[i - k] = ms[j - k]
        BY <1>1, <4>3
      <4>5. QED BY <4>2, <4>3, <4>4
    <3>3. QED BY <3>1, <3>2
  <2>3. QED BY <1>1, <2>1, <2>2, Zenon DEF Blocks
<1>5. HasUser(r)
  <2>1. CASE HasUser(h)
    BY <1>0, <1>1, <2>1 DEF HasUser
  <2>2. CASE IsUser(ms[1])
    <3>1. 1 \in 1 .. Len(ms) /\ L + 1 \in 1 .. L + Len(ms)
      BY <1>0
    <3>2. QED BY <1>1, <2>2, <3>1 DEF HasUser
  <2>3. QED BY <2>1, <2>2 DEF Said
<1>6. Leads(r)
  <2> SUFFICES ASSUME NEW i \in 1 .. L + Len(ms), First(r, i) PROVE IsUser(r[i])
    BY <1>1 DEF Leads
  <2>1. r[i].role # "system" /\ \A j \in 1 .. i - 1 : r[j].role = "system"
    BY DEF First
  <2>2. CASE i \in 1 .. L
    <3>1. First(h, i)
      <4>1. \A j \in 1 .. i - 1 : j \in 1 .. L
        BY <1>0, <2>2
      <4>2. QED BY <1>0, <1>1, <2>1, <2>2, <4>1 DEF First
    <3>2. QED BY <1>0, <1>1, <2>2, <3>1 DEF ContextInv, Sound, Leads
  <2>3. CASE i \notin 1 .. L
    <3>1. i - L \in 1 .. Len(ms) /\ r[i] = ms[i - L]
      BY <1>2, <2>3
    <3>2. ~HasUser(h)
      <4>1. \A j \in 1 .. L : j \in 1 .. i - 1
        BY <1>0, <2>3
      <4>2. QED BY <1>0, <1>1, <2>1, <4>1 DEF HasUser, IsUser
    <3>3. i - L = 1
      <4>1. CASE i - L # 1
        <5>1. L + 1 \in 1 .. i - 1 /\ 1 \in 1 .. Len(ms)
          BY <1>0, <3>1, <4>1
        <5>2. QED BY <1>0, <1>1, <2>1, <5>1, SMTT(30) DEF Said
      <4>2. QED BY <4>1
    <3>4. QED BY <3>1, <3>2, <3>3 DEF Said
  <2>4. QED BY <2>2, <2>3
<1>7. history' = r /\ spoken' = spoken + Len(ms)
  BY DEF Speak, r
<1>8. ASSUME NEW i \in 1 .. L + Len(ms) PROVE r[i].n <= spoken + Len(ms)
  <2>1. CASE i \in 1 .. L
    <3>1. r[i] \in Msg
      BY <1>0, <1>1, <2>1, ElementOfSeq
    <3>2. r[i].n <= spoken /\ r[i].n \in Nat
      BY <1>0, <1>1, <2>1, <3>1 DEF ContextInv, Sound, Bounded, Msg
    <3>3. QED BY <1>0, <3>2
  <2>2. CASE i \notin 1 .. L
    <3>1. r[i].n = spoken + (i - L) /\ i - L <= Len(ms)
      BY <1>0, <1>2, <2>2 DEF Said
    <3>2. QED BY <1>0, <3>1
  <2>3. QED BY <2>1, <2>2
<1>9. spoken + Len(ms) \in Nat
  BY <1>0
<1>10. QED BY <1>1, <1>3, <1>4, <1>5, <1>6, <1>7, <1>8, <1>9 DEF ContextInv, Sound, Bounded

\* One message that makes no calls, or an assistant's calls with the answers.
LEMMA OneSaid ==
  ASSUME ContextInv, NEW role \in {"user", "assistant"}, HasUser(history) \/ role = "user"
  PROVE  LET ms == <<Message(role, 0, spoken + 1)>> IN Said(ms) /\ ms # <<>>
<1> DEFINE m == Message(role, 0, spoken + 1)
           ms == <<m>>
<1>1. spoken \in Nat
  BY DEF ContextInv
<1>2. m \in Msg /\ m.n = spoken + 1 /\ m.role = role /\ m.calls = 0
  BY <1>1 DEF Msg, Message
<1> HIDE DEF m
<1>3. ms \in Seq(Msg) /\ Len(ms) = 1 /\ DOMAIN ms = 1 .. 1 /\ ms[1] = m
  BY <1>2
<1>4. ms # <<>>
  OBVIOUS
<1> HIDE DEF ms
<1>5. \A i \in 1 .. 1 : i = 1
  OBVIOUS
<1>6. Blocks(ms)
  BY <1>2, <1>3, <1>5 DEF Blocks, HasToolCalls, IsTool
<1>7. \A i \in DOMAIN ms : ms[i].n = spoken + i /\ ms[i].role # "system"
  <2>1. \A i \in DOMAIN ms : i = 1 /\ ms[i] = m
    BY <1>3, <1>5
  <2>2. m.n = spoken + 1 /\ m.role # "system"
    BY <1>2
  <2>3. QED BY <2>1, <2>2
<1>8. HasUser(history) \/ IsUser(ms[1])
  BY <1>2, <1>3 DEF IsUser
<1>9. Said(ms) /\ ms # <<>>
  BY <1>3, <1>4, <1>6, <1>7, <1>8, Zenon DEF Said
<1>10. QED BY <1>9 DEF ms, m

LEMMA StepSaid ==
  ASSUME ContextInv, HasUser(history), NEW c \in Nat \ {0}
  PROVE  LET ms == <<Message("assistant", c, spoken + 1)>>
                     \o [k \in 1 .. c |-> Message("tool", 0, spoken + 1 + k)]
         IN  Said(ms) /\ ms # <<>>
<1> DEFINE a == Message("assistant", c, spoken + 1)
           t == [k \in 1 .. c |-> Message("tool", 0, spoken + 1 + k)]
           ms == <<a>> \o t
<1>1. spoken \in Nat
  BY DEF ContextInv
<1>2. a \in Msg /\ a.n = spoken + 1 /\ a.role = "assistant" /\ a.calls = c
  BY <1>1 DEF Msg, Message
<1>3. /\ t \in Seq(Msg) /\ Len(t) = c
      /\ \A k \in 1 .. c : t[k].n = spoken + 1 + k /\ t[k].role = "tool"
  <2>1. \A k \in 1 .. c : Message("tool", 0, spoken + 1 + k) \in Msg
    BY <1>1 DEF Msg, Message
  <2>2. t \in [1 .. c -> Msg]
    BY <2>1
  <2>3. QED BY <2>2 DEF Message
<1> HIDE DEF a, t
<1>4. /\ ms \in Seq(Msg) /\ Len(ms) = c + 1 /\ DOMAIN ms = 1 .. c + 1 /\ ms[1] = a
      /\ \A i \in 2 .. c + 1 : ms[i] = t[i - 1]
  <2>1. <<a>> \in Seq(Msg) /\ Len(<<a>>) = 1 /\ <<a>>[1] = a
    BY <1>2
  <2>2. /\ ms \in Seq(Msg) /\ Len(ms) = 1 + c
        /\ \A i \in 1 .. 1 + c : ms[i] = IF i <= 1 THEN <<a>>[i] ELSE t[i - 1]
    BY <1>3, <2>1, ConcatProperties
  <2> HIDE DEF ms
  <2>3. \A i \in 2 .. c + 1 : i \in 1 .. 1 + c /\ ~(i <= 1)
    OBVIOUS
  <2>4. ms[1] = a /\ \A i \in 2 .. c + 1 : ms[i] = t[i - 1]
    BY <2>1, <2>2, <2>3
  <2>5. QED BY <2>2, <2>4
<1> HIDE DEF ms
<1>5. \A i \in 2 .. c + 1 : ms[i].n = spoken + i /\ ms[i].role = "tool"
  <2> SUFFICES ASSUME NEW i \in 2 .. c + 1 PROVE ms[i].n = spoken + i /\ ms[i].role = "tool"
    OBVIOUS
  <2>1. i - 1 \in 1 .. c /\ spoken + 1 + (i - 1) = spoken + i
    BY <1>1
  <2>2. QED BY <1>3, <1>4, <2>1
<1>6. \A i \in 1 .. c + 1 : i = 1 \/ i \in 2 .. c + 1
  OBVIOUS
<1>7. Blocks(ms)
  <2>1. ASSUME NEW i \in 1 .. c + 1, HasToolCalls(ms[i]), NEW k \in 1 .. ms[i].calls
        PROVE  i + k \in 1 .. c + 1 /\ IsTool(ms[i + k]) /\ ms[i + k].n = ms[i].n + k
    <3>1. i = 1
      BY <1>5, <1>6, <2>1 DEF HasToolCalls
    <3>2. k \in 1 .. c /\ i + k \in 2 .. c + 1
      BY <1>2, <1>4, <2>1, <3>1
    <3>3. QED BY <1>1, <1>2, <1>4, <1>5, <3>1, <3>2 DEF IsTool
  <2>2. ASSUME NEW i \in 1 .. c + 1, IsTool(ms[i])
        PROVE  \E k \in 1 .. i - 1 : HasToolCalls(ms[i - k]) /\ k <= ms[i - k].calls
    <3>1. i \in 2 .. c + 1
      BY <1>2, <1>4, <1>6, <2>2 DEF IsTool
    <3>2. i - 1 \in 1 .. i - 1 /\ i - (i - 1) = 1 /\ i - 1 <= c
      BY <3>1
    <3>3. HasToolCalls(ms[1]) /\ ms[1].calls = c
      BY <1>2, <1>4 DEF HasToolCalls
    <3>4. QED BY <3>2, <3>3
  <2>3. QED BY <1>4, <2>1, <2>2, Zenon DEF Blocks
<1>8. \A i \in 1 .. c + 1 : ms[i].n = spoken + i /\ ms[i].role # "system"
  BY <1>2, <1>4, <1>5, <1>6
<1>9. ms # <<>>
  BY <1>4
<1>10. Said(ms) /\ ms # <<>>
  BY <1>4, <1>7, <1>8, <1>9 DEF Said
<1>11. QED BY <1>10 DEF ms, a, t

LEMMA ProcessKeeps == ASSUME ContextInv, Process PROVE ContextInv'
<1>1. Sound(history) /\ HasUser(history) /\ spoken \in Nat
  BY DEF ContextInv, Process, UserAsked, HasUser
<1>2. KeepTurns \subseteq Nat /\ DropTurns \subseteq Nat
  BY TruncatorAssumption
<1>3. PICK b \in EnforceMaxTurns(history) : history' \in Compress(b)
  BY DEF Process
<1>4. Sound(b) /\ HasUser(b)
  <2>1. \/ b = history
        \/ \E k \in KeepTurns, d \in DropTurns : b = TruncateByTurns(history, k, d)
    BY <1>3 DEF EnforceMaxTurns
  <2>2. ASSUME NEW k \in KeepTurns, NEW d \in DropTurns, b = TruncateByTurns(history, k, d)
        PROVE  Sound(b) /\ HasUser(b)
    BY <1>1, <1>2, <2>2, TruncationsKeep
  <2>3. QED BY <1>1, <2>1, <2>2
<1>5. Sound(history')
  <2>1. \/ history' = b
        \/ \E d \in DropTurns : history' \in {TruncateByDroppingOldestTurns(b, d),
                                  TruncateByHalving(TruncateByDroppingOldestTurns(b, d))}
    BY <1>3 DEF Compress
  <2>2. ASSUME NEW d \in DropTurns,
               history' \in {TruncateByDroppingOldestTurns(b, d),
                             TruncateByHalving(TruncateByDroppingOldestTurns(b, d))}
        PROVE  Sound(history')
    <3> DEFINE t == TruncateByDroppingOldestTurns(b, d)
    <3>1. Sound(t) /\ HasUser(t)
      BY <1>2, <1>4, TruncationsKeep
    <3> HIDE DEF t
    <3>2. Sound(TruncateByHalving(t))
      BY <1>2, <3>1, TruncationsKeep
    <3>3. QED BY <2>2, <3>1, <3>2 DEF t
  <2>3. QED BY <1>4, <2>1, <2>2
<1>6. spoken' = spoken
  BY DEF Process
<1>7. QED BY <1>1, <1>5, <1>6 DEF ContextInv, Sound, Bounded, Blocks, Increasing, Leads, First

LEMMA ContextStep == ContextInv /\ [CNext]_cvars => ContextInv'
<1> SUFFICES ASSUME ContextInv, [CNext]_cvars PROVE ContextInv'
  OBVIOUS
<1>1. CASE UserSpeaks
  BY <1>1, OneSaid, SpeakKeeps DEF UserSpeaks
<1>2. CASE AssistantSpeaks
  <2>1. HasUser(history)
    BY <1>2 DEF AssistantSpeaks, UserAsked, HasUser
  <2>2. QED BY <1>2, <2>1, OneSaid, SpeakKeeps DEF AssistantSpeaks
<1>3. CASE ToolStep
  <2>1. HasUser(history)
    BY <1>3 DEF ToolStep, UserAsked, HasUser
  <2>2. PICK c \in 1 .. MaxToolCalls :
          Speak(<<Message("assistant", c, spoken + 1)>>
                \o [k \in 1 .. c |-> Message("tool", 0, spoken + 1 + k)])
    BY <1>3 DEF ToolStep
  <2>3. c \in Nat \ {0}
    BY TruncatorAssumption
  <2>4. QED BY <2>1, <2>2, <2>3, StepSaid, SpeakKeeps
<1>4. CASE Process
  BY <1>4, ProcessKeeps
<1>5. CASE UNCHANGED cvars
  BY <1>5 DEF cvars, ContextInv, Sound, Bounded, Blocks, Increasing, Leads, First
<1>6. QED BY <1>1, <1>2, <1>3, <1>4, <1>5 DEF CNext

LEMMA ContextSafe == CSpec => []ContextInv
<1>1. QED BY ContextInit, ContextStep, PTL DEF CSpec

\* An answer's place behind its call is the place of the call among those pending.
LEMMA SoundIsPaired == ContextInv => PairingKept
<1> SUFFICES ASSUME ContextInv, NEW i \in DOMAIN history
             PROVE  /\ HasToolCalls(history[i]) =>
                         \A c \in 1 .. history[i].calls :
                           /\ i + c \in DOMAIN history /\ IsTool(history[i + c])
                           /\ history[i + c].n = history[i].n + c
                    /\ IsTool(history[i]) =>
                         LET p == Pending(history, i)
                         IN  p # 0 /\ history[i].n - history[p].n \in 1 .. history[p].calls
  BY DEF PairingKept
<1>1. history \in Seq(Msg) /\ Len(history) \in Nat /\ i \in 1 .. Len(history) /\ Blocks(history)
  BY DEF ContextInv, Sound
<1>2. ASSUME IsTool(history[i])
      PROVE  LET p == Pending(history, i)
             IN  p # 0 /\ history[i].n - history[p].n \in 1 .. history[p].calls
  <2>1. PICK c \in 1 .. i - 1 : HasToolCalls(history[i - c]) /\ c <= history[i - c].calls
    BY <1>1, <1>2 DEF Blocks
  <2> DEFINE p == i - c
  <2>2. p \in 1 .. i - 1 /\ p \in 1 .. Len(history) /\ c \in Nat \ {0} /\ i = p + c
    BY <1>1
  <2>3. history[p] \in Msg /\ HasToolCalls(history[p]) /\ c <= history[p].calls
    BY <1>1, <2>1, <2>2, ElementOfSeq
  <2> HIDE DEF p
  <2>4. \A k \in 1 .. history[p].calls :
          IsTool(history[p + k]) /\ history[p + k].n = history[p].n + k
    <3>1. p \in DOMAIN history
      BY <1>1, <2>2
    <3>2. QED BY <1>1, <2>3, <3>1 DEF Blocks
  <2>5. history[p].calls \in Nat /\ history[p].n \in Nat
    BY <2>3 DEF Msg
  <2>6. \A j \in p + 1 .. i - 1 : j - p \in 1 .. history[p].calls /\ p + (j - p) = j
    BY <2>2, <2>3, <2>5
  <2>7. \A j \in p + 1 .. i - 1 : IsTool(history[j])
    BY <2>4, <2>6
  <2>8. ~IsTool(history[p])
    BY <2>3 DEF HasToolCalls, IsTool
  <2>9. Pending(history, i) = p
    <3>1. i \in Nat
      BY <1>1
    <3>2. QED BY <2>2, <2>7, <2>8, <3>1, PendingIs
  <2>10. c \in 1 .. history[p].calls /\ history[i].n = history[p].n + c
    BY <2>2, <2>3, <2>4, <2>5
  <2>11. QED BY <2>2, <2>5, <2>9, <2>10
<1>3. QED BY <1>1, <1>2 DEF Blocks

\* THEOREM.  For every choice of turns to keep and to drop, any series of
\* messages, tool steps and context cuts leaves every tool call with all its
\* answers right after it, in order, and no answer without its call:
\* fix_messages never repairs half of a call.
THEOREM PairingIsKept == CSpec => []PairingKept
<1>1. QED BY ContextSafe, SoundIsPaired, PTL

\* THEOREM.  No cut repeats a message or changes the order of two of them,
\* _ensure_user_message's putting back of the first user message included.
THEOREM IsChronological == CSpec => []Chronological
<1>1. ContextInv => Chronological
  BY DEF ContextInv, Sound, Increasing, Chronological
<1>2. QED BY <1>1, ContextSafe, PTL

\* THEOREM.  After every cut the first message that is no system message is a
\* user's, as the providers that refuse any other beginning need it.
THEOREM UserComesFirst == CSpec => []UserLeads
<1>1. ContextInv => UserLeads
  BY DEF ContextInv, Sound, Leads, First, UserLeads
<1>2. QED BY <1>1, ContextSafe, PTL

=============================================================================

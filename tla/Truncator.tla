----------------------------- MODULE Truncator -----------------------------
(***************************************************************************)
(* The messages of a conversation as the agent appends to them and as      *)
(* ContextManager.process cuts them before every model request: the three  *)
(* truncations of agent/context/truncator.py with the repair of tool-call  *)
(* pairing that ends each of them.                                         *)
(*                                                                         *)
(* A message is its role, the number of tool calls it makes and its place  *)
(* in the order of speaking.  Token counts are abstracted: a compression   *)
(* or a halving may be due at any time.  The compressor that asks a model  *)
(* for a summary is not modelled.                                          *)
(***************************************************************************)
EXTENDS Naturals, Sequences, SequencesExt

CONSTANTS
    KeepTurns,    \* the values enforce_max_turns may have, beside -1, no limit
    DropTurns,    \* the values truncate_turns may have
    MaxToolCalls, \* bound: tool calls of one assistant message
    MaxSpoken     \* bound: messages ever spoken

ASSUME TruncatorAssumption ==
    /\ KeepTurns \subseteq Nat /\ DropTurns \subseteq Nat
    /\ MaxToolCalls \in Nat /\ MaxSpoken \in Nat

VARIABLES history, spoken
cvars == <<history, spoken>>

Message(role, calls, n) == [role |-> role, calls |-> calls, n |-> n]
IsUser(m)       == m.role = "user"
IsTool(m)       == m.role = "tool"
IsOther(m)      == m.role # "system"
HasToolCalls(m) == m.role = "assistant" /\ m.calls > 0

----------------------------------------------------------------------------
(* ContextTruncator *)

\* _split_system_rest: with nothing but system messages, all is "rest".
NSystem(s) == LET i == SelectInSeq(s, IsOther)
              IN  IF i = 0 THEN 0 ELSE i - 1
System(s)  == SubSeq(s, 1, NSystem(s))
Rest(s)    == SubSeq(s, NSystem(s) + 1, Len(s))

\* The suffix of s that starts with its first user message, if it has one.
FromFirstUser(s) == LET i == SelectInSeq(s, IsUser)
                    IN  IF i = 0 THEN s ELSE SubSeq(s, i, Len(s))

LastN(s, n) == IF n >= Len(s) THEN s ELSE SubSeq(s, Len(s) - n + 1, Len(s))

\* Mutant: the message is put back at the end.
EnsureUserMessageLast(system, truncated, original) ==
    LET i == SelectInSeq(original, IsUser)
    IN  IF (truncated # <<>> /\ IsUser(Head(truncated))) \/ i = 0
          THEN system \o truncated
          ELSE system \o truncated \o <<original[i]>>

\* Mutant: the message is not put back.
EnsureUserMessageNever(system, truncated, original) == system \o truncated

EnsureUserMessage(system, truncated, original) ==
    LET i == SelectInSeq(original, IsUser)
    IN  IF (truncated # <<>> /\ IsUser(Head(truncated))) \/ i = 0
          THEN system \o truncated
          ELSE system \o <<original[i]>> \o truncated

\* The message a tool message answers: the last one before it that is no tool's.
Pending(s, i) == SelectLastInSubSeq(s, 1, i - 1, LAMBDA m : ~IsTool(m))

\* Mutant: only the assistant messages are checked.
ValidAssistant(s, i) == HasToolCalls(s[i]) => i < Len(s) /\ IsTool(s[i + 1])

Valid(s, i) ==
    /\ IsTool(s[i]) => Pending(s, i) # 0 /\ HasToolCalls(s[Pending(s, i)])
    /\ HasToolCalls(s[i]) => i < Len(s) /\ IsTool(s[i + 1])

\* fixed[i] is fixed_messages when the first i messages have been judged.
FixMessages(s) ==
    LET fixed[i \in 0 .. Len(s)] ==
          IF i = 0 THEN <<>>
          ELSE IF Valid(s, i) THEN Append(fixed[i - 1], s[i]) ELSE fixed[i - 1]
    IN  fixed[Len(s)]

Repair(s, truncated) == FixMessages(EnsureUserMessage(System(s), truncated, s))

TruncateByTurns(s, keep, drop) ==
    LET rest == Rest(s)
    IN  IF Len(rest) \div 2 <= keep THEN s
        ELSE Repair(s, FromFirstUser(
               IF keep + 1 <= drop THEN <<>>
                                   ELSE LastN(rest, (keep + 1 - drop) * 2)))

TruncateByDroppingOldestTurns(s, drop) ==
    LET rest == Rest(s)
    IN  IF drop = 0 THEN s
        ELSE Repair(s, FromFirstUser(
               IF Len(rest) \div 2 <= drop THEN <<>>
                                    ELSE SubSeq(rest, drop * 2 + 1, Len(rest))))

TruncateByHalving(s) ==
    LET rest == Rest(s)
        gone == Len(rest) \div 2
    IN  IF Len(s) <= 2 \/ gone = 0 THEN s
        ELSE Repair(s, FromFirstUser(SubSeq(rest, gone + 1, Len(rest))))

----------------------------------------------------------------------------
(* The conversation *)

CInit == /\ history \in {<<>>, <<Message("system", 0, 0)>>}
         /\ spoken = 0

Speak(ms) == /\ spoken + Len(ms) <= MaxSpoken
             /\ spoken' = spoken + Len(ms)
             /\ history' = history \o ms

\* A message of the user, also after a run that was stopped without a word.
UserSpeaks == Speak(<<Message("user", 0, spoken + 1)>>)

\* A run starts from a message of the user.
UserAsked == \E i \in DOMAIN history : IsUser(history[i])

\* The final answer of a run.
AssistantSpeaks ==
    /\ UserAsked
    /\ Speak(<<Message("assistant", 0, spoken + 1)>>)

\* One tool step of a run whose calls were all answered; what a cut does to a call
\* whose result held nothing that is read (AgentLoop, unread) PairingKept does not say.
ToolStep ==
    /\ UserAsked
    /\ \E c \in 1 .. MaxToolCalls :
         Speak(<<Message("assistant", c, spoken + 1)>>
               \o [k \in 1 .. c |-> Message("tool", 0, spoken + 1 + k)])

\* The limit on turns, if there is one.
EnforceMaxTurns(s) ==
    {s} \cup {TruncateByTurns(s, k, d) : k \in KeepTurns, d \in DropTurns}

\* When the tokens are too many the compressor, and a halving when they are
\* too many even then.
Compress(s) ==
    LET compressed == {TruncateByDroppingOldestTurns(s, d) : d \in DropTurns}
    IN  {s} \cup compressed \cup {TruncateByHalving(c) : c \in compressed}

\* process: the limit on turns, then the compression.
Process ==
    /\ UserAsked
    /\ \E byTurns \in EnforceMaxTurns(history) : history' \in Compress(byTurns)
    /\ UNCHANGED spoken

CNext == UserSpeaks \/ AssistantSpeaks \/ ToolStep \/ Process
CSpec == CInit /\ [][CNext]_cvars

----------------------------------------------------------------------------
(* Properties *)

\* If every call has its answers before a cut, it has all of them after any
\* series of cuts, and no answer is left without its call: a cut never falls
\* between an assistant message and its tool messages.
PairingKept ==
    \A i \in DOMAIN history :
      /\ HasToolCalls(history[i]) =>
           \A c \in 1 .. history[i].calls :
             /\ i + c \in DOMAIN history /\ IsTool(history[i + c])
             /\ history[i + c].n = history[i].n + c
      /\ IsTool(history[i]) =>
           LET p == Pending(history, i)
           IN  p # 0 /\ history[i].n - history[p].n \in 1 .. history[p].calls

\* Cuts only leave out: no message comes back a second time or out of its
\* place, though the first message of the user may be put back in front.
Chronological ==
    \A i, j \in DOMAIN history : i < j => history[i].n < history[j].n

\* After any cuts the first message that is no system message is the user's:
\* a conversation that has one never comes to begin with an assistant.
UserLeads ==
    \A i \in DOMAIN history :
      /\ history[i].role # "system"
      /\ \A j \in 1 .. i - 1 : history[j].role = "system"
      => IsUser(history[i])

=============================================================================

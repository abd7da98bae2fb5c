-------------------------- MODULE Pipeline_proofs --------------------------
(***************************************************************************)
(* Proofs about Pipeline for every set of events, sessions and replies:    *)
(*   - the registry is exact when no session is replaced (RegistryIsExact);*)
(*   - a stopped event is not handed to ProcessStage (StoppedNeverProcessed);*)
(*   - no reply that was handed over is left behind (RepliesGoOut), and    *)
(*     one goes out twice only when a stop finds a generator suspended     *)
(*     (ResentIsCaught), with the types (TypeCorrect).                     *)
(* The frames of an event are its own, so FrameInv speaks of stack alone;  *)
(* ReplyInv adds, for each event, what the place of its frames says of its *)
(* result, of its stop flag and of the replies made.                       *)
(***************************************************************************)
EXTENDS Pipeline, SequenceTheorems, TLAPS

RegistryInv == /\ status \in [Event -> {"new", "running", "done"}]
               /\ umo \in [Event -> Umo]
               /\ active \in [Umo -> SUBSET Event]
               /\ RegistryExact

\* Only Start, Finish and, with unique sessions, Waking touch the registry.
LEMMA RegistryFrame ==
  ASSUME UniqueSession = FALSE, NEW e \in Event,
         \/ Step(e) /\ ~Finish(e)
         \/ Fail(e) \/ HandlerResets(e)
  PROVE  UNCHANGED <<status, umo, active>>
<1>1. CASE Waking(e) BY <1>1, UniqueAssumption DEF Waking
<1>2. CASE Gate(e) \/ PreProcess(e) \/ SafetyPasses(e) \/ SafetyBlocksSilently(e) \/ SafetyBlocks(e) \/ SafetyBlocked(e)
  BY <1>2 DEF Gate, PreProcess, SafetyPasses, SafetyBlocksSilently, SafetyBlocks, SafetyBlocked
<1>3. CASE ProcessEnter(e) \/ HandlerYields(e) \/ HandlerAsks(e) \/ HandlerEnds(e) \/ HandlerRaises(e) \/ HandlerRaised(e)
  BY <1>3 DEF ProcessEnter, HandlerYields, HandlerAsks, HandlerEnds, HandlerRaises, HandlerRaised
<1>4. CASE AgentYields(e) \/ AgentBack(e) \/ AgentEnds(e) \/ AgentFails(e) \/ AskedEnds(e) \/ AskedFails(e)
  BY <1>4 DEF AgentYields, AgentBack, AgentEnds, AgentFails, AskedEnds, AskedFails
<1>5. CASE Decorate(e) \/ DecorateBlocks(e) \/ DecorateBlocked(e) \/ NothingToSend(e) \/ Send(e) \/ Sent(e)
  BY <1>5 DEF Decorate, DecorateBlocks, DecorateBlocked, NothingToSend, Send, Sent
<1>6. CASE Fail(e) \/ HandlerResets(e) \/ PluginSetsResult(e) \/ PluginStops(e) \/ PluginSends(e)
  BY <1>6 DEF Fail, HandlerResets, PluginSetsResult, PluginStops, PluginSends
<1>7. QED BY <1>1, <1>2, <1>3, <1>4, <1>5, <1>6 DEF Step

\* Without unique sessions the registry is exact: a running event is found
\* under its session, whatever is stopped or raised, and no other is.
THEOREM RegistryIsExact == ASSUME UniqueSession = FALSE PROVE Spec => []RegistryExact
<1>1. Init => RegistryInv
  BY UmoAssumption DEF Init, RegistryInv, RegistryExact
<1>2. RegistryInv /\ [Next]_vars => RegistryInv'
  <2> SUFFICES ASSUME RegistryInv, [Next]_vars PROVE RegistryInv'
    OBVIOUS
  <2>1. CASE UNCHANGED <<status, umo, active>>
    BY <2>1 DEF RegistryInv, RegistryExact
  <2>2. ASSUME NEW e \in Event, Start(e) PROVE RegistryInv'
    BY <2>2 DEF RegistryInv, RegistryExact, Start
  <2>3. ASSUME NEW e \in Event, Finish(e) PROVE RegistryInv'
    BY <2>3 DEF RegistryInv, RegistryExact, Finish
  <2>4. CASE UNCHANGED vars
    BY <2>4, <2>1 DEF vars
  <2>5. ASSUME NEW e \in Event, Step(e) \/ Fail(e) \/ HandlerResets(e), ~Finish(e)
        PROVE RegistryInv'
    BY <2>5, <2>1, RegistryFrame
  <2>6. QED BY <2>2, <2>3, <2>4, <2>5 DEF Next
<1>3. RegistryInv => RegistryExact
  BY DEF RegistryInv
<1>4. QED BY <1>1, <1>2, <1>3, PTL DEF Spec

---------------------------------------------------------------------------
\* The frames

Generators == {5, 7, 8}   \* safety, process and decorate: the stages that yield

\* A frame that is not the last one is a generator, and stands before the next.
StackOK(s) == /\ s \in Seq(Frame)
              /\ \A i \in 1 .. Len(s) - 1 : s[i].st \in Generators /\ s[i].st < s[i + 1].st

FrameInv == /\ stack \in [Event -> Seq(Frame)]
            /\ \A e \in Event : StackOK(stack[e])

Top(s) == s[Len(s)].st

\* The suspended frames of n are suspended in s.
Below(n, s) == \A i \in 1 .. Len(n) - 1 : i \in 1 .. Len(s) - 1 /\ n[i] = s[i]

LEMMA Stages ==
  /\ Len(STAGES_ORDER) = 9
  /\ \A i \in 1 .. 9 : /\ STAGES_ORDER[i] = "process" <=> i = 7
                       /\ STAGES_ORDER[i] \in {"safety", "process", "decorate"} <=> i \in Generators
                       /\ STAGES_ORDER[i] = "respond" <=> i = 9
BY DEF STAGES_ORDER, Generators

LEMMA FrontLemma ==
  ASSUME NEW s \in Seq(Frame), Len(s) > 0
  PROVE  /\ Front(s) \in Seq(Frame) /\ Len(Front(s)) = Len(s) - 1
         /\ \A i \in 1 .. Len(s) - 1 : Front(s)[i] = s[i]
<1>1. PICK n \in Nat : n = Len(s) - 1
  OBVIOUS
<1>2. \A i \in 1 .. n : s[i] \in Frame
  BY <1>1
<1>3. /\ SubSeq(s, 1, n) \in Seq(Frame)
      /\ Len(SubSeq(s, 1, n)) = IF 1 <= n THEN n - 1 + 1 ELSE 0
      /\ \A i \in 1 .. n - 1 + 1 : SubSeq(s, 1, n)[i] = s[1 + i - 1]
  BY <1>2, SubSeqProperties, Z3
<1>4. Front(s) = SubSeq(s, 1, n)
  BY <1>1 DEF Front
<1>5. QED BY <1>1, <1>3, <1>4

LEMMA TopFacts ==
  ASSUME NEW s, StackOK(s), s # <<>>
  PROVE  Last(s) \in Frame /\ Last(s).st = Top(s) /\ Top(s) \in 1 .. 9
<1>1. Last(s) \in Frame /\ Last(s).st = Top(s)
  BY DEF StackOK, Last, Top
<1>2. QED BY <1>1, Stages DEF Frame

\* Another last frame, not before the one it replaces.
LEMMA OtherTop ==
  ASSUME NEW s, StackOK(s), NEW n \in Seq(Frame), Len(n) = Len(s), Len(s) # 0,
         \A i \in 1 .. Len(s) - 1 : n[i] = s[i], n[Len(s)].st >= Top(s)
  PROVE  StackOK(n)
<1>1. s \in Seq(Frame) /\ Len(s) \in Nat \ {0}
  BY DEF StackOK
<1>2. \A i \in 1 .. Len(s) : s[i].st \in Nat /\ n[i].st \in Nat
  <2>1. \A i \in 1 .. Len(s) : s[i] \in Frame /\ n[i] \in Frame
    BY <1>1
  <2>2. QED BY <2>1, Stages DEF Frame
<1>3. ASSUME NEW i \in 1 .. Len(s) - 1 PROVE n[i].st \in Generators /\ n[i].st < n[i + 1].st
  <2>1. n[i] = s[i] /\ s[i].st \in Generators /\ s[i].st < s[i + 1].st
    BY DEF StackOK
  <2>2. i + 1 \in 1 .. Len(s) - 1 \/ i + 1 = Len(s)
    BY <1>1
  <2>3. CASE i + 1 \in 1 .. Len(s) - 1
    BY <2>1, <2>3
  <2>4. CASE i + 1 = Len(s)
    <3>1. i \in 1 .. Len(s) /\ i + 1 \in 1 .. Len(s)
      BY <1>1
    <3>2. s[i + 1].st <= n[i + 1].st
      BY <1>2, <2>4, <3>1 DEF Top
    <3>3. s[i].st \in Nat /\ s[i + 1].st \in Nat /\ n[i + 1].st \in Nat
      BY <1>2, <3>1
    <3>4. QED BY <2>1, <3>2, <3>3
  <2>5. QED BY <2>2, <2>3, <2>4
<1>4. QED BY <1>3 DEF StackOK

\* The for loop goes on.
LEMMA NextStageFacts ==
  ASSUME NEW s, StackOK(s), s # <<>>, Top(s) < 9
  PROVE  StackOK(NextStage(s)) /\ NextStage(s) # <<>> /\ Top(NextStage(s)) = Top(s) + 1 /\ Below(NextStage(s), s)
<1>1. s \in Seq(Frame) /\ Len(s) \in Nat \ {0} /\ s[Len(s)] \in Frame
  BY DEF StackOK
<1>2. Top(s) \in 1 .. 9 /\ Last(s).st = Top(s)
  BY <1>1, Stages DEF Top, Last, Frame
<1>3. Enter(Top(s) + 1) \in Frame /\ Enter(Top(s) + 1).st = Top(s) + 1
  BY <1>2, Stages DEF Enter, Frame, Point
<1>4. /\ Front(s) \in Seq(Frame) /\ Len(Front(s)) = Len(s) - 1
      /\ \A i \in 1 .. Len(s) - 1 : Front(s)[i] = s[i]
  BY <1>1, FrontLemma
<1>5. PICK n : n = NextStage(s) OBVIOUS
<1>6. n = Append(Front(s), Enter(Top(s) + 1))
  BY <1>2, <1>5 DEF NextStage, Replace
<1>7. n \in Seq(Frame) /\ Len(n) = Len(s) /\ n[Len(s)] = Enter(Top(s) + 1)
      /\ \A i \in 1 .. Len(s) - 1 : n[i] = s[i]
  BY <1>1, <1>3, <1>4, <1>6
<1>8. n[Len(s)].st = Top(s) + 1 /\ n[Len(s)].st >= Top(s)
  BY <1>2, <1>3, <1>7
<1>9. StackOK(n)
  BY <1>1, <1>7, <1>8, OtherTop
<1>10. Below(n, s)
  BY <1>7 DEF Below
<1>11. QED BY <1>1, <1>5, <1>7, <1>8, <1>9, <1>10 DEF Top

LEMMA FrontFacts ==
  ASSUME NEW s, StackOK(s), Len(s) > 1
  PROVE  /\ StackOK(Front(s)) /\ Front(s) # <<>> /\ Below(Front(s), s)
         /\ Top(Front(s)) \in Generators /\ Top(Front(s)) = s[Len(s) - 1].st
<1>1. s \in Seq(Frame) /\ Len(s) \in Nat
  BY DEF StackOK
<1>2. /\ Front(s) \in Seq(Frame) /\ Len(Front(s)) = Len(s) - 1
      /\ \A i \in 1 .. Len(s) - 1 : Front(s)[i] = s[i]
  BY <1>1, FrontLemma
<1>3. StackOK(Front(s)) /\ Front(s) # <<>>
  BY <1>1, <1>2 DEF StackOK
<1>4. Below(Front(s), s)
  BY <1>1, <1>2 DEF Below
<1>5. Top(Front(s)) \in Generators /\ Top(Front(s)) = s[Len(s) - 1].st
  BY <1>1, <1>2 DEF StackOK, Top
<1>6. QED BY <1>3, <1>4, <1>5

\* Back in the generator that yielded, or, stopped, on to a stage that is not
\* ProcessStage, since no generator stands before it.
LEMMA ReturnFacts ==
  ASSUME NEW s, StackOK(s), s # <<>>, NEW b \in BOOLEAN
  PROVE  /\ StackOK(Return(s, b)) /\ Below(Return(s, b), s)
         /\ (Return(s, b) # <<>> /\ Top(Return(s, b)) = 7) => ~b
<1>1. Len(s) \in Nat \ {0}
  BY DEF StackOK
<1>2. CASE Len(s) = 1
  <2>1. Return(s, b) = <<>>
    BY <1>2 DEF Return
  <2>2. <<>> \in Seq(Frame) /\ Len(<<>>) = 0
    OBVIOUS
  <2>3. StackOK(<<>>) /\ Below(<<>>, s)
    BY <2>2 DEF StackOK, Below
  <2>4. QED BY <2>1, <2>3
<1>3. CASE Len(s) > 1 /\ b
  <2>1. Return(s, b) = NextStage(Front(s))
    BY <1>3 DEF Return
  <2>2. StackOK(Front(s)) /\ Front(s) # <<>> /\ Top(Front(s)) \in Generators /\ Below(Front(s), s)
    BY <1>3, FrontFacts
  <2>3. Top(Front(s)) \in {5, 7, 8}
    BY <2>2 DEF Generators
  <2>4. /\ StackOK(NextStage(Front(s))) /\ Top(NextStage(Front(s))) = Top(Front(s)) + 1
        /\ Below(NextStage(Front(s)), Front(s))
    BY <2>2, <2>3, NextStageFacts
  <2>5. Below(NextStage(Front(s)), s)
    BY <2>2, <2>4 DEF Below
  <2>6. QED BY <2>1, <2>3, <2>4, <2>5
<1>4. CASE Len(s) > 1 /\ ~b
  <2>1. Return(s, b) = Front(s)
    BY <1>4 DEF Return
  <2>2. StackOK(Return(s, b)) /\ Below(Return(s, b), s)
    BY <2>1, <1>4, FrontFacts
  <2>3. ~b
    BY <1>4
  <2>4. QED BY <2>2, <2>3
<1>5. Len(s) = 1 \/ (Len(s) > 1 /\ b) \/ (Len(s) > 1 /\ ~b)
  <2>1. PICK n \in Nat \ {0} : n = Len(s)
    BY <1>1
  <2>2. n = 1 \/ n > 1
    OBVIOUS
  <2>3. QED BY <2>1, <2>2
<1>6. QED BY <1>2, <1>3, <1>4, <1>5

---------------------------------------------------------------------------
\* What each way to leave a stage does to the frames of e.  `stopped` is
\* is_stopped(e) after the step.

Arrives(old, new) == new # <<>> /\ Top(new) = 7 /\ ~(old # <<>> /\ Top(old) = 7)

Moved(e) == /\ \E s : StackOK(s) /\ stack' = [stack EXCEPT ![e] = s]
            /\ Arrives(stack[e], stack'[e]) => ~is_stopped(e)'
            /\ is_stopped(e)' => Below(stack'[e], stack[e])

LEMMA MovedBy ==
  ASSUME FrameInv, NEW e \in Event, NEW s, StackOK(s), stack' = [stack EXCEPT ![e] = s],
         Arrives(stack[e], s) => ~is_stopped(e)',
         is_stopped(e)' => Below(s, stack[e])
  PROVE  Moved(e)
<1>1. stack'[e] = s
  BY DEF FrameInv
<1>2. QED BY <1>1 DEF Moved

LEMMA MovedPlain ==
  ASSUME FrameInv, NEW e \in Event, stack[e] # <<>>, PlainDone(e)
  PROVE  Moved(e)
<1> DEFINE b == is_stopped(e)'
<1>1. StackOK(stack[e]) /\ b \in BOOLEAN /\ Len(STAGES_ORDER) = 9
  BY Stages DEF FrameInv, is_stopped
<1>2. PICK s : s = stack[e] OBVIOUS
<1>3. CASE b \/ Top(s) = 9
  <2>1. stack' = [stack EXCEPT ![e] = Return(s, b)]
    BY <1>1, <1>2, <1>3 DEF PlainDone, Top, Last
  <2>2. StackOK(Return(s, b)) /\ (Return(s, b) # <<>> /\ Top(Return(s, b)) = 7 => ~b) /\ Below(Return(s, b), s)
    BY <1>1, <1>2, ReturnFacts
  <2>3. QED BY <1>2, <2>1, <2>2, MovedBy DEF Arrives
<1>4. CASE ~(b \/ Top(s) = 9)
  <2>1. stack' = [stack EXCEPT ![e] = NextStage(s)]
    BY <1>1, <1>2, <1>4 DEF PlainDone, Top, Last
  <2>2. Top(s) \in 1 .. 9
    BY <1>1, <1>2, TopFacts
  <2>3. StackOK(NextStage(s))
    BY <1>1, <1>2, <1>4, <2>2, NextStageFacts
  <2>4. ~b BY <1>4
  <2>5. QED BY <2>1, <2>3, <2>4, MovedBy
<1>5. QED BY <1>3, <1>4

LEMMA MovedExhausted ==
  ASSUME FrameInv, NEW e \in Event, stack[e] # <<>>, Top(stack[e]) \in Generators, Exhausted(e)
  PROVE  Moved(e)
<1>1. StackOK(stack[e]) /\ Top(stack[e]) \in {5, 7, 8}
  BY DEF FrameInv, Generators
<1>2. PICK s : s = stack[e] OBVIOUS
<1>3. StackOK(NextStage(s)) /\ Top(NextStage(s)) = Top(s) + 1 /\ Below(NextStage(s), s)
  BY <1>1, <1>2, NextStageFacts
<1>4. stack' = [stack EXCEPT ![e] = NextStage(s)]
  BY <1>2 DEF Exhausted
<1>5. ~Arrives(stack[e], NextStage(s))
  BY <1>1, <1>2, <1>3 DEF Arrives
<1>6. QED BY <1>2, <1>3, <1>4, <1>5, MovedBy

\* Replacing the last frame.
LEMMA ReplaceFacts ==
  ASSUME NEW s, StackOK(s), s # <<>>, NEW f \in Frame, f.st = Top(s)
  PROVE  /\ StackOK(Replace(s, f)) /\ Replace(s, f) # <<>> /\ Len(Replace(s, f)) = Len(s)
         /\ Top(Replace(s, f)) = f.st /\ Below(Replace(s, f), s)
<1>1. s \in Seq(Frame) /\ Len(s) \in Nat \ {0}
  BY DEF StackOK
<1>2. /\ Front(s) \in Seq(Frame) /\ Len(Front(s)) = Len(s) - 1
      /\ \A i \in 1 .. Len(s) - 1 : Front(s)[i] = s[i]
  BY <1>1, FrontLemma
<1>3. PICK n : n = Replace(s, f) OBVIOUS
<1>4. n \in Seq(Frame) /\ Len(n) = Len(s) /\ n[Len(s)] = f
      /\ \A i \in 1 .. Len(s) - 1 : n[i] = s[i]
  BY <1>1, <1>2, <1>3 DEF Replace
<1>5. StackOK(n)
  <2>1. Top(s) \in 1 .. 9
    BY TopFacts
  <2>2. QED BY <1>1, <1>4, <2>1, OtherTop
<1>6. Below(n, s)
  BY <1>4 DEF Below
<1>7. QED BY <1>1, <1>3, <1>4, <1>5, <1>6 DEF Top

LEMMA MovedTo ==
  ASSUME FrameInv, NEW e \in Event, stack[e] # <<>>, NEW pt \in Point, GoTo(e, pt)
  PROVE  Moved(e)
<1>1. StackOK(stack[e])
  BY DEF FrameInv
<1>2. PICK s : s = stack[e] OBVIOUS
<1>3. PICK f : f = [Last(s) EXCEPT !.pt = pt] OBVIOUS
<1>4. f \in Frame /\ f.st = Top(s)
  BY <1>1, <1>2, <1>3, TopFacts DEF Frame
<1>5. stack' = [stack EXCEPT ![e] = Replace(s, f)]
  BY <1>2, <1>3 DEF GoTo
<1>6. StackOK(Replace(s, f)) /\ Top(Replace(s, f)) = Top(s) /\ Below(Replace(s, f), s)
  BY <1>1, <1>2, <1>4, ReplaceFacts
<1>7. ~Arrives(stack[e], Replace(s, f))
  BY <1>2, <1>6 DEF Arrives
<1>8. QED BY <1>2, <1>5, <1>6, <1>7, MovedBy

LEMMA MovedYield ==
  ASSUME FrameInv, NEW e \in Event, stack[e] # <<>>, Top(stack[e]) \in Generators, NEW pt \in Point, Yield(e, pt)
  PROVE  Moved(e)
<1>1. StackOK(stack[e]) /\ Top(stack[e]) \in {5, 7, 8}
  BY DEF FrameInv, Generators
<1>2. PICK s : s = stack[e] OBVIOUS
<1>3. CASE is_stopped(e)'
  <2>1. Exhausted(e)
    BY <1>3 DEF Yield, Exhausted
  <2>2. QED BY <2>1, MovedExhausted
<1>4. CASE ~is_stopped(e)'
  <2>1. PICK f : f = [Last(s) EXCEPT !.pt = pt] OBVIOUS
  <2>2. f \in Frame /\ f.st = Top(s) /\ Last(s).st = Top(s)
    BY <1>1, <1>2, <2>1, TopFacts DEF Frame
  <2>3. PICK r : r = Replace(s, f) OBVIOUS
  <2>4. StackOK(r) /\ r # <<>> /\ Top(r) \in Generators
    BY <1>1, <1>2, <2>2, <2>3, ReplaceFacts DEF Generators
  <2>5. PICK g : g = Enter(Top(s) + 1) OBVIOUS
  <2>6. g \in Frame
    BY <1>1, <1>2, <2>5, Stages DEF Enter, Frame, Point
  <2>7. PICK n : n = Append(r, g) OBVIOUS
  <2>8. r \in Seq(Frame) /\ Len(r) \in Nat \ {0} /\ \A i \in 1 .. Len(r) - 1 : r[i].st \in Generators
    BY <2>4 DEF StackOK
  <2>9. n \in Seq(Frame) /\ Len(n) = Len(r) + 1 /\ \A i \in 1 .. Len(r) : n[i] = r[i]
    BY <2>6, <2>7, <2>8
  <2>10. StackOK(n)
    <3>1. n[Len(r) + 1] = g /\ g.st = Top(s) + 1
      BY <2>5, <2>6, <2>7, <2>8 DEF Enter
    <3>2. r[Len(r)].st = Top(s) /\ Top(s) \in Generators /\ Top(s) < Top(s) + 1
      BY <1>1, <1>2, <2>2, <2>3, ReplaceFacts DEF Top, Generators
    <3>3. \A i \in 1 .. Len(r) - 1 : r[i].st \in Generators /\ r[i].st < r[i + 1].st
      BY <2>4 DEF StackOK
    <3>4. ASSUME NEW i \in 1 .. Len(r) PROVE n[i].st \in Generators /\ n[i].st < n[i + 1].st
      <4>1. CASE i = Len(r)
        BY <2>9, <3>1, <3>2, <4>1
      <4>2. CASE i \in 1 .. Len(r) - 1
        <5>1. i + 1 \in 1 .. Len(r)
          BY <2>8, <4>2
        <5>2. QED BY <2>9, <3>3, <4>2, <5>1
      <4>3. QED BY <2>8, <4>1, <4>2
    <3>5. QED BY <2>8, <2>9, <3>4 DEF StackOK
  <2>11. stack' = [stack EXCEPT ![e] = n]
    BY <1>2, <1>4, <2>1, <2>2, <2>3, <2>5, <2>7 DEF Yield
  <2>12. QED BY <1>4, <2>10, <2>11, MovedBy
<1>5. QED BY <1>3, <1>4

---------------------------------------------------------------------------
LEMMA AtIs ==
  ASSUME FrameInv, NEW e \in Event
  PROVE  /\ At(e, "process") <=> stack[e] # <<>> /\ Top(stack[e]) = 7
         /\ \A g \in {"safety", "process", "decorate"} :
              At(e, g) => stack[e] # <<>> /\ Top(stack[e]) \in Generators
<1>1. CASE stack[e] = <<>>
  BY <1>1 DEF At
<1>2. CASE stack[e] # <<>>
  <2>1. Last(stack[e]).st = Top(stack[e]) /\ Top(stack[e]) \in 1 .. 9
    BY <1>2, TopFacts DEF FrameInv
  <2>2. QED BY <1>2, <2>1, Stages DEF At
<1>3. QED BY <1>1, <1>2

LEMMA StartMoves == ASSUME FrameInv, NEW e \in Event, Start(e) PROVE Moved(e)
<1>1. PICK s : s = <<Enter(1)>> OBVIOUS
<1>2. s \in Seq(Frame) /\ Len(s) = 1 /\ Top(s) = 1
  BY <1>1, Stages DEF Enter, Frame, Point, Top
<1>3. StackOK(s) /\ ~Arrives(stack[e], s) /\ Below(s, stack[e])
  BY <1>2 DEF StackOK, Arrives, Below
<1>4. QED BY <1>1, <1>3, MovedBy DEF Start

LEMMA FailMoves == ASSUME FrameInv, NEW e \in Event, Fail(e) PROVE Moved(e)
<1>1. <<>> \in Seq(Frame) /\ Len(<<>>) = 0
  OBVIOUS
<1>2. StackOK(<<>>) /\ ~Arrives(stack[e], <<>>) /\ Below(<<>>, stack[e])
  BY <1>1 DEF StackOK, Arrives, Below
<1>3. QED BY <1>2, MovedBy DEF Fail

\* Every step of a stage moves the frames in one of these ways, or not at all.
LEMMA StepMoves ==
  ASSUME FrameInv, NEW e \in Event, Step(e) \/ HandlerResets(e)
  PROVE  Moved(e) \/ UNCHANGED stack
<1> DEFINE NonEmpty == stack[e] # <<>>
           IsGen == NonEmpty /\ Top(stack[e]) \in Generators
<1>1. CASE Finish(e) \/ PluginSetsResult(e) \/ PluginStops(e) \/ PluginSends(e) \/ HandlerResets(e)
  BY <1>1 DEF Finish, PluginSetsResult, PluginStops, PluginSends, HandlerResets
<1>2. CASE Waking(e) \/ Gate(e) \/ PreProcess(e) \/ NothingToSend(e) \/ Sent(e)
  <2>1. NonEmpty /\ PlainDone(e)
    BY <1>2 DEF Waking, Gate, PreProcess, NothingToSend, Sent, AtPoint, At
  <2>2. QED BY <2>1, MovedPlain
<1>3. CASE SafetyPasses(e) \/ SafetyBlocksSilently(e) \/ SafetyBlocked(e) \/ AgentEnds(e) \/ AgentFails(e)
           \/ Decorate(e)
  <2>1. IsGen
    BY <1>3, AtIs DEF SafetyPasses, SafetyBlocksSilently, SafetyBlocked, AgentEnds, AgentFails, Decorate, AtPoint
  <2>2. Exhausted(e)
    BY <1>3 DEF SafetyPasses, SafetyBlocksSilently, SafetyBlocked, AgentEnds, AgentFails, Decorate
  <2>3. QED BY <2>1, <2>2, MovedExhausted
<1>4. CASE SafetyBlocks(e) \/ HandlerYields(e) \/ AgentYields(e)
  <2>1. IsGen
    BY <1>4, AtIs DEF SafetyBlocks, HandlerYields, AgentYields, Asked, AtPoint
  <2>2. \E pt \in Point : Yield(e, pt)
    BY <1>4 DEF SafetyBlocks, HandlerYields, AgentYields, Point
  <2>3. QED BY <2>1, <2>2, MovedYield
<1>5. ASSUME IsGen, HandlersOver(e) PROVE Moved(e)
  <2>1. GoTo(e, "agent") \/ Exhausted(e)
    BY <1>5 DEF HandlersOver
  <2>2. QED BY <1>5, <2>1, MovedTo, MovedExhausted DEF Point
<1>6. CASE ProcessEnter(e) \/ HandlerEnds(e) \/ HandlerRaised(e)
  <2>1. IsGen
    BY <1>6, AtIs DEF ProcessEnter, HandlerEnds, HandlerRaised, AtPoint
  <2>2. GoTo(e, "handlers") \/ HandlersOver(e)
    BY <1>6 DEF ProcessEnter, HandlerEnds, HandlerRaised
  <2>3. QED BY <2>1, <2>2, <1>5, MovedTo DEF Point
<1>7. CASE HandlerRaises(e)
  <2>1. IsGen
    BY <1>7, AtIs DEF HandlerRaises, AtPoint
  <2>2. Yield(e, "raised") \/ HandlersOver(e)
    BY <1>7 DEF HandlerRaises
  <2>3. QED BY <2>1, <2>2, <1>5, MovedYield DEF Point
<1>8. CASE AgentBack(e) \/ HandlerAsks(e) \/ Send(e) \/ DecorateBlocked(e)
  <2>1. NonEmpty
    BY <1>8 DEF AgentBack, HandlerAsks, Send, DecorateBlocked, AtPoint, At
  <2>2. \E pt \in Point : GoTo(e, pt)
    BY <1>8 DEF AgentBack, HandlerAsks, Send, DecorateBlocked, Point
  <2>3. QED BY <2>1, <2>2, MovedTo
<1>9. CASE DecorateBlocks(e) \/ AskedEnds(e) \/ AskedFails(e)
  <2>1. IsGen
    BY <1>9, AtIs DEF DecorateBlocks, AskedEnds, AskedFails, AtPoint
  <2>2. \E pt \in Point : Yield(e, pt) \/ GoTo(e, pt)
    BY <1>9 DEF DecorateBlocks, AskedEnds, AskedFails, Point
  <2>3. QED BY <2>1, <2>2, MovedYield, MovedTo
<1>10. QED BY <1>1, <1>2, <1>3, <1>4, <1>6, <1>7, <1>8, <1>9 DEF Step

LEMMA StackMoves ==
  ASSUME FrameInv, [Next]_vars
  PROVE  UNCHANGED stack \/ \E e \in Event : Moved(e)
<1>1. CASE UNCHANGED vars
  BY <1>1 DEF vars
<1>2. ASSUME NEW e \in Event, Start(e) PROVE UNCHANGED stack \/ Moved(e)
  BY <1>2, StartMoves
<1>3. ASSUME NEW e \in Event, Fail(e) PROVE Moved(e)
  BY <1>3, FailMoves
<1>4. QED BY <1>1, <1>2, <1>3, StepMoves DEF Next

LEMMA FrameStep == FrameInv /\ [Next]_vars => FrameInv'
<1> SUFFICES ASSUME FrameInv, [Next]_vars PROVE FrameInv'
  OBVIOUS
<1>1. CASE UNCHANGED stack
  BY <1>1 DEF FrameInv
<1>2. ASSUME NEW e \in Event, Moved(e) PROVE FrameInv'
  <2>1. PICK s : StackOK(s) /\ stack' = [stack EXCEPT ![e] = s]
    BY <1>2 DEF Moved
  <2>2. s \in Seq(Frame)
    BY <2>1 DEF StackOK
  <2>3. QED BY <2>1, <2>2 DEF FrameInv
<1>3. QED BY <1>1, <1>2, StackMoves

LEMMA FrameInit == Init => FrameInv
<1>1. <<>> \in Seq(Frame) /\ Len(<<>>) = 0
  OBVIOUS
<1>2. StackOK(<<>>)
  BY <1>1 DEF StackOK
<1>3. QED BY <1>1, <1>2 DEF Init, FrameInv

\* A stopped event is never handed to ProcessStage: the frames that are
\* suspended are all of generators, none of which stands right before it, and
\* the stage that does looks at the stop flag.
THEOREM StoppedNeverProcessed == Spec => StoppedIsNotProcessed
<1> DEFINE P == \A e \in Event : (~At(e, "process") /\ At(e, "process")') => ~is_stopped(e)'
<1>1. FrameInv /\ FrameInv' /\ [Next]_vars => P
  <2> SUFFICES ASSUME FrameInv, FrameInv', [Next]_vars, NEW e \in Event, ~At(e, "process"), At(e, "process")'
               PROVE  ~is_stopped(e)'
    OBVIOUS
  <2>1. Arrives(stack[e], stack'[e])
    <3>1. ~(stack[e] # <<>> /\ Top(stack[e]) = 7)
      BY AtIs
    <3>2. stack'[e] # <<>> /\ StackOK(stack'[e]) /\ STAGES_ORDER[Last(stack'[e]).st] = "process"
      BY DEF At, FrameInv
    <3>3. Top(stack'[e]) = 7
      BY <3>2, TopFacts, Stages
    <3>4. QED BY <3>1, <3>2, <3>3 DEF Arrives
  <2>2. stack'[e] # stack[e]
    BY <2>1 DEF Arrives
  <2>3. PICK x \in Event : Moved(x)
    BY <2>2, StackMoves
  <2>4. x = e
    <3>1. PICK s : stack' = [stack EXCEPT ![x] = s]
      BY <2>3 DEF Moved
    <3>2. QED BY <2>2, <3>1 DEF FrameInv
  <2>5. QED BY <2>1, <2>3, <2>4 DEF Moved
<1>2. FrameInv /\ FrameInv' /\ [Next]_vars => [P]_vars
  BY <1>1
<1>3. QED BY <1>2, FrameInit, FrameStep, PTL DEF Spec, StoppedIsNotProcessed

---------------------------------------------------------------------------
\* Replies

\* A reply that waits to be sent is the result, and the frames are on the way
\* to RespondStage.
MadeOK(e) == \A r \in Reply : reply[e][r] = "made" =>
  /\ result[e] = r
  /\ stack[e] = <<>> => failed[e]
  /\ stack[e] # <<>> => Last(stack[e]) \in {Enter(8), Enter(9)}

SentResult(e) == result[e] \in Reply /\ reply[e][result[e]] \in {"sent", "resent"}
ResentOK(e) == \A r \in Reply : reply[e][r] = "resent" => caught[e]

\* A stopped event has no suspended generator, unless the stop caught it there.
StopOK(e) == is_stopped(e) /\ ~caught[e] => ~Suspended(e)

\* Where a reply that was sent can still be the result.
SentOK(e) ==
  /\ ResentOK(e)
  /\ ~caught[e] /\ SentResult(e) =>
       \/ stack[e] = <<>>
       \/ Last(stack[e]) = [st |-> 9, pt |-> "send"]
       \/ is_stopped(e) /\ Top(stack[e]) = 6

\* The task of an event: its frames are gone when it is over, nothing has
\* happened before it starts.
TaskOK(e) ==
  /\ status[e] # "running" => stack[e] = <<>>
  /\ status[e] = "new" => ~failed[e] /\ \A r \in Reply : reply[e][r] = "unused"

FlagsOK == /\ forced \in [Event -> BOOLEAN] /\ stopType \in [Event -> BOOLEAN]
           /\ awake \in [Event -> BOOLEAN] /\ hasSent \in [Event -> BOOLEAN]
           /\ failed \in [Event -> BOOLEAN] /\ caught \in [Event -> BOOLEAN]

ValuesOK == /\ status \in [Event -> {"new", "running", "done"}]
            /\ umo \in [Event -> Umo] /\ active \in [Umo -> SUBSET Event]
            /\ result \in [Event -> Reply \cup {None, Bare, Block}]
            /\ reply \in [Event -> [Reply -> Fate]]

EventInv(e) == MadeOK(e) /\ StopOK(e) /\ SentOK(e) /\ TaskOK(e)

ReplyInv == FrameInv /\ FlagsOK /\ ValuesOK /\ \A e \in Event : EventInv(e)
---------------------------------------------------------------------------
\* A step of e leaves the result and the flags of other events alone.
Quiet(e) ==
  /\ forced' \in [Event -> BOOLEAN] /\ stopType' \in [Event -> BOOLEAN]
  /\ result' \in [Event -> Reply \cup {None, Bare, Block}]
  /\ \A x \in Event \ {e} : forced'[x] = forced[x] /\ stopType'[x] = stopType[x] /\ result'[x] = result[x]

LEMMA KeepQuiet ==
  ASSUME FlagsOK, ValuesOK, NEW e \in Event, KeepResult
  PROVE  Quiet(e) /\ forced'[e] = forced[e] /\ stopType'[e] = stopType[e] /\ result'[e] = result[e]
<1>1. forced' = forced /\ stopType' = stopType /\ result' = result
  BY DEF KeepResult
<1>2. QED BY <1>1, Zenon DEF FlagsOK, ValuesOK, Quiet

LEMMA SetQuiet ==
  ASSUME FlagsOK, ValuesOK, NEW e \in Event, NEW r \in Reply \cup {None, Bare, Block},
         NEW b \in BOOLEAN, SetResult(e, r, b)
  PROVE  Quiet(e) /\ forced'[e] = forced[e] /\ stopType'[e] = b /\ result'[e] = r
<1>1. forced' = forced /\ forced' \in [Event -> BOOLEAN]
  BY Zenon DEF SetResult, FlagsOK
<1>2. /\ stopType' \in [Event -> BOOLEAN] /\ stopType'[e] = b
      /\ \A x \in Event \ {e} : stopType'[x] = stopType[x]
  BY DEF SetResult, FlagsOK
<1>3. /\ result' \in [Event -> Reply \cup {None, Bare, Block}] /\ result'[e] = r
      /\ \A x \in Event \ {e} : result'[x] = result[x]
  BY DEF SetResult, ValuesOK
<1>4. QED BY <1>1, <1>2, <1>3, Zenon DEF Quiet

\* stop_event() on the events of S.
StopOutcome(S, r, t) ==
  /\ forced' \in [Event -> BOOLEAN] /\ stopType' \in [Event -> BOOLEAN]
  /\ result' \in [Event -> Reply \cup {None, Bare, Block}]
  /\ \A x \in Event : /\ x \in S => forced'[x] = TRUE /\ stopType'[x] = TRUE /\ result'[x] # None
                      /\ x \notin S => forced'[x] = forced[x] /\ stopType'[x] = t[x] /\ result'[x] = r[x]
                      /\ r[x] # None => result'[x] = r[x]
                      /\ x \in S /\ r[x] = None => result'[x] = Bare

LEMMA StopFacts ==
  ASSUME NEW S, NEW r \in [Event -> Reply \cup {None, Bare, Block}], NEW t \in [Event -> BOOLEAN],
         FlagsOK, StopEvents(S, r, t)
  PROVE  StopOutcome(S, r, t)
<1>1. /\ forced' = [x \in Event |-> forced[x] \/ x \in S]
      /\ stopType' = [x \in Event |-> t[x] \/ x \in S]
      /\ result' = [x \in Event |-> IF x \in S /\ r[x] = None THEN Bare ELSE r[x]]
  BY DEF StopEvents
<1>2. /\ forced' \in [Event -> BOOLEAN] /\ stopType' \in [Event -> BOOLEAN]
      /\ \A x \in Event : (x \in S => forced'[x] = TRUE /\ stopType'[x] = TRUE)
  BY <1>1, Zenon
<1>3. \A x \in Event : x \notin S => forced'[x] = forced[x] /\ stopType'[x] = t[x]
  <2> SUFFICES ASSUME NEW x \in Event, x \notin S PROVE forced'[x] = forced[x] /\ stopType'[x] = t[x]
    OBVIOUS
  <2>1. forced[x] \in BOOLEAN /\ t[x] \in BOOLEAN
    BY Zenon DEF FlagsOK
  <2>2. forced'[x] = (forced[x] \/ x \in S) /\ stopType'[x] = (t[x] \/ x \in S)
    BY <1>1, Zenon
  <2>3. QED BY <2>1, <2>2, Zenon
<1>4. result' \in [Event -> Reply \cup {None, Bare, Block}]
      /\ \A x \in Event : /\ x \in S => result'[x] # None
                          /\ x \notin S => result'[x] = r[x]
                          /\ r[x] # None => result'[x] = r[x]
                          /\ x \in S /\ r[x] = None => result'[x] = Bare
  BY <1>1 DEF None, Bare
<1>5. QED BY <1>2, <1>3, <1>4, Zenon DEF StopOutcome

LEMMA StopQuiet ==
  ASSUME FlagsOK, ValuesOK, NEW e \in Event, StopEvents({e}, result, stopType)
  PROVE  /\ Quiet(e) /\ forced'[e] = TRUE /\ stopType'[e] = TRUE
         /\ result[e] # None => result'[e] = result[e]
         /\ result[e] = None => result'[e] = Bare
<1>1. result \in [Event -> Reply \cup {None, Bare, Block}] /\ stopType \in [Event -> BOOLEAN]
  BY Zenon DEF FlagsOK, ValuesOK
<1>2. StopOutcome({e}, result, stopType)
  BY <1>1, StopFacts
<1>3. e \in {e} /\ \A x \in Event \ {e} : x \notin {e}
  OBVIOUS
<1>4. QED BY <1>2, <1>3, Zenon DEF Quiet, StopOutcome

LEMMA MayStopQuiet ==
  ASSUME FlagsOK, ValuesOK, NEW e \in Event, MayStop(e)
  PROVE  /\ Quiet(e)
         /\ \/ result[e] = None /\ result'[e] = Bare
            \/ result'[e] = result[e]
         /\ \/ forced'[e] = TRUE
            \/ forced'[e] = forced[e] /\ stopType'[e] = stopType[e] /\ result'[e] = result[e]
BY KeepQuiet, StopQuiet DEF MayStop

LEMMA NotReplies == None \notin Reply /\ Bare \notin Reply /\ Block \notin Reply
BY ReplyAssumption DEF Reply, None, Bare, Block

\* A reply that was not used is the result to be.
LEMMA NewReplyFacts ==
  ASSUME ValuesOK, NEW e \in Event, NEW r \in Reply, NEW fate \in {"made", "notice"}, NewReply(e, r, fate)
  PROVE  /\ reply' \in [Event -> [Reply -> Fate]]
         /\ reply'[e][r] = fate
         /\ \A q \in Reply \ {r} : reply'[e][q] = reply[e][q]
         /\ \A x \in Event \ {e} : reply'[x] = reply[x]
<1>1. reply' = [reply EXCEPT ![e][r] = fate]
  BY DEF NewReply
<1>2. QED BY <1>1 DEF ValuesOK, Fate

LEMMA HandOnFacts ==
  ASSUME ValuesOK, NEW e \in Event, HandOn(e)
  PROVE  /\ reply' \in [Event -> [Reply -> Fate]]
         /\ \A q \in Reply : reply'[e][q] = reply[e][q] \/ (q = result[e] /\ reply'[e][q] = "made")
         /\ \A x \in Event \ {e} : reply'[x] = reply[x]
<1>1. reply' = [reply EXCEPT ![e] = [r \in Reply |->
                  IF r = result[e] /\ @[r] \in {"set", "notice"} THEN "made" ELSE @[r]]]
  BY DEF HandOn
<1>2. QED BY <1>1 DEF ValuesOK, Fate

LEMMA MarkFacts ==
  ASSUME ValuesOK, NEW e \in Event, Mark(e, "blocked")
  PROVE  /\ reply' \in [Event -> [Reply -> Fate]]
         /\ \A q \in Reply : reply'[e][q] = IF q = result[e] THEN "blocked" ELSE reply[e][q]
         /\ \A x \in Event \ {e} : reply'[x] = reply[x]
<1>1. reply' = [reply EXCEPT ![e] = [r \in Reply |-> IF r = result[e] THEN "blocked" ELSE @[r]]]
  BY DEF Mark
<1>2. QED BY <1>1 DEF ValuesOK, Fate

\* A result that is replaced is dropped, and one that a plugin sets was not sent.
LEMMA PluginSetsFacts ==
  ASSUME FlagsOK, ValuesOK, NEW e \in Event, PluginSets(e)
  PROVE  /\ Quiet(e) /\ reply' \in [Event -> [Reply -> Fate]]
         /\ \A x \in Event \ {e} : reply'[x] = reply[x]
         /\ \A q \in Reply : reply'[e][q] \in {"set", "dropped"} \/ reply'[e][q] = reply[e][q]
         /\ \/ result'[e] = result[e]
            \/ /\ result[e] \in Reply => reply'[e][result[e]] = "dropped"
               /\ result'[e] \in Reply => reply'[e][result'[e]] = "set"
<1>1. PICK r \in {result[e], None, Bare} \cup Fresh(e), stop \in BOOLEAN :
        /\ SetResult(e, r, stop)
        /\ reply' = [reply EXCEPT ![e] = [q \in Reply |->
                       CASE q = r /\ @[q] = "unused" -> "set"
                         [] q # r /\ q = result[e] -> "dropped"
                         [] OTHER -> @[q]]]
  BY DEF PluginSets
<1>2. r \in Reply \cup {None, Bare, Block}
  BY DEF Fresh, Unused, ValuesOK
<1>3. Quiet(e) /\ result'[e] = r
  BY <1>1, <1>2, SetQuiet
<1>4. \A q \in Reply : reply'[e][q] = CASE q = r /\ reply[e][q] = "unused" -> "set"
                                         [] q # r /\ q = result[e] -> "dropped"
                                         [] OTHER -> reply[e][q]
  BY <1>1 DEF ValuesOK
<1>5. reply' \in [Event -> [Reply -> Fate]] /\ \A x \in Event \ {e} : reply'[x] = reply[x]
  <2>1. [q \in Reply |-> CASE q = r /\ reply[e][q] = "unused" -> "set"
                           [] q # r /\ q = result[e] -> "dropped"
                           [] OTHER -> reply[e][q]] \in [Reply -> Fate]
    BY DEF ValuesOK, Fate
  <2>2. QED BY <1>1, <2>1 DEF ValuesOK
<1>6. \A q \in Reply : reply'[e][q] \in {"set", "dropped"} \/ reply'[e][q] = reply[e][q]
  BY <1>4
<1>7. CASE r = result[e]
  BY <1>3, <1>5, <1>6, <1>7
<1>8. CASE r # result[e]
  <2>1. result[e] \in Reply => reply'[e][result[e]] = "dropped"
    BY <1>4, <1>8
  <2>2. r \in Reply => reply[e][r] = "unused"
    BY <1>1, <1>8, NotReplies DEF Fresh, Unused
  <2>3. r \in Reply => reply'[e][r] = "set"
    BY <1>4, <2>2
  <2>4. QED BY <1>3, <1>5, <1>6, <2>1, <2>3
<1>9. QED BY <1>7, <1>8

---------------------------------------------------------------------------
\* Where the frames of e are

LEMMA AtTop ==
  ASSUME ReplyInv, NEW e \in Event, NEW g, At(e, g)
  PROVE  /\ stack[e] # <<>> /\ StackOK(stack[e]) /\ status[e] = "running"
         /\ Last(stack[e]).st = Top(stack[e]) /\ Top(stack[e]) \in 1 .. 9
         /\ g = "waking" => Top(stack[e]) = 1
         /\ g = "preprocess" => Top(stack[e]) = 6
         /\ g \in {"whitelist", "status", "rate", "safety"} => Top(stack[e]) \in 2 .. 5
         /\ g = "safety" => Top(stack[e]) = 5
         /\ g = "process" => Top(stack[e]) = 7
         /\ g = "decorate" => Top(stack[e]) = 8
         /\ g = "respond" => Top(stack[e]) = 9
<1>1. stack[e] # <<>> /\ StackOK(stack[e]) /\ STAGES_ORDER[Last(stack[e]).st] = g
  BY DEF At, ReplyInv, FrameInv
<1>2. Last(stack[e]).st = Top(stack[e]) /\ Top(stack[e]) \in 1 .. 9
  BY <1>1, TopFacts
<1>3. \A i \in 1 .. 9 :
        /\ STAGES_ORDER[i] = "waking" => i = 1
        /\ STAGES_ORDER[i] = "preprocess" => i = 6
        /\ STAGES_ORDER[i] \in {"whitelist", "status", "rate", "safety"} => i \in 2 .. 5
        /\ STAGES_ORDER[i] = "safety" => i = 5
        /\ STAGES_ORDER[i] = "process" => i = 7
        /\ STAGES_ORDER[i] = "decorate" => i = 8
        /\ STAGES_ORDER[i] = "respond" => i = 9
  BY DEF STAGES_ORDER
<1>4. status[e] = "running"
  BY <1>1 DEF ReplyInv, EventInv, TaskOK
<1>5. QED BY <1>1, <1>2, <1>3, <1>4

NoneMade(e) == \A r \in Reply : reply[e][r] # "made"

\* The result is nothing that was sent, unless the event was caught.
Settled(e) == caught[e] \/ ~SentResult(e)

\* Off the way to RespondStage no reply waits.
LEMMA NoneWaits ==
  ASSUME ReplyInv, NEW e \in Event, stack[e] # <<>>, Last(stack[e]) \notin {Enter(8), Enter(9)}
  PROVE  NoneMade(e)
BY DEF ReplyInv, EventInv, MadeOK, NoneMade

\* Before RespondStage the result was not sent.
LEMMA NotYetSent ==
  ASSUME ReplyInv, NEW e \in Event, stack[e] # <<>>, Last(stack[e]) # [st |-> 9, pt |-> "send"]
  PROVE  /\ Top(stack[e]) # 6 => Settled(e)
         /\ ~Settled(e) => is_stopped(e) /\ Top(stack[e]) = 6
BY DEF ReplyInv, EventInv, SentOK, Settled

\* Without a result there is nothing to lose.
LEMMA NoResult ==
  ASSUME ReplyInv, NEW e \in Event, stack[e] # <<>>, result[e] = None
  PROVE  Settled(e) /\ NoneMade(e)
BY NotReplies DEF ReplyInv, EventInv, MadeOK, Settled, SentResult, NoneMade

\* Before PreProcessStage and in ProcessStage every event is settled.
LEMMA Calm ==
  ASSUME ReplyInv, NEW e \in Event, stack[e] # <<>>, Top(stack[e]) \notin {6, 8, 9}
  PROVE  Settled(e) /\ NoneMade(e)
<1>1. Last(stack[e]).st = Top(stack[e])
  BY TopFacts DEF ReplyInv, FrameInv
<1>2. Last(stack[e]) \notin {Enter(8), Enter(9)} /\ Last(stack[e]) # [st |-> 9, pt |-> "send"]
  BY <1>1 DEF Enter
<1>3. QED BY <1>2, NoneWaits, NotYetSent

\* The frame a loop goes on with.
LEMMA NextTop ==
  ASSUME NEW s, StackOK(s), s # <<>>, Top(s) < 9
  PROVE  NextStage(s) # <<>> /\ Last(NextStage(s)) = Enter(Top(s) + 1)
<1>1. s \in Seq(Frame) /\ Len(s) \in Nat \ {0}
  BY DEF StackOK
<1>2. Last(s).st = Top(s) /\ Top(s) \in 1 .. 9
  BY TopFacts
<1>3. Enter(Top(s) + 1) \in Frame
  BY <1>2, Stages DEF Enter, Frame, Point
<1>4. /\ Front(s) \in Seq(Frame) /\ Len(Front(s)) = Len(s) - 1
      /\ \A i \in 1 .. Len(s) - 1 : Front(s)[i] = s[i]
  BY <1>1, FrontLemma
<1>5. PICK n : n = Append(Front(s), Enter(Top(s) + 1)) OBVIOUS
<1>6. n \in Seq(Frame) /\ Len(n) = Len(s) /\ n[Len(s)] = Enter(Top(s) + 1)
      /\ \A i \in 1 .. Len(s) - 1 : n[i] = s[i]
  BY <1>1, <1>3, <1>4, <1>5
<1>7. n = NextStage(s)
  BY <1>2, <1>5 DEF NextStage, Replace
<1>8. QED BY <1>1, <1>6, <1>7 DEF Last

\* The frame a generator yields to.
LEMMA YieldTop ==
  ASSUME FrameInv, NEW e \in Event, stack[e] # <<>>, Top(stack[e]) < 9, NEW pt \in Point, Yield(e, pt)
  PROVE  stack'[e] # <<>> /\ Last(stack'[e]) = Enter(Top(stack[e]) + 1)
<1>1. StackOK(stack[e]) /\ Last(stack[e]).st = Top(stack[e]) /\ Top(stack[e]) \in 1 .. 9
  BY TopFacts DEF FrameInv
<1>2. CASE is_stopped(e)'
  <2>1. stack'[e] = NextStage(stack[e])
    BY <1>2 DEF Yield, FrameInv
  <2>2. QED BY <1>1, <2>1, NextTop
<1>3. CASE ~is_stopped(e)'
  <2>1. PICK f : f = [Last(stack[e]) EXCEPT !.pt = pt] OBVIOUS
  <2>2. f \in Frame /\ f.st = Top(stack[e])
    BY <1>1, <2>1, TopFacts DEF Frame
  <2>3. PICK r : r = Replace(stack[e], f) OBVIOUS
  <2>4. StackOK(r)
    BY <1>1, <2>2, <2>3, ReplaceFacts
  <2>5. PICK g : g = Enter(Top(stack[e]) + 1) OBVIOUS
  <2>6. g \in Frame
    BY <1>1, <2>5, Stages DEF Enter, Frame, Point
  <2>7. stack'[e] = Append(r, g)
    BY <1>1, <1>3, <2>1, <2>3, <2>5 DEF Yield, FrameInv
  <2>8. r \in Seq(Frame)
    BY <2>4 DEF StackOK
  <2>9. Append(r, g) # <<>> /\ Last(Append(r, g)) = g
    BY <2>6, <2>8 DEF Last
  <2>10. QED BY <1>3, <2>5, <2>7, <2>9
<1>4. QED BY <1>2, <1>3

\* A stopped event without a suspended generator of the later stages leaves
\* RespondStage for PreProcessStage, or has no frame any more.
LEMMA Unwinds ==
  ASSUME FrameInv, NEW e \in Event, stack[e] # <<>>, ~Suspended(e), is_stopped(e)', PlainDone(e)
  PROVE  stack'[e] = <<>> \/ Top(stack'[e]) = 6
<1>1. PICK s : s = stack[e] OBVIOUS
<1>2. StackOK(s) /\ stack'[e] = Return(s, TRUE)
  BY <1>1 DEF PlainDone, FrameInv
<1>3. Len(s) \in Nat \ {0}
  BY <1>1, <1>2 DEF StackOK
<1>4. CASE Len(s) = 1
  BY <1>2, <1>4 DEF Return
<1>5. CASE Len(s) > 1
  <2>1. stack'[e] = NextStage(Front(s))
    BY <1>2, <1>5 DEF Return
  <2>2. StackOK(Front(s)) /\ Front(s) # <<>> /\ Top(Front(s)) = s[Len(s) - 1].st /\ Top(Front(s)) \in Generators
    BY <1>2, <1>5, FrontFacts
  <2>3. PICK i : i = Len(s) - 1
    OBVIOUS
  <2>4. i \in 1 .. Len(s) - 1
    BY <1>3, <1>5, <2>3
  <2>5. STAGES_ORDER[s[i].st] \notin {"process", "decorate"}
    BY <1>1, <2>4 DEF Suspended
  <2>6. s[i].st \in {5, 7, 8}
    BY <2>2, <2>3 DEF Generators
  <2>7. STAGES_ORDER[7] = "process" /\ STAGES_ORDER[8] = "decorate"
    BY DEF STAGES_ORDER
  <2>8. s[i].st = 5
    BY <2>5, <2>6, <2>7
  <2>9. Top(Front(s)) = 5
    BY <2>2, <2>3, <2>8
  <2>10. Top(NextStage(Front(s))) = 6
    BY <2>2, <2>9, NextStageFacts
  <2>11. QED BY <2>1, <2>10
<1>6. Len(s) = 1 \/ Len(s) > 1
  <2>1. \A n \in Nat \ {0} : n = 1 \/ n > 1
    OBVIOUS
  <2>2. QED BY <1>3, <2>1, Zenon
<1>7. QED BY <1>4, <1>5, <1>6, Zenon

---------------------------------------------------------------------------
\* The history of being caught

LEMMA CatchFacts ==
  ASSUME FlagsOK, Catch
  PROVE  /\ caught' \in [Event -> BOOLEAN]
         /\ \A x \in Event : /\ caught[x] => caught'[x]
                             /\ is_stopped(x)' /\ ~caught'[x] => ~Suspended(x)
<1>1. caught' = [x \in Event |-> caught[x] \/ (Suspended(x) /\ is_stopped(x)')]
  BY DEF Catch
<1>2. QED BY <1>1, Zenon

\* A step of e leaves the other events alone

Acts(e) == Start(e) \/ Step(e) \/ Fail(e)

\* No stop goes unnoticed: when a generator becomes suspended its event is not
\* stopped.
LEMMA StopKept == ASSUME ReplyInv, Catch, NEW e \in Event, Acts(e) PROVE StopOK(e)'
<1>1. FrameInv /\ FlagsOK
  BY DEF ReplyInv
<1>2. stack' = stack \/ Moved(e)
  BY <1>1, StartMoves, FailMoves, StepMoves DEF Acts
<1>3. SUFFICES ASSUME is_stopped(e)', ~caught'[e], Suspended(e)' PROVE FALSE
  BY DEF StopOK
<1>4. ~Suspended(e)
  BY <1>1, <1>3, CatchFacts
<1>5. CASE stack' = stack
  BY <1>3, <1>4, <1>5 DEF Suspended
<1>6. CASE Moved(e)
  <2>1. Below(stack'[e], stack[e])
    BY <1>3, <1>6 DEF Moved
  <2>2. PICK i \in 1 .. Len(stack'[e]) - 1 : STAGES_ORDER[stack'[e][i].st] \in {"process", "decorate"}
    BY <1>3 DEF Suspended
  <2>3. i \in 1 .. Len(stack[e]) - 1 /\ stack'[e][i] = stack[e][i]
    BY <2>1, <2>2 DEF Below
  <2>4. QED BY <1>4, <2>2, <2>3 DEF Suspended
<1>7. QED BY <1>2, <1>5, <1>6

LEMMA StepQuiet == ASSUME ReplyInv, NEW e \in Event, Acts(e) PROVE Quiet(e)
<1>1. FlagsOK /\ ValuesOK
  BY DEF ReplyInv
<1>2. None \in Reply \cup {None, Bare, Block} /\ Block \in Reply \cup {None, Bare, Block}
  OBVIOUS
<1>3. ASSUME NEW r \in Reply \cup {None, Bare, Block}, NEW b \in BOOLEAN, SetResult(e, r, b) PROVE Quiet(e)
  BY <1>1, <1>3, SetQuiet
<1>4. KeepResult \/ StopEvents({e}, result, stopType) \/ MayStop(e) \/ ClearResult(e) \/ PluginSets(e) => Quiet(e)
  BY <1>1, <1>2, <1>3, KeepQuiet, StopQuiet, MayStopQuiet, PluginSetsFacts DEF ClearResult
<1>5. CASE Start(e) \/ Finish(e) \/ Fail(e) \/ PluginSetsResult(e) \/ PluginStops(e) \/ PluginSends(e)
  BY <1>4, <1>5 DEF Start, Finish, Fail, PluginSetsResult, PluginStops, PluginSends
<1>6. CASE Waking(e) \/ Gate(e) \/ PreProcess(e) \/ SafetyPasses(e) \/ SafetyBlocksSilently(e) \/ SafetyBlocked(e)
  BY <1>4, <1>6 DEF Waking, Gate, PreProcess, SafetyPasses, SafetyBlocksSilently, SafetyBlocked
<1>7. CASE SafetyBlocks(e)
  BY <1>2, <1>3, <1>7 DEF SafetyBlocks
<1>8. CASE ProcessEnter(e) \/ HandlerEnds(e) \/ HandlerYields(e) \/ HandlerAsks(e) \/ AgentBack(e) \/ AgentEnds(e) \/ AskedEnds(e)
  BY <1>4, <1>8 DEF ProcessEnter, HandlerEnds, HandlerYields, HandlerAsks, AgentBack, AgentEnds, AskedEnds
<1>10. CASE AgentYields(e) \/ AgentFails(e) \/ AskedFails(e)
  <2>1. PICK r \in Reply : SetResult(e, r, FALSE)
    BY <1>10 DEF AgentYields, AgentFails, AskedFails
  <2>2. QED BY <1>3, <2>1
<1>11. CASE HandlerRaises(e)
  <2>1. (\E r \in Reply : SetResult(e, r, FALSE)) \/ StopEvents({e}, result, stopType)
    BY <1>11 DEF HandlerRaises
  <2>2. QED BY <1>3, <1>4, <2>1
<1>12. CASE HandlerRaised(e)
  <2> DEFINE r == [result EXCEPT ![e] = None]
             t == [stopType EXCEPT ![e] = FALSE]
  <2>1. r \in [Event -> Reply \cup {None, Bare, Block}] /\ \A x \in Event \ {e} : r[x] = result[x]
    BY <1>1, <1>2 DEF ValuesOK
  <2>2. t \in [Event -> BOOLEAN] /\ \A x \in Event \ {e} : t[x] = stopType[x]
    BY <1>1 DEF FlagsOK
  <2>3. StopEvents({e}, r, t)
    BY <1>12 DEF HandlerRaised
  <2> HIDE DEF r, t
  <2>4. StopOutcome({e}, r, t)
    BY <1>1, <2>1, <2>2, <2>3, StopFacts
  <2>5. \A x \in Event \ {e} : x \notin {e}
    OBVIOUS
  <2>6. QED BY <2>1, <2>2, <2>4, <2>5, Zenon DEF Quiet, StopOutcome
<1>13. CASE Decorate(e) \/ DecorateBlocked(e) \/ NothingToSend(e) \/ Send(e) \/ Sent(e)
  BY <1>4, <1>13 DEF Decorate, DecorateBlocked, NothingToSend, Send, Sent
<1>14. CASE DecorateBlocks(e)
  BY <1>2, <1>3, <1>4, <1>14 DEF DecorateBlocks
<1>15. QED BY <1>5, <1>6, <1>7, <1>8, <1>10, <1>11, <1>12, <1>13, <1>14 DEF Acts, Step

ReplyLocal(e) == /\ reply' \in [Event -> [Reply -> Fate]]
                 /\ \A x \in Event \ {e} : reply'[x] = reply[x]

LEMMA StepReply == ASSUME ReplyInv, NEW e \in Event, Acts(e) PROVE ReplyLocal(e)
<1>1. FlagsOK /\ ValuesOK
  BY DEF ReplyInv
<1>2. reply' = reply => ReplyLocal(e)
  BY <1>1 DEF ReplyLocal, ValuesOK
<1>3. Mark(e, "blocked") \/ HandOn(e) \/ PluginSets(e) => ReplyLocal(e)
  BY <1>1, MarkFacts, HandOnFacts, PluginSetsFacts DEF ReplyLocal
<1>4. (\E r \in Reply : NewReply(e, r, "made") \/ NewReply(e, r, "notice")) => ReplyLocal(e)
  BY <1>1, NewReplyFacts DEF ReplyLocal
<1>5. CASE HandlerRaises(e) \/ AgentYields(e) \/ AgentFails(e) \/ AskedFails(e)
  BY <1>2, <1>4, <1>5 DEF HandlerRaises, AgentYields, AgentFails, AskedFails
<1>6. CASE PluginSetsResult(e) \/ HandlerYields(e) \/ AskedEnds(e) \/ Decorate(e) \/ DecorateBlocks(e) \/ Sent(e)
  BY <1>2, <1>3, <1>6 DEF PluginSetsResult, HandlerYields, AskedEnds, Decorate, DecorateBlocks, Sent
<1>7. CASE Send(e)
  <2>1. reply' = [reply EXCEPT ![e] = [r \in Reply |->
                 IF r = result[e] THEN (IF @[r] \in {"sent", "resent"} THEN "resent" ELSE "sent") ELSE @[r]]]
    BY <1>7 DEF Send
  <2>2. QED BY <1>1, <2>1 DEF ReplyLocal, ValuesOK, Fate
<1>8. CASE Start(e) \/ Finish(e) \/ Fail(e) \/ PluginStops(e) \/ PluginSends(e)
  BY <1>2, <1>8 DEF Start, Finish, Fail, PluginStops, PluginSends
<1>9. CASE Waking(e) \/ Gate(e) \/ PreProcess(e) \/ SafetyPasses(e) \/ SafetyBlocksSilently(e) \/ SafetyBlocks(e) \/ SafetyBlocked(e)
  BY <1>2, <1>9 DEF Waking, Gate, PreProcess, SafetyPasses, SafetyBlocksSilently, SafetyBlocks, SafetyBlocked
<1>10. CASE ProcessEnter(e) \/ HandlerEnds(e) \/ HandlerRaised(e) \/ HandlerAsks(e) \/ AgentBack(e) \/ AgentEnds(e)
  BY <1>2, <1>10 DEF ProcessEnter, HandlerEnds, HandlerRaised, HandlerAsks, AgentBack, AgentEnds
<1>11. CASE DecorateBlocked(e) \/ NothingToSend(e)
  BY <1>2, <1>11 DEF DecorateBlocked, NothingToSend
<1>12. QED BY <1>5, <1>6, <1>7, <1>8, <1>9, <1>10, <1>11 DEF Acts, Step

\* The frames, the task and the variables no other is related to.
TaskLocal(e) ==
  /\ status' \in [Event -> {"new", "running", "done"}] /\ umo' \in [Event -> Umo]
  /\ active' \in [Umo -> SUBSET Event]
  /\ \A x \in Event \ {e} : status'[x] = status[x] /\ stack'[x] = stack[x] /\ failed'[x] = failed[x]

FlagsLocal == awake' \in [Event -> BOOLEAN] /\ hasSent' \in [Event -> BOOLEAN] /\ failed' \in [Event -> BOOLEAN]

LEMMA StepTask == ASSUME ReplyInv, NEW e \in Event, Acts(e) PROVE TaskLocal(e)
<1>1. FlagsOK /\ ValuesOK /\ FrameInv
  BY DEF ReplyInv
<1>2. \A x \in Event \ {e} : stack'[x] = stack[x]
  <2>1. Moved(e) \/ UNCHANGED stack
    BY <1>1, StartMoves, FailMoves, StepMoves DEF Acts
  <2>2. QED BY <1>1, <2>1 DEF Moved, FrameInv
<1>3. ASSUME UNCHANGED <<status, umo, active, failed>> PROVE TaskLocal(e)
  BY <1>1, <1>2, <1>3 DEF TaskLocal, ValuesOK
<1>4. CASE Start(e)
  BY <1>1, <1>2, <1>4 DEF TaskLocal, ValuesOK, Start
<1>5. CASE Finish(e)
  BY <1>1, <1>2, <1>5 DEF TaskLocal, ValuesOK, Finish
<1>6. CASE Fail(e)
  <2>1. UNCHANGED <<status, umo, active>> /\ failed' = [failed EXCEPT ![e] = TRUE]
    BY <1>6 DEF Fail
  <2>2. \A x \in Event \ {e} : failed'[x] = failed[x]
    BY <1>1, <2>1 DEF FlagsOK
  <2>3. QED BY <1>1, <1>2, <2>1, <2>2 DEF TaskLocal, ValuesOK
<1>7. CASE Waking(e)
  BY <1>1, <1>2, <1>7, UmoAssumption DEF TaskLocal, ValuesOK, Waking
<1>8. CASE Gate(e) \/ PreProcess(e) \/ SafetyPasses(e) \/ SafetyBlocksSilently(e) \/ SafetyBlocks(e) \/ SafetyBlocked(e)
  BY <1>3, <1>8 DEF Gate, PreProcess, SafetyPasses, SafetyBlocksSilently, SafetyBlocks, SafetyBlocked
<1>9. CASE ProcessEnter(e) \/ HandlerYields(e) \/ HandlerAsks(e) \/ HandlerEnds(e) \/ HandlerRaises(e) \/ HandlerRaised(e)
  BY <1>3, <1>9 DEF ProcessEnter, HandlerYields, HandlerAsks, HandlerEnds, HandlerRaises, HandlerRaised
<1>10. CASE AgentYields(e) \/ AgentBack(e) \/ AgentEnds(e) \/ AgentFails(e) \/ AskedEnds(e) \/ AskedFails(e)
  BY <1>3, <1>10 DEF AgentYields, AgentBack, AgentEnds, AgentFails, AskedEnds, AskedFails
<1>11. CASE Decorate(e) \/ DecorateBlocks(e) \/ DecorateBlocked(e) \/ NothingToSend(e) \/ Send(e) \/ Sent(e)
  BY <1>3, <1>11 DEF Decorate, DecorateBlocks, DecorateBlocked, NothingToSend, Send, Sent
<1>12. CASE PluginSetsResult(e) \/ PluginStops(e) \/ PluginSends(e)
  BY <1>3, <1>12 DEF PluginSetsResult, PluginStops, PluginSends
<1>13. QED BY <1>4, <1>5, <1>6, <1>7, <1>8, <1>9, <1>10, <1>11, <1>12 DEF Acts, Step

LEMMA StepFlags == ASSUME ReplyInv, NEW e \in Event, Acts(e) PROVE FlagsLocal
<1>1. awake \in [Event -> BOOLEAN] /\ hasSent \in [Event -> BOOLEAN] /\ failed \in [Event -> BOOLEAN]
  BY DEF ReplyInv, FlagsOK
<1>2. UNCHANGED <<awake, hasSent, failed>> => FlagsLocal
  BY <1>1, Zenon DEF FlagsLocal
<1>3. CASE Start(e) \/ Finish(e) \/ PluginSetsResult(e) \/ PluginStops(e)
  BY <1>2, <1>3 DEF Start, Finish, PluginSetsResult, PluginStops
<1>4. CASE Fail(e)
  BY <1>1, <1>4 DEF Fail, FlagsLocal
<1>5. CASE Waking(e)
  BY <1>1, <1>5 DEF Waking, FlagsLocal
<1>6. CASE PluginSends(e)
  BY <1>1, <1>6 DEF PluginSends, FlagsLocal
<1>7. CASE Send(e)
  <2>1. /\ hasSent' = [hasSent EXCEPT ![e] = @ \/ Chained(e)] /\ awake' = awake /\ failed' = failed
    BY <1>7 DEF Send
  <2>2. hasSent' \in [Event -> BOOLEAN]
    BY <1>1, <2>1, Zenon
  <2>3. QED BY <1>1, <2>1, <2>2, Zenon DEF FlagsLocal
<1>8. CASE Gate(e) \/ PreProcess(e) \/ SafetyPasses(e) \/ SafetyBlocksSilently(e) \/ SafetyBlocks(e) \/ SafetyBlocked(e)
  BY <1>2, <1>8 DEF Gate, PreProcess, SafetyPasses, SafetyBlocksSilently, SafetyBlocks, SafetyBlocked
<1>9. CASE ProcessEnter(e) \/ HandlerYields(e) \/ HandlerAsks(e) \/ HandlerEnds(e) \/ HandlerRaises(e) \/ HandlerRaised(e)
  BY <1>2, <1>9 DEF ProcessEnter, HandlerYields, HandlerAsks, HandlerEnds, HandlerRaises, HandlerRaised
<1>10. CASE AgentYields(e) \/ AgentBack(e) \/ AgentEnds(e) \/ AgentFails(e) \/ AskedEnds(e) \/ AskedFails(e)
  BY <1>2, <1>10 DEF AgentYields, AgentBack, AgentEnds, AgentFails, AskedEnds, AskedFails
<1>11. CASE Decorate(e) \/ DecorateBlocks(e) \/ DecorateBlocked(e) \/ NothingToSend(e) \/ Sent(e)
  BY <1>2, <1>11 DEF Decorate, DecorateBlocks, DecorateBlocked, NothingToSend, Sent
<1>12. QED BY <1>3, <1>4, <1>5, <1>6, <1>7, <1>8, <1>9, <1>10, <1>11 DEF Acts, Step

LEMMA OthersKept == ASSUME ReplyInv, Catch, NEW e \in Event, Acts(e), NEW x \in Event \ {e} PROVE EventInv(x)'
<1>1. /\ reply'[x] = reply[x] /\ status'[x] = status[x] /\ stack'[x] = stack[x] /\ failed'[x] = failed[x]
      /\ forced'[x] = forced[x] /\ stopType'[x] = stopType[x] /\ result'[x] = result[x]
  BY StepQuiet, StepReply, StepTask, Zenon DEF Quiet, ReplyLocal, TaskLocal
<1>2. EventInv(x) /\ FlagsOK
  BY DEF ReplyInv
<1>3. /\ caught[x] => caught'[x]
      /\ is_stopped(x)' /\ ~caught'[x] => ~Suspended(x)
  BY <1>2, CatchFacts
<1>4. MadeOK(x)' /\ TaskOK(x)'
  BY <1>1, <1>2 DEF EventInv, MadeOK, TaskOK
<1>5. is_stopped(x) => is_stopped(x)'
  BY <1>1 DEF is_stopped
<1>6. Suspended(x)' => Suspended(x)
  BY <1>1 DEF Suspended
<1>7. StopOK(x)' /\ SentOK(x)'
  BY <1>1, <1>2, <1>3, <1>5, <1>6 DEF EventInv, StopOK, SentOK, ResentOK, SentResult
<1>8. QED BY <1>4, <1>7 DEF EventInv

---------------------------------------------------------------------------
\* What a step of e makes of e: the ways to keep the rest of EventInv(e)

Rest(e) == MadeOK(e) /\ SentOK(e) /\ TaskOK(e)

\* With no reply on its way, a settled event may be anywhere.
LEMMA SettledIsFine ==
  ASSUME NEW e \in Event, status'[e] = "running", NoneMade(e)', ResentOK(e)', Settled(e)'
  PROVE  Rest(e)'
<1>1. MadeOK(e)' /\ TaskOK(e)'
  BY DEF NoneMade, MadeOK, TaskOK
<1>2. SentOK(e)'
  BY DEF Settled, SentOK
<1>3. QED BY <1>1, <1>2 DEF Rest

\* What is sent twice was so before.
LEMMA ResentKept ==
  ASSUME ReplyInv, Catch, NEW e \in Event, \A r \in Reply : reply'[e][r] = "resent" => reply[e][r] = "resent"
  PROVE  ResentOK(e)'
<1>1. caught[e] => caught'[e]
  BY CatchFacts DEF ReplyInv
<1>2. ResentOK(e)
  BY DEF ReplyInv, EventInv, SentOK
<1>3. QED BY <1>1, <1>2 DEF ResentOK

\* The result is kept, stopped, cleared or made the notice.
LEMMA StaysSettled ==
  ASSUME ReplyInv, Catch, NEW e \in Event, Settled(e), NoneMade(e),
         status'[e] = "running", reply' = reply,
         KeepResult \/ MayStop(e) \/ StopEvents({e}, result, stopType) \/ ClearResult(e) \/ SetResult(e, Block, FALSE)
  PROVE  Rest(e)'
<1>1. FlagsOK /\ ValuesOK
  BY DEF ReplyInv
<1>2. NoneMade(e)' /\ ResentOK(e)'
  BY ResentKept DEF NoneMade
<1>3. result'[e] = result[e] \/ result'[e] \in {None, Bare, Block}
  <2>1. ASSUME NEW r \in {None, Block}, SetResult(e, r, FALSE) PROVE result'[e] = r
    BY <1>1, <2>1, SetQuiet
  <2>2. QED BY <1>1, <2>1, KeepQuiet, StopQuiet, MayStopQuiet DEF ClearResult
<1>4. SentResult(e)' => SentResult(e)
  BY <1>3, NotReplies DEF SentResult
<1>5. caught[e] => caught'[e]
  BY <1>1, CatchFacts
<1>6. Settled(e)'
  BY <1>4, <1>5 DEF Settled
<1>7. QED BY <1>2, <1>6, SettledIsFine

\* A plugin sets the result where no reply waits.
LEMMA SetsSettled ==
  ASSUME ReplyInv, Catch, NEW e \in Event, Settled(e), NoneMade(e), status'[e] = "running", PluginSets(e)
  PROVE  Rest(e)'
<1>1. /\ \A q \in Reply : reply'[e][q] \in {"set", "dropped"} \/ reply'[e][q] = reply[e][q]
      /\ result'[e] = result[e] \/ (result'[e] \in Reply => reply'[e][result'[e]] = "set")
  BY PluginSetsFacts DEF ReplyInv
<1>2. NoneMade(e)' /\ ResentOK(e)'
  BY <1>1, ResentKept DEF NoneMade
<1>3. SentResult(e)' => SentResult(e)
  BY <1>1 DEF SentResult
<1>4. caught[e] => caught'[e]
  BY CatchFacts DEF ReplyInv
<1>5. QED BY <1>2, <1>3, <1>4, SettledIsFine DEF Settled

\* A stop that finds nothing suspended goes back to the end of the onion.
LEMMA WindsUp ==
  ASSUME ReplyInv, Catch, NEW e \in Event, stack[e] # <<>>, NoneMade(e)', is_stopped(e)', PlainDone(e),
         status'[e] = "running", \A r \in Reply : reply'[e][r] = "resent" => reply[e][r] = "resent"
  PROVE  Rest(e)'
<1>1. FrameInv /\ FlagsOK
  BY DEF ReplyInv
<1>2. ResentOK(e)'
  BY ResentKept
<1>3. CASE caught'[e]
  BY <1>2, <1>3, SettledIsFine DEF Settled
<1>4. CASE ~caught'[e]
  <2>1. stack'[e] = <<>> \/ Top(stack'[e]) = 6
    BY <1>1, <1>4, CatchFacts, Unwinds
  <2>2. SentOK(e)'
    BY <1>2, <2>1 DEF SentOK
  <2>3. MadeOK(e)' /\ TaskOK(e)'
    BY DEF NoneMade, MadeOK, TaskOK
  <2>4. QED BY <2>2, <2>3 DEF Rest
<1>5. QED BY <1>3, <1>4

\* ResultDecorateStage hands on the result it was given.
LEMMA HandsOn ==
  ASSUME ReplyInv, Catch, NEW e \in Event, stack[e] # <<>>, Top(stack[e]) = 8, Exhausted(e),
         status'[e] = "running", result'[e] = result[e],
         \A q \in Reply : reply'[e][q] \in {"made", "sent", "resent"} => reply'[e][q] = reply[e][q]
  PROVE  Rest(e)'
<1>1. MadeOK(e) /\ FrameInv /\ StackOK(stack[e]) /\ FlagsOK
  BY DEF ReplyInv, EventInv, FrameInv
<1>2. stack'[e] = NextStage(stack[e])
  BY <1>1 DEF Exhausted, FrameInv
<1>3. stack'[e] # <<>> /\ Last(stack'[e]) = Enter(9)
  BY <1>1, <1>2, NextTop
<1>4. MadeOK(e)'
  BY <1>1, <1>3 DEF MadeOK
<1>5. Settled(e)
  <2>1. Last(stack[e]) # [st |-> 9, pt |-> "send"]
    BY <1>1, TopFacts
  <2>2. QED BY <2>1, NotYetSent
<1>6. caught[e] => caught'[e]
  BY <1>1, CatchFacts
<1>7. ~caught'[e] => ~SentResult(e)'
  BY <1>5, <1>6 DEF Settled, SentResult
<1>8. ResentOK(e)'
  BY ResentKept
<1>9. QED BY <1>4, <1>7, <1>8 DEF Rest, SentOK, TaskOK

\* A reply that is handed on is the result, and the event is on the way to send it.
LEMMA Hands ==
  ASSUME ReplyInv, Catch, NEW e \in Event, stack[e] # <<>>, Top(stack[e]) = 7, status'[e] = "running",
         \A q \in Reply : reply'[e][q] = "made" => result'[e] = q,
         \A q \in Reply : reply'[e][q] = "resent" => reply[e][q] = "resent",
         Settled(e)', Exhausted(e) \/ \E pt \in Point : Yield(e, pt)
  PROVE  Rest(e)'
<1>1. FrameInv /\ StackOK(stack[e])
  BY DEF ReplyInv, FrameInv
<1>2. stack'[e] # <<>> /\ Last(stack'[e]) = Enter(8)
  <2>1. CASE \E pt \in Point : Yield(e, pt)
    BY <1>1, <2>1, YieldTop
  <2>2. CASE Exhausted(e)
    <3>1. stack'[e] = NextStage(stack[e])
      BY <1>1, <2>2 DEF Exhausted, FrameInv
    <3>2. QED BY <1>1, <3>1, NextTop
  <2>3. QED BY <2>1, <2>2
<1>3. MadeOK(e)'
  BY <1>2 DEF MadeOK
<1>4. SentOK(e)'
  BY ResentKept DEF SentOK, Settled
<1>5. QED BY <1>3, <1>4 DEF Rest, TaskOK

LEMMA MakesReply ==
  ASSUME ReplyInv, Catch, NEW e \in Event, stack[e] # <<>>, Top(stack[e]) = 7, NEW r \in Reply,
         NewReply(e, r, "made"), SetResult(e, r, FALSE), status'[e] = "running",
         Exhausted(e) \/ \E pt \in Point : Yield(e, pt)
  PROVE  Rest(e)'
<1>1. FlagsOK /\ ValuesOK /\ NoneMade(e)
  BY Calm DEF ReplyInv
<1>2. result'[e] = r
  BY <1>1, SetQuiet
<1>3. reply'[e][r] = "made" /\ \A q \in Reply \ {r} : reply'[e][q] = reply[e][q]
  BY <1>1, NewReplyFacts
<1>4. Settled(e)'
  BY <1>2, <1>3 DEF Settled, SentResult
<1>5. /\ \A q \in Reply : reply'[e][q] = "made" => result'[e] = q
      /\ \A q \in Reply : reply'[e][q] = "resent" => reply[e][q] = "resent"
  BY <1>1, <1>2, <1>3 DEF NoneMade
<1>6. QED BY <1>4, <1>5, Hands

\* A generator yields what is there.
LEMMA YieldsResult ==
  ASSUME ReplyInv, Catch, NEW e \in Event, stack[e] # <<>>, Top(stack[e]) = 7,
         HandOn(e), KeepResult, status'[e] = "running", \E pt \in Point : Yield(e, pt)
  PROVE  Rest(e)'
<1>1. FlagsOK /\ ValuesOK /\ NoneMade(e) /\ Settled(e)
  BY Calm DEF ReplyInv
<1>2. result'[e] = result[e]
  BY <1>1, KeepQuiet
<1>3. \A q \in Reply : reply'[e][q] = reply[e][q] \/ (q = result[e] /\ reply'[e][q] = "made")
  BY <1>1, HandOnFacts
<1>4. Settled(e)'
  <2>1. caught[e] => caught'[e]
    BY <1>1, CatchFacts
  <2>2. SentResult(e)' => SentResult(e)
    BY <1>2, <1>3 DEF SentResult
  <2>3. QED BY <1>1, <2>1, <2>2 DEF Settled
<1>5. /\ \A q \in Reply : reply'[e][q] = "made" => result'[e] = q
      /\ \A q \in Reply : reply'[e][q] = "resent" => reply[e][q] = "resent"
  BY <1>1, <1>2, <1>3 DEF NoneMade
<1>6. QED BY <1>4, <1>5, Hands

---------------------------------------------------------------------------
\* The steps of e

LEMMA TaskStaysFine ==
  ASSUME ReplyInv, Catch, NEW e \in Event, Start(e) \/ Finish(e) \/ Fail(e)
  PROVE  Rest(e)'
<1>1. FlagsOK /\ ValuesOK /\ FrameInv /\ EventInv(e)
  BY DEF ReplyInv
<1>2. KeepResult /\ reply' = reply
  BY DEF Start, Finish, Fail
<1>3. forced'[e] = forced[e] /\ stopType'[e] = stopType[e] /\ result'[e] = result[e]
  BY <1>1, <1>2, KeepQuiet
<1>4. ResentOK(e)'
  BY <1>2, ResentKept
<1>5. CASE Start(e)
  <2>1. status[e] = "new" /\ status'[e] = "running"
    BY <1>1, <1>5 DEF Start, ValuesOK
  <2>2. Settled(e) /\ NoneMade(e)
    BY <1>1, <2>1 DEF EventInv, TaskOK, Settled, SentResult, NoneMade
  <2>3. QED BY <1>2, <2>1, <2>2, StaysSettled
<1>6. CASE Finish(e)
  <2>1. stack'[e] = stack[e] /\ stack[e] = <<>> /\ failed'[e] = failed[e] /\ status'[e] = "done"
    BY <1>1, <1>6 DEF Finish, ValuesOK
  <2>2. MadeOK(e)' /\ TaskOK(e)'
    BY <1>1, <1>2, <1>3, <2>1 DEF EventInv, MadeOK, TaskOK
  <2>3. SentOK(e)'
    BY <1>4, <2>1 DEF SentOK
  <2>4. QED BY <2>2, <2>3 DEF Rest
<1>7. CASE Fail(e)
  <2>1. stack[e] # <<>> /\ stack'[e] = <<>> /\ status'[e] = status[e]
    BY <1>1, <1>7 DEF Fail, FrameInv
  <2>2. failed'[e] = TRUE
    BY <1>1, <1>7, Zenon DEF Fail, FlagsOK
  <2>3. status[e] = "running"
    BY <1>1, <2>1 DEF EventInv, TaskOK
  <2>4. MadeOK(e)' /\ TaskOK(e)'
    BY <1>1, <1>2, <1>3, <2>1, <2>2, <2>3 DEF EventInv, MadeOK, TaskOK
  <2>5. SentOK(e)'
    BY <1>4, <2>1 DEF SentOK
  <2>6. QED BY <2>4, <2>5 DEF Rest
<1>8. QED BY <1>5, <1>6, <1>7

\* Up to ContentSafetyCheckStage.
LEMMA EarlyStagesFine ==
  ASSUME ReplyInv, Catch, NEW e \in Event,
         \/ Waking(e) \/ Gate(e)
         \/ SafetyPasses(e) \/ SafetyBlocksSilently(e) \/ SafetyBlocks(e) \/ SafetyBlocked(e)
  PROVE  Rest(e)'
<1>1. /\ \E g \in {"waking", "whitelist", "status", "rate", "safety"} : At(e, g)
      /\ status' = status /\ reply' = reply
      /\ KeepResult \/ MayStop(e) \/ StopEvents({e}, result, stopType) \/ SetResult(e, Block, FALSE)
  BY DEF Waking, Gate, SafetyPasses, SafetyBlocksSilently, SafetyBlocks, SafetyBlocked, AtPoint
<1>2. PICK g \in {"waking", "whitelist", "status", "rate", "safety"} : At(e, g)
  BY <1>1
<1>3. stack[e] # <<>> /\ Top(stack[e]) \notin {6, 8, 9} /\ status'[e] = "running"
  BY <1>1, <1>2, AtTop
<1>4. Settled(e) /\ NoneMade(e)
  BY <1>3, Calm
<1>5. QED BY <1>1, <1>3, <1>4, StaysSettled

LEMMA PreProcessFine == ASSUME ReplyInv, Catch, NEW e \in Event, PreProcess(e) PROVE Rest(e)'
<1>1. At(e, "preprocess") /\ KeepResult /\ PlainDone(e) /\ status' = status /\ reply' = reply
  BY DEF PreProcess
<1>2. stack[e] # <<>> /\ Last(stack[e]).st = 6 /\ status'[e] = "running"
  BY <1>1, AtTop
<1>3. Last(stack[e]) \notin {Enter(8), Enter(9)} /\ Last(stack[e]) # [st |-> 9, pt |-> "send"]
  BY <1>2 DEF Enter
<1>4. NoneMade(e)
  BY <1>2, <1>3, NoneWaits
<1>5. CASE Settled(e)
  BY <1>1, <1>2, <1>4, <1>5, StaysSettled
<1>6. CASE ~Settled(e)
  <2>1. is_stopped(e)
    BY <1>2, <1>3, <1>6, NotYetSent
  <2>2. is_stopped(e)'
    BY <1>1, <2>1 DEF KeepResult, is_stopped
  <2>3. NoneMade(e)'
    BY <1>1, <1>4 DEF NoneMade
  <2>4. QED BY <1>1, <1>2, <2>2, <2>3, WindsUp
<1>7. QED BY <1>5, <1>6

\* ProcessStage
LEMMA ProcessFine ==
  ASSUME ReplyInv, Catch, NEW e \in Event,
         \/ ProcessEnter(e) \/ PluginSetsResult(e) \/ PluginStops(e) \/ PluginSends(e)
         \/ HandlerYields(e) \/ HandlerAsks(e) \/ HandlerEnds(e) \/ HandlerRaises(e) \/ HandlerRaised(e)
         \/ AgentYields(e) \/ AgentBack(e) \/ AgentEnds(e) \/ AgentFails(e) \/ AskedEnds(e) \/ AskedFails(e)
  PROVE  Rest(e)'
<1>1. At(e, "process") /\ status' = status
  <2>1. CASE ProcessEnter(e) \/ PluginSetsResult(e) \/ PluginStops(e) \/ PluginSends(e)
    BY <2>1 DEF ProcessEnter, PluginSetsResult, PluginStops, PluginSends, InPlugin, AtPoint
  <2>2. CASE HandlerYields(e) \/ HandlerAsks(e) \/ HandlerEnds(e) \/ HandlerRaises(e) \/ HandlerRaised(e)
    BY <2>2 DEF HandlerYields, HandlerAsks, HandlerEnds, HandlerRaises, HandlerRaised, AtPoint
  <2>3. CASE AgentYields(e) \/ AgentBack(e) \/ AgentEnds(e) \/ AgentFails(e) \/ AskedEnds(e) \/ AskedFails(e)
    BY <2>3 DEF AgentYields, AgentBack, AgentEnds, AgentFails, AskedEnds, AskedFails, Asked, AtPoint
  <2>4. QED BY <2>1, <2>2, <2>3
<1>2. stack[e] # <<>> /\ Top(stack[e]) = 7 /\ status'[e] = "running"
  BY <1>1, AtTop
<1>3. Settled(e) /\ NoneMade(e)
  BY <1>2, Calm
<1>4. ASSUME reply' = reply,
             KeepResult \/ StopEvents({e}, result, stopType) \/ ClearResult(e)
      PROVE  Rest(e)'
  BY <1>2, <1>3, <1>4, StaysSettled
<1>5. CASE \/ ProcessEnter(e) \/ PluginStops(e) \/ PluginSends(e) \/ HandlerAsks(e)
           \/ HandlerEnds(e) \/ AgentBack(e) \/ AgentEnds(e)
  BY <1>4, <1>5 DEF ProcessEnter, PluginStops, PluginSends, HandlerAsks, HandlerEnds, AgentBack, AgentEnds
<1>6. CASE PluginSetsResult(e)
  BY <1>2, <1>3, <1>6, SetsSettled DEF PluginSetsResult
<1>7. CASE HandlerYields(e) \/ AskedEnds(e)
  <2>1. KeepResult
    BY <1>7 DEF HandlerYields, AskedEnds
  <2>2. reply' = reply \/ (HandOn(e) /\ \E pt \in Point : Yield(e, pt))
    BY <1>7 DEF HandlerYields, AskedEnds, Point
  <2>3. QED BY <1>2, <1>4, <2>1, <2>2, YieldsResult
<1>8. CASE HandlerRaises(e) \/ AgentYields(e) \/ AgentFails(e)
  <2>1. CASE UNCHANGED reply /\ StopEvents({e}, result, stopType)
    BY <1>4, <2>1
  <2>2. CASE (\E r \in Reply : NewReply(e, r, "made") /\ SetResult(e, r, FALSE))
             /\ (Exhausted(e) \/ \E pt \in Point : Yield(e, pt))
    <3>1. PICK r \in Reply : NewReply(e, r, "made") /\ SetResult(e, r, FALSE)
      BY <2>2
    <3>2. QED BY <1>2, <2>2, <3>1, MakesReply
  <2>3. QED BY <1>8, <2>1, <2>2 DEF HandlerRaises, AgentYields, AgentFails, Point
<1>9. CASE AskedFails(e)
  <2>1. PICK r \in Reply :
          /\ SetResult(e, r, FALSE)
          /\ (NewReply(e, r, "made") /\ Yield(e, "handlers")) \/ NewReply(e, r, "notice")
    BY <1>9 DEF AskedFails
  <2>2. CASE NewReply(e, r, "made") /\ Yield(e, "handlers")
    BY <1>2, <2>1, <2>2, MakesReply DEF Point
  <2>3. CASE NewReply(e, r, "notice")
    <3>1. FlagsOK /\ ValuesOK
      BY DEF ReplyInv
    <3>2. result'[e] = r
      BY <2>1, <3>1, SetQuiet
    <3>3. reply'[e][r] = "notice" /\ \A q \in Reply \ {r} : reply'[e][q] = reply[e][q]
      BY <2>3, <3>1, NewReplyFacts
    <3>4. NoneMade(e)' /\ Settled(e)'
      BY <1>3, <3>2, <3>3 DEF NoneMade, Settled, SentResult
    <3>5. \A q \in Reply : reply'[e][q] = "resent" => reply[e][q] = "resent"
      BY <3>3
    <3>6. QED BY <1>2, <3>4, <3>5, ResentKept, SettledIsFine
  <2>4. QED BY <2>1, <2>2, <2>3
<1>10. CASE HandlerRaised(e)
  <2> DEFINE r == [result EXCEPT ![e] = None]
             t == [stopType EXCEPT ![e] = FALSE]
  <2>1. FlagsOK /\ ValuesOK /\ reply' = reply /\ StopEvents({e}, r, t)
    BY <1>10 DEF ReplyInv, HandlerRaised
  <2>2. r \in [Event -> Reply \cup {None, Bare, Block}] /\ r[e] = None
    BY <2>1 DEF ValuesOK
  <2>3. t \in [Event -> BOOLEAN]
    BY <2>1 DEF FlagsOK
  <2> HIDE DEF r, t
  <2>4. StopOutcome({e}, r, t)
    BY <2>1, <2>2, <2>3, StopFacts
  <2>5. e \in {e}
    OBVIOUS
  <2>6. result'[e] = Bare
    BY <2>2, <2>4, <2>5, Zenon DEF StopOutcome
  <2>7. NoneMade(e)' /\ Settled(e)' /\ ResentOK(e)'
    BY <1>3, <2>1, <2>6, NotReplies, ResentKept DEF NoneMade, Settled, SentResult
  <2>8. QED BY <1>2, <2>7, SettledIsFine
<1>11. QED BY <1>5, <1>6, <1>7, <1>8, <1>9, <1>10

LEMMA DecorateFine ==
  ASSUME ReplyInv, Catch, NEW e \in Event, Decorate(e) \/ DecorateBlocks(e) \/ DecorateBlocked(e)
  PROVE  Rest(e)'
<1>1. FlagsOK /\ ValuesOK /\ MadeOK(e)
  BY DEF ReplyInv, EventInv
<1>2. At(e, "decorate") /\ status' = status
  BY DEF Decorate, DecorateBlocks, DecorateBlocked, AtPoint
<1>3. stack[e] # <<>> /\ Top(stack[e]) = 8 /\ Last(stack[e]).st = 8 /\ status'[e] = "running"
  BY <1>2, AtTop
<1>4. Settled(e) /\ (caught[e] => caught'[e])
  <2>1. Last(stack[e]) # [st |-> 9, pt |-> "send"]
    BY <1>3
  <2>2. QED BY <1>1, <1>3, <2>1, NotYetSent, CatchFacts
<1>5. CASE Decorate(e)
  <2>1. Exhausted(e)
    BY <1>5 DEF Decorate
  <2>2. CASE KeepResult /\ reply' = reply
    BY <1>1, <1>3, <2>1, <2>2, KeepQuiet, HandsOn
  <2>3. CASE StopEvents({e}, result, stopType) /\ reply' = reply
    <3>1. CASE result[e] = None
      BY <1>3, <2>3, <3>1, NoResult, StaysSettled
    <3>2. CASE result[e] # None
      BY <1>1, <1>3, <2>1, <2>3, <3>2, StopQuiet, HandsOn
    <3>3. QED BY <3>1, <3>2
  <2>4. CASE PluginSets(e)
    <3>1. /\ \A q \in Reply : reply'[e][q] \in {"set", "dropped"} \/ reply'[e][q] = reply[e][q]
          /\ \/ result'[e] = result[e]
             \/ /\ result[e] \in Reply => reply'[e][result[e]] = "dropped"
                /\ result'[e] \in Reply => reply'[e][result'[e]] = "set"
      BY <1>1, <2>4, PluginSetsFacts
    <3>2. CASE result'[e] = result[e]
      BY <1>3, <2>1, <3>1, <3>2, HandsOn
    <3>3. CASE /\ result[e] \in Reply => reply'[e][result[e]] = "dropped"
               /\ result'[e] \in Reply => reply'[e][result'[e]] = "set"
      <4>1. NoneMade(e)'
        BY <1>1, <3>1, <3>3 DEF MadeOK, NoneMade
      <4>2. Settled(e)'
        BY <3>3 DEF Settled, SentResult
      <4>3. ResentOK(e)'
        BY <3>1, ResentKept
      <4>4. QED BY <1>3, <4>1, <4>2, <4>3, SettledIsFine
    <3>4. QED BY <3>1, <3>2, <3>3
  <2>5. QED BY <1>5, <2>2, <2>3, <2>4 DEF Decorate
<1>6. CASE DecorateBlocks(e)
  <2>1. /\ Mark(e, "blocked") /\ result[e] \in Reply
        /\ SetResult(e, Block, FALSE) \/ StopEvents({e}, result, stopType)
    BY <1>6 DEF DecorateBlocks
  <2>2. \A q \in Reply : reply'[e][q] = IF q = result[e] THEN "blocked" ELSE reply[e][q]
    BY <1>1, <2>1, MarkFacts
  <2>3. result'[e] = Block \/ result'[e] = result[e]
    <3>1. SetResult(e, Block, FALSE) => result'[e] = Block
      BY <1>1, SetQuiet
    <3>2. QED BY <1>1, <2>1, <3>1, StopQuiet, NotReplies
  <2>4. NoneMade(e)' /\ Settled(e)'
    BY <1>1, <2>1, <2>2, <2>3, NotReplies DEF MadeOK, NoneMade, Settled, SentResult
  <2>5. ResentOK(e)'
    BY <2>2, ResentKept
  <2>6. QED BY <1>3, <2>4, <2>5, SettledIsFine
<1>7. CASE DecorateBlocked(e)
  <2>1. Last(stack[e]) \notin {Enter(8), Enter(9)} /\ reply' = reply
    BY <1>7 DEF DecorateBlocked, AtPoint, Enter
  <2>2. NoneMade(e)
    BY <1>3, <2>1, NoneWaits
  <2>3. QED BY <1>3, <1>4, <1>7, <2>1, <2>2, StaysSettled DEF DecorateBlocked
<1>8. QED BY <1>5, <1>6, <1>7

\* The frame that sends is the last one, above the same frames.
LEMMA SendFrame ==
  ASSUME FrameInv, NEW e \in Event, stack[e] # <<>>, Top(stack[e]) = 9, GoTo(e, "send")
  PROVE  stack'[e] # <<>> /\ Last(stack'[e]) = [st |-> 9, pt |-> "send"]
<1>1. PICK s : s = stack[e] OBVIOUS
<1>2. StackOK(s) /\ s # <<>> /\ Top(s) = 9
  BY <1>1 DEF FrameInv
<1>3. s \in Seq(Frame) /\ Len(s) \in Nat \ {0}
  BY <1>2 DEF StackOK
<1>4. Last(s) \in Frame /\ Last(s).st = 9
  BY <1>2, TopFacts
<1>5. PICK f : f = [Last(s) EXCEPT !.pt = "send"] OBVIOUS
<1>6. f \in Frame /\ f = [st |-> 9, pt |-> "send"]
  BY <1>4, <1>5 DEF Frame, Point
<1>7. /\ Front(s) \in Seq(Frame) /\ Len(Front(s)) = Len(s) - 1
      /\ \A i \in 1 .. Len(s) - 1 : Front(s)[i] = s[i]
  BY <1>3, FrontLemma
<1>8. PICK n : n = Append(Front(s), f) OBVIOUS
<1>9. n \in Seq(Frame) /\ Len(n) = Len(s) /\ n[Len(s)] = f
      /\ \A i \in 1 .. Len(s) - 1 : n[i] = s[i]
  BY <1>3, <1>6, <1>7, <1>8
<1>10. stack'[e] = n
  BY <1>1, <1>5, <1>8 DEF GoTo, Replace, FrameInv
<1>11. Last(n) = f /\ n # <<>>
  BY <1>3, <1>6, <1>9 DEF Last
<1>12. QED BY <1>6, <1>10, <1>11

LEMMA SendFine == ASSUME ReplyInv, Catch, NEW e \in Event, Send(e) PROVE Rest(e)'
<1>1. FlagsOK /\ ValuesOK /\ FrameInv /\ EventInv(e)
  BY DEF ReplyInv
<1>2. /\ At(e, "respond") /\ Last(stack[e]).pt = "enter"
      /\ status' = status /\ KeepResult /\ GoTo(e, "send")
  BY DEF Send, AtPoint
<1>3. stack[e] # <<>> /\ Top(stack[e]) = 9 /\ status'[e] = "running"
  BY <1>2, AtTop
<1>4. caught[e] => caught'[e]
  BY <1>1, CatchFacts
<1>5. \A r \in Reply : reply'[e][r] =
        IF r = result[e] THEN (IF reply[e][r] \in {"sent", "resent"} THEN "resent" ELSE "sent") ELSE reply[e][r]
  <2>1. reply' = [reply EXCEPT ![e] = [r \in Reply |->
                 IF r = result[e] THEN (IF @[r] \in {"sent", "resent"} THEN "resent" ELSE "sent") ELSE @[r]]]
    BY DEF Send
  <2>2. QED BY <1>1, <2>1 DEF ValuesOK
<1>6. Settled(e)
  <2>1. Last(stack[e]) # [st |-> 9, pt |-> "send"]
    BY <1>2
  <2>2. QED BY <1>3, <2>1, NotYetSent
<1>7. NoneMade(e)'
  BY <1>1, <1>5 DEF EventInv, MadeOK, NoneMade
<1>8. ResentOK(e)'
  BY <1>1, <1>4, <1>5, <1>6 DEF EventInv, SentOK, ResentOK, Settled, SentResult
<1>9. stack'[e] # <<>> /\ Last(stack'[e]) = [st |-> 9, pt |-> "send"]
  BY <1>1, <1>2, <1>3, SendFrame
<1>10. MadeOK(e)' /\ TaskOK(e)'
  BY <1>3, <1>7 DEF NoneMade, MadeOK, TaskOK
<1>11. SentOK(e)'
  BY <1>8, <1>9 DEF SentOK
<1>12. QED BY <1>10, <1>11 DEF Rest

LEMMA RespondFine ==
  ASSUME ReplyInv, Catch, NEW e \in Event, NothingToSend(e) \/ Send(e) \/ Sent(e)
  PROVE  Rest(e)'
<1>1. FlagsOK /\ ValuesOK
  BY DEF ReplyInv
<1>2. At(e, "respond") /\ status' = status
  BY DEF NothingToSend, Send, Sent, AtPoint
<1>3. stack[e] # <<>> /\ Last(stack[e]).st = 9 /\ status'[e] = "running"
  BY <1>2, AtTop
<1>4. CASE NothingToSend(e)
  <2>1. result[e] = None /\ KeepResult /\ reply' = reply
    BY <1>4 DEF NothingToSend
  <2>2. QED BY <1>3, <2>1, NoResult, StaysSettled
<1>5. CASE Sent(e)
  <2>1. PlainDone(e) /\ Last(stack[e]).pt = "send"
    BY <1>5 DEF Sent, AtPoint
  <2>2. NoneMade(e)
    BY <1>3, <2>1, NoneWaits DEF Enter
  <2>3. CASE ClearResult(e) /\ UNCHANGED reply
    <3>1. result'[e] = None
      BY <1>1, <2>3, SetQuiet DEF ClearResult
    <3>2. NoneMade(e)' /\ Settled(e)' /\ ResentOK(e)'
      BY <2>2, <2>3, <3>1, NotReplies, ResentKept DEF NoneMade, Settled, SentResult
    <3>3. QED BY <1>3, <3>2, SettledIsFine
  <2>4. CASE is_stopped(e)' /\ (UNCHANGED reply \/ PluginSets(e))
    <3>1. \A q \in Reply : reply'[e][q] \in {"set", "dropped"} \/ reply'[e][q] = reply[e][q]
      BY <1>1, <2>4, PluginSetsFacts
    <3>2. NoneMade(e)'
      BY <2>2, <3>1 DEF NoneMade
    <3>3. QED BY <1>3, <2>1, <2>4, <3>1, <3>2, WindsUp
  <2>5. QED BY <1>5, <2>3, <2>4 DEF Sent
<1>6. QED BY <1>4, <1>5, SendFine

LEMMA ActsFine == ASSUME ReplyInv, Catch, NEW e \in Event, Acts(e) PROVE EventInv(e)'
<1>1. CASE Start(e) \/ Finish(e) \/ Fail(e)
  BY <1>1, TaskStaysFine, StopKept DEF Rest, EventInv
<1>2. CASE Step(e) /\ ~Finish(e)
  <2>1. Rest(e)'
    BY <1>2, EarlyStagesFine, PreProcessFine, ProcessFine, DecorateFine, RespondFine DEF Step
  <2>2. QED BY <2>1, StopKept DEF Rest, EventInv
<1>3. QED BY <1>1, <1>2 DEF Acts

\* The command /reset stops other events, wherever they are.
LEMMA ResetFine ==
  ASSUME ReplyInv, Catch, NEW e \in Event, HandlerResets(e)
  PROVE  FlagsOK' /\ ValuesOK' /\ \A x \in Event : EventInv(x)'
<1> DEFINE S == active[umo[e]] \ {e}
<1>1. FlagsOK /\ ValuesOK
  BY DEF ReplyInv
<1>2. StopEvents(S, result, stopType)
  BY DEF HandlerResets, stop_all
<1>3. UNCHANGED <<status, stack, umo, active, awake, hasSent, reply, failed>>
  BY DEF HandlerResets
<1> HIDE DEF S
<1>4. result \in [Event -> Reply \cup {None, Bare, Block}] /\ stopType \in [Event -> BOOLEAN]
  BY <1>1, Zenon DEF FlagsOK, ValuesOK
<1>5. StopOutcome(S, result, stopType)
  BY <1>1, <1>2, <1>4, StopFacts
<1>6. FlagsOK'
  BY <1>1, <1>3, <1>5, CatchFacts, Zenon DEF FlagsOK, StopOutcome
<1>7. ValuesOK'
  BY <1>1, <1>3, <1>5, Zenon DEF ValuesOK, StopOutcome
<1>8. ASSUME NEW x \in Event PROVE EventInv(x)'
  <2>1. EventInv(x)
    BY DEF ReplyInv
  <2>2. /\ caught[x] => caught'[x]
        /\ is_stopped(x)' /\ ~caught'[x] => ~Suspended(x)
    BY <1>1, CatchFacts
  <2>3. Suspended(x)' => Suspended(x)
    BY <1>3 DEF Suspended
  <2>4. result'[x] = result[x] \/ (result[x] = None /\ result'[x] = Bare)
    <3>1. CASE x \in S
      BY <1>5, <3>1, Zenon DEF StopOutcome
    <3>2. CASE x \notin S
      BY <1>5, <3>2, Zenon DEF StopOutcome
    <3>3. QED BY <3>1, <3>2
  <2>5. is_stopped(x) => is_stopped(x)'
    <3>1. CASE x \in S
      BY <1>5, <3>1, Zenon DEF StopOutcome, is_stopped
    <3>2. CASE x \notin S
      BY <1>5, <3>2, Zenon DEF StopOutcome, is_stopped
    <3>3. QED BY <3>1, <3>2
  <2>6. SentResult(x)' => SentResult(x)
    BY <1>3, <2>4, NotReplies DEF SentResult
  <2>7. MadeOK(x)' /\ TaskOK(x)'
    BY <1>3, <2>1, <2>4, NotReplies DEF EventInv, MadeOK, TaskOK
  <2>8. StopOK(x)' /\ SentOK(x)'
    BY <1>3, <2>1, <2>2, <2>3, <2>5, <2>6 DEF EventInv, StopOK, SentOK, ResentOK
  <2>9. QED BY <2>7, <2>8 DEF EventInv
<1>9. QED BY <1>6, <1>7, <1>8

LEMMA ReplyStep == ReplyInv /\ [Next]_vars => ReplyInv'
<1> SUFFICES ASSUME ReplyInv, [Next]_vars PROVE ReplyInv'
  OBVIOUS
<1>1. FrameInv'
  BY FrameStep DEF ReplyInv
<1>2. CASE UNCHANGED vars
  <2>1. FlagsOK' /\ ValuesOK'
    BY <1>2, Zenon DEF ReplyInv, FlagsOK, ValuesOK, vars
  <2>2. ASSUME NEW e \in Event PROVE EventInv(e)'
    <3>1. EventInv(e)
      BY DEF ReplyInv
    <3>2. MadeOK(e)' /\ TaskOK(e)'
      BY <1>2, <3>1 DEF EventInv, MadeOK, TaskOK, vars
    <3>3. StopOK(e)' /\ SentOK(e)'
      BY <1>2, <3>1 DEF EventInv, StopOK, SentOK, ResentOK, SentResult, Suspended, is_stopped, vars
    <3>4. QED BY <3>2, <3>3 DEF EventInv
  <2>3. QED BY <1>1, <2>1, <2>2 DEF ReplyInv
<1>3. ASSUME NEW e \in Event, Acts(e), Catch PROVE ReplyInv'
  <2>1. FlagsOK
    BY DEF ReplyInv
  <2>2. FlagsOK' /\ ValuesOK'
    BY <1>3, <2>1, StepQuiet, StepReply, StepTask, StepFlags, CatchFacts, Zenon
       DEF Quiet, ReplyLocal, TaskLocal, FlagsLocal, FlagsOK, ValuesOK
  <2>3. \A x \in Event : EventInv(x)'
    BY <1>3, ActsFine, OthersKept
  <2>4. QED BY <1>1, <2>2, <2>3 DEF ReplyInv
<1>4. ASSUME NEW e \in Event, HandlerResets(e), Catch PROVE ReplyInv'
  BY <1>1, <1>4, ResetFine DEF ReplyInv
<1>5. QED BY <1>2, <1>3, <1>4 DEF Next, Acts

LEMMA ReplyInit == Init => ReplyInv
<1> SUFFICES ASSUME Init PROVE ReplyInv
  OBVIOUS
<1>1. FlagsOK
  BY Zenon DEF Init, FlagsOK
<1>2. ValuesOK
  BY UmoAssumption DEF Init, ValuesOK, Fate
<1>3. ASSUME NEW e \in Event PROVE EventInv(e)
  <2>1. /\ status[e] = "new" /\ stack[e] = <<>> /\ result[e] = None
        /\ \A r \in Reply : reply[e][r] = "unused"
    BY DEF Init
  <2>2. ~failed[e]
    BY Zenon DEF Init
  <2>3. ~Suspended(e)
    BY <2>1 DEF Suspended
  <2>4. QED BY <2>1, <2>2, <2>3 DEF EventInv, MadeOK, StopOK, SentOK, ResentOK, SentResult, TaskOK
<1>4. QED BY <1>1, <1>2, <1>3, FrameInit DEF ReplyInv

\* Every variable keeps its type.
THEOREM TypeCorrect == Spec => []TypeOK
<1>1. ReplyInv => TypeOK
  BY Zenon DEF ReplyInv, FlagsOK, ValuesOK, FrameInv, TypeOK
<1>2. QED BY <1>1, ReplyInit, ReplyStep, PTL DEF Spec

\* When the pipeline has run to its end without an exception no reply that was
\* handed to it is left behind: one that waits is the result of an event whose
\* frames are right before RespondStage, and the stages that a stop does not skip
\* send it.
THEOREM RepliesGoOut == Spec => []RepliesDelivered
<1>1. ReplyInv => RepliesDelivered
  <2> SUFFICES ASSUME ReplyInv, NEW e \in Event, status[e] = "done", ~failed[e], NEW r \in Reply
               PROVE  reply[e][r] # "made"
    BY DEF RepliesDelivered
  <2>1. MadeOK(e) /\ TaskOK(e)
    BY DEF ReplyInv, EventInv
  <2>2. stack[e] = <<>>
    BY <2>1 DEF TaskOK
  <2>3. QED BY <2>1, <2>2 DEF MadeOK
<1>2. QED BY <1>1, ReplyInit, ReplyStep, PTL DEF Spec

\* A reply goes out twice only for an event that was stopped while a generator of
\* ProcessStage or ResultDecorateStage was suspended: any other stop ends the loops
\* on its way back, so that RespondStage is not entered with the result again.
THEOREM ResentIsCaught == Spec => []ResentOnlyIfCaught
<1>1. ReplyInv => ResentOnlyIfCaught
  BY DEF ReplyInv, EventInv, SentOK, ResentOK, ResentOnlyIfCaught
<1>2. QED BY <1>1, ReplyInit, ReplyStep, PTL DEF Spec
=============================================================================

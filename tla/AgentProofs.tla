---------------------------- MODULE AgentProofs ----------------------------
(***************************************************************************)
(* Theorems about Agent for every set of messages, every bound and both    *)
(* tool execution modes.                                                   *)
(***************************************************************************)
EXTENDS Agent, SequenceTheorems, FiniteSetTheorems, TLAPS

----------------------------------------------------------------------------
(* Facts about messages and queues *)

\* Constructors build messages of their kind.
LEMMA UserType == \A m \in Msgs, v \in Via : User(m, v) \in UserMessage
  BY DEF User, UserMessage

\* An answer is a message of an assistant,
LEMMA AssistantType ==
  \A n \in Nat, s \in Stops, k \in Nat : Assistant(n, s, k) \in Message
  BY DEF Assistant, AssistantMessage, Message

\* and the result of a tool.
LEMMA ToolResultType == \A c \in CallId : ToolResult(c) \in ToolResultMessage
  BY DEF ToolResult, ToolResultMessage

\* A sequence of user messages or of tool results is a conversation.
LEMMA Widening ==
  /\ UserMessage \subseteq Message /\ ToolResultMessage \subseteq Message
  /\ Seq(UserMessage) \subseteq Seq(Message)
  /\ Seq(ToolResultMessage) \subseteq Seq(Message)
<1>1. UserMessage \subseteq Message /\ ToolResultMessage \subseteq Message
  BY DEF Message
<1>2. \A S, T : S \subseteq T => Seq(S) \subseteq Seq(T)
  OBVIOUS
<1> QED BY <1>1, <1>2

\* Draining splits a queue: what is returned and what stays, in order
\* (PendingMessageQueue.drain).
LEMMA DrainSplitsQueue ==
  ASSUME NEW S, NEW q \in Seq(S), NEW md
  PROVE  /\ Drained(q, md) \in Seq(S) /\ Remaining(q, md) \in Seq(S)
         /\ Drained(q, md) \o Remaining(q, md) = q
<1>1. CASE md = "all" \/ q = <<>>
  BY <1>1 DEF Drained, Remaining
<1>2. CASE ~(md = "all" \/ q = <<>>)
  <2>1. Head(q) \in S /\ Tail(q) \in Seq(S) /\ Len(q) > 0
    BY <1>2, EmptySeq, HeadTailProperties
  <2>2. <<Head(q)>> \o Tail(q) = q
    BY <1>2, HeadTailProperties, <2>1
  <2> QED BY <1>2, <2>1, <2>2 DEF Drained, Remaining
<1> QED BY <1>1, <1>2

\* The shapes of sequence the actions build.
LEMMA NoneIn ==
  /\ <<>> \in Seq(Message) /\ <<>> \in Seq(UserMessage)
  /\ <<>> \in Seq(ToolResultMessage) /\ <<>> \in Seq(CallId)
  BY EmptySeq
\* The operators on sequences keep the set of the elements: head and tail.
LEMMA HeadTail == \A S : \A q \in Seq(S) : q # <<>> => Head(q) \in S /\ Tail(q) \in Seq(S)
  BY HeadTailProperties
\* Append.
LEMMA AppendIn == \A S : \A q \in Seq(S), e \in S : Append(q, e) \in Seq(S)
  BY AppendProperties
\* Concatenation.
LEMMA ConcatIn == \A S : \A q, r \in Seq(S) : q \o r \in Seq(S)
  BY ConcatProperties
\* All but the last.
LEMMA FrontIn == \A S : \A q \in Seq(S) : Front(q) \in Seq(S)
<1> SUFFICES ASSUME NEW S, NEW q \in Seq(S) PROVE Front(q) \in Seq(S)
  OBVIOUS
<1>1. \A i \in 1 .. Len(q) - 1 : q[i] \in S
  BY ElementOfSeq, LenProperties
<1> QED BY <1>1, SubSeqProperties, LenProperties DEF Front
\* So does draining a queue of pending messages, in both its modes.
LEMMA Drains ==
  \A S : \A q \in Seq(S) : \A md : Drained(q, md) \in Seq(S) /\ Remaining(q, md) \in Seq(S)
  BY DrainSplitsQueue

\* A batch of distinct identities becomes a sequence of prompts.
LEMMA BatchType ==
  ASSUME NEW b \in Batches
  PROVE  [i \in 1 .. Len(b) |-> User(b[i], "prompt")] \in Seq(UserMessage)
<1>1. PICK n \in 1 .. MaxBatch : b \in [1 .. n -> Msgs]
  BY DEF Batches
<1>2. n \in Nat /\ Len(b) = n
  BY <1>1, AgentAssumption DEF AgentAssumption
<1>3. \A i \in 1 .. n : User(b[i], "prompt") \in UserMessage
  BY <1>1, UserType DEF Via
<1> QED BY <1>2, <1>3, IsASeq

----------------------------------------------------------------------------
(* Type correctness *)

\* Starting a run keeps the types when the prompts are user messages.
LEMMA StartRunType ==
  ASSUME TypeOK, NEW ms \in Seq(UserMessage), NEW sk \in BOOLEAN, StartRun(ms, sk),
         submitted' \subseteq Msgs, steeringQueue' \in Seq(UserMessage),
         followUpQueue' \in Seq(UserMessage), steeringMode' \in Modes, followUpMode' \in Modes
  PROVE  TypeOK'
<1>1. context' \in Seq(Message)
  BY Widening, ConcatIn DEF TypeOK, StartRun
<1> QED BY <1>1, NoneIn DEF TypeOK, StartRun, toolVars, Locations, ToolPhase

\* Every step keeps the types.
LEMMA TypeStep == TypeOK /\ [Next]_vars => TypeOK'
<1> SUFFICES ASSUME TypeOK, [Next]_vars PROVE TypeOK'
  OBVIOUS
<1> USE AgentAssumption DEF AgentAssumption
<1> USE DEF loopVars, queueVars, bookVars
<1>1. ASSUME NEW b \in Batches, Distinct(b), Prompt(b) PROVE TypeOK'
  <2>1. InSeq(b) \subseteq Msgs
    BY DEF Batches, InSeq
  <2> QED BY <1>1, <2>1, BatchType, StartRunType DEF Prompt, TypeOK
<1>2. CASE ContinueFromSteering
  BY <1>2, Drains, StartRunType DEF ContinueFromSteering, TypeOK
<1>3. CASE ContinueFromFollowUp
  BY <1>3, Drains, StartRunType DEF ContinueFromFollowUp, TypeOK
<1>4. CASE ContinueTranscript
  BY <1>4, NoneIn, StartRunType DEF ContinueTranscript, TypeOK
<1>5. ASSUME NEW m \in Msgs, Steer(m) PROVE TypeOK'
  BY <1>5, UserType, AppendIn DEF Steer, TypeOK, toolVars, Via, ToolPhase
<1>6. ASSUME NEW m \in Msgs, FollowUp(m) PROVE TypeOK'
  BY <1>6, UserType, AppendIn DEF FollowUp, TypeOK, toolVars, Via, ToolPhase
<1>7. ASSUME NEW s \in Modes, NEW f \in Modes, SetModes(s, f) PROVE TypeOK'
  BY <1>7 DEF SetModes, TypeOK, toolVars
<1>8. CASE ClearSteeringQueue \/ ClearFollowUpQueue \/ Reset \/ DropErrorMessage \/ Abort
  <2>1. CASE ClearSteeringQueue
    BY <2>1, NoneIn DEF ClearSteeringQueue, TypeOK, toolVars
  <2>2. CASE ClearFollowUpQueue
    BY <2>2, NoneIn DEF ClearFollowUpQueue, TypeOK, toolVars
  <2>3. CASE Reset
    BY <2>3, NoneIn DEF Reset, Idle, TypeOK, toolVars
  <2>4. CASE Abort
    BY <2>4 DEF Abort, TypeOK, toolVars
  <2>5. CASE DropErrorMessage
    BY <2>5, FrontIn DEF DropErrorMessage, Idle, TypeOK, toolVars
  <2> QED BY <1>8, <2>1, <2>2, <2>3, <2>4, <2>5
<1>9. CASE EmitPrompt
  BY <1>9, HeadTail, Widening, AppendIn DEF EmitPrompt, TypeOK, toolVars, Locations, ToolPhase
<1>10. CASE InitialPoll
  BY <1>10, NoneIn, Drains DEF InitialPoll, TakeSteering, TypeOK, toolVars, Locations, ToolPhase
<1>11. CASE StartTurn
  BY <1>11 DEF StartTurn, TypeOK, toolVars, Locations, ToolPhase
<1>12. CASE InjectMessage
  BY <1>12, HeadTail, Widening, AppendIn DEF InjectMessage, TypeOK, toolVars, Locations, ToolPhase
<1>13. CASE PushInjected
  BY <1>13, HeadTail, Widening, AppendIn DEF PushInjected, TypeOK, toolVars, Locations, ToolPhase
<1>14. CASE Request
  BY <1>14 DEF Request, TypeOK, toolVars, Locations, ToolPhase
<1>15. CASE StopOnError
  BY <1>15 DEF StopOnError, TypeOK, toolVars, Locations, ToolPhase
<1>16. CASE StartTools
  BY <1>16 DEF StartTools, TypeOK, toolVars, Locations, ToolPhase
<1>17. CASE PollSteering
  BY <1>17, NoneIn, Drains DEF PollSteering, TakeSteering, TypeOK, toolVars, Locations, ToolPhase
<1>18. CASE PollFollowUp
  BY <1>18, Drains DEF PollFollowUp, TypeOK, toolVars, Locations, ToolPhase
<1>19. CASE ToolStart
  BY <1>19 DEF ToolStart, TypeOK, toolVars, Locations, ToolPhase, CallId
<1>20. CASE ToolImmediate
  BY <1>20 DEF ToolImmediate, TypeOK, toolVars, Locations, ToolPhase
<1>21. CASE ToolPrepared
  BY <1>21, AppendIn DEF ToolPrepared, TypeOK, toolVars, Locations, ToolPhase
<1>22. CASE LaunchTools
  BY <1>22 DEF LaunchTools, InSeq, TypeOK, toolVars, Locations, ToolPhase
<1>23. CASE FinalizeTool
  BY <1>23, HeadTail DEF FinalizeTool, TypeOK, toolVars, Locations, ToolPhase
<1>24. CASE ToolOutcome
  BY <1>24, ToolResultType, Widening, AppendIn DEF ToolOutcome, TypeOK, toolVars, Locations, ToolPhase
<1>25. CASE ToolsDone
  BY <1>25, Widening, ConcatIn DEF ToolsDone, TypeOK, toolVars, Locations, ToolPhase
<1>26. CASE HandleRunFailure
  <2>1. Assistant(0, "failure", 0) \in Message
    BY AssistantType DEF Stops
  <2> QED BY <1>26, <2>1, AppendIn DEF HandleRunFailure, TypeOK, toolVars, Locations, ToolPhase
<1>27. CASE FinishRun
  BY <1>27, NoneIn DEF FinishRun, NoCall, TypeOK, toolVars, Locations, ToolPhase, CallId
<1>28. ASSUME NEW s \in {"stop", "error", "aborted"}, NEW n \in 0 .. MaxCalls, ResponseEnd(s, n)
      PROVE TypeOK'
  <2>1. Assistant(turns + 1, s, n) \in Message
    BY AssistantType DEF TypeOK, Stops
  <2> QED BY <1>28, <2>1, FrontIn, AppendIn DEF ResponseEnd, TypeOK, Locations, ToolPhase
<1>29. CASE ResponseStart
  <2>1. Assistant(turns + 1, "partial", 0) \in Message
    BY AssistantType DEF TypeOK, Stops
  <2> QED BY <1>29, <2>1, AppendIn DEF ResponseStart, TypeOK, toolVars, Locations, ToolPhase
<1>30. CASE Throw
  BY <1>30 DEF Throw, TypeOK, toolVars, Locations, ToolPhase
<1>31. ASSUME NEW c \in executing, ToolSettles(c) PROVE TypeOK'
  BY <1>31 DEF ToolSettles, TypeOK
<1>32. CASE UNCHANGED vars
  BY <1>32 DEF vars, TypeOK, toolVars
<1> QED
  BY <1>1, <1>2, <1>3, <1>4, <1>5, <1>6, <1>7, <1>8, <1>9, <1>10, <1>11, <1>12, <1>13,
     <1>14, <1>15, <1>16, <1>17, <1>18, <1>19, <1>20, <1>21, <1>22, <1>23, <1>24, <1>25,
     <1>26, <1>27, <1>28, <1>29, <1>30, <1>31, <1>32
     DEF Next, Caller, Loop, Continue

\* The agent and its loop keep their types: transcripts hold messages, the
\* queues hold user messages, the loop is at one of its awaits.
THEOREM TypeCorrect == Spec => []TypeOK
<1>1. Init => TypeOK
  <2>1. NoCall \in CallId
    BY DEF NoCall, CallId
  <2>2. pc = "idle" => pc \in Locations /\ pc \notin ToolPhase
    BY DEF Locations, ToolPhase
  <2> SUFFICES ASSUME Init PROVE TypeOK
    OBVIOUS
  <2>3. /\ messages \in Seq(Message) /\ context \in Seq(Message)
        /\ prompts \in Seq(UserMessage) /\ pending \in Seq(UserMessage)
        /\ steeringQueue \in Seq(UserMessage) /\ followUpQueue \in Seq(UserMessage)
        /\ runnable \in Seq(CallId) /\ results \in Seq(ToolResultMessage)
    BY NoneIn DEF Init
  <2>4. /\ aborted \in BOOLEAN /\ skipPoll \in BOOLEAN /\ hasMoreToolCalls \in BOOLEAN
        /\ wasReset \in BOOLEAN
    BY DEF Init
  <2>5. calls \in Nat /\ prep \in Nat /\ turns \in Nat /\ toolTurns \in Nat
        /\ faults \in Nat /\ clears \in Nat
    BY DEF Init
  <2>6. pendingToolCalls \subseteq CallId /\ executing \subseteq CallId /\ submitted \subseteq Msgs
    BY DEF Init
  <2> QED BY <2>1, <2>2, <2>3, <2>4, <2>5, <2>6 DEF Init, TypeOK
<1> QED BY <1>1, TypeStep, PTL DEF Spec

----------------------------------------------------------------------------
(* The request shows the transcript *)

\* A message that moves from one queue to the other moves within their concatenation.
LEMMA MoveHead ==
  ASSUME NEW S, NEW q \in Seq(S), NEW r \in Seq(S), r # <<>>
  PROVE  Append(q, Head(r)) \o Tail(r) = q \o r
<1>1. Head(r) \in S /\ Tail(r) \in Seq(S) /\ r = <<Head(r)>> \o Tail(r)
  BY HeadTailProperties, EmptySeq
<1>2. Append(q, Head(r)) = q \o <<Head(r)>> /\ <<Head(r)>> \in Seq(S)
  BY <1>1, AppendIsConcat
<1> QED BY <1>1, <1>2, ConcatAssociative

\* All but the last message of a conversation that has grown by one.
LEMMA FrontOfAppend ==
  ASSUME NEW S, NEW q \in Seq(S), NEW e \in S
  PROVE  Front(Append(q, e)) = q
<1>1. Len(Append(q, e)) - 1 = Len(q) /\ Append(q, e) = q \o <<e>>
  BY AppendProperties, AppendIsConcat, LenProperties
<1>2. SubSeq(q \o <<e>>, 1, Len(q)) = q
  BY SubSeqOfConcat1, SubSeqFull, LenProperties
<1> QED BY <1>1, <1>2 DEF Front

\* Nothing to come changes nothing.
LEMMA NoneAfter == ASSUME NEW S, NEW q \in Seq(S) PROVE q \o <<>> = q
  BY ConcatEmptySeq

\* Starting a run copies the transcript and appends the prompts.
LEMMA StartRunContext ==
  ASSUME NEW ms, NEW sk, StartRun(ms, sk)
  PROVE  ContextInv'
<1>1. pc' = "prompts" /\ context' = messages' \o prompts'
  BY DEF StartRun
<1> QED BY <1>1 DEF ContextInv, ToolPhase

\* Every step keeps the relation between context and transcript.
LEMMA ContextStep == TypeOK /\ ContextInv /\ [Next]_vars => ContextInv'
<1> SUFFICES ASSUME TypeOK, ContextInv, [Next]_vars PROVE ContextInv'
  OBVIOUS
<1> USE DEF loopVars, queueVars, bookVars
<1>1. ASSUME NEW b \in Batches, Prompt(b) PROVE ContextInv'
  BY <1>1, StartRunContext DEF Prompt
<1>2. CASE Continue
  BY <1>2, StartRunContext
     DEF Continue, ContinueFromSteering, ContinueFromFollowUp, ContinueTranscript
<1>3. ASSUME NEW m \in Msgs, Steer(m) \/ FollowUp(m) PROVE ContextInv'
  BY <1>3 DEF Steer, FollowUp, ContextInv, toolVars
<1>4. ASSUME NEW s \in Modes, NEW f \in Modes, SetModes(s, f) PROVE ContextInv'
  BY <1>4 DEF SetModes, ContextInv, toolVars
<1>5. CASE ClearSteeringQueue \/ ClearFollowUpQueue \/ Abort
  BY <1>5 DEF ClearSteeringQueue, ClearFollowUpQueue, Abort, ContextInv, toolVars
<1>6. CASE Reset \/ DropErrorMessage
  BY <1>6 DEF Reset, DropErrorMessage, Idle, ContextInv, ToolPhase
<1>7. CASE EmitPrompt
  <2>1. messages' \o prompts' = messages \o prompts
    BY <1>7, MoveHead, Widening DEF EmitPrompt, TypeOK
  <2> QED BY <1>7, <2>1 DEF EmitPrompt, ContextInv, ToolPhase
<1>8. CASE InitialPoll
  <2>1. messages \o prompts = messages
    BY <1>8, NoneAfter DEF InitialPoll, TypeOK
  <2> QED BY <1>8, <2>1 DEF InitialPoll, ContextInv, ToolPhase
<1>9. CASE InjectMessage
  BY <1>9 DEF InjectMessage, ContextInv, ToolPhase
<1>10. CASE PushInjected
  BY <1>10 DEF PushInjected, ContextInv, ToolPhase
<1>11. CASE ResponseStart
  <2>1. Assistant(turns + 1, "partial", 0) \in Message
    BY AssistantType DEF TypeOK, Stops
  <2>2. Front(context') = context
    BY <1>11, <2>1, FrontOfAppend DEF ResponseStart, TypeOK
  <2> QED BY <1>11, <2>2 DEF ResponseStart, ContextInv, ToolPhase
<1>12. ASSUME NEW s \in {"stop", "error", "aborted"}, NEW n \in 0 .. MaxCalls, ResponseEnd(s, n)
       PROVE ContextInv'
  BY <1>12 DEF ResponseEnd, ContextInv, ToolPhase
<1>13. CASE StartTools
  <2>1. context \o <<>> = context
    BY NoneAfter DEF TypeOK
  <2> QED BY <1>13, <2>1 DEF StartTools, ContextInv, ToolPhase
<1>14. CASE ToolOutcome
  <2>1. ToolResult(cur) \in Message
    BY ToolResultType, Widening DEF TypeOK
  <2>4. context \in Seq(Message) /\ results \in Seq(Message)
    BY Widening DEF TypeOK
  <2>2. Append(context \o results, ToolResult(cur)) = context \o Append(results, ToolResult(cur))
    <3>1. Append(context \o results, ToolResult(cur)) = (context \o results) \o <<ToolResult(cur)>>
      BY <2>1, <2>4, ConcatIn, AppendIsConcat
    <3>2. Append(results, ToolResult(cur)) = results \o <<ToolResult(cur)>>
      BY <2>1, <2>4, AppendIsConcat
    <3>3. <<ToolResult(cur)>> \in Seq(Message)
      BY <2>1
    <3> QED BY <2>4, <3>1, <3>2, <3>3, ConcatAssociative
  <2>3. /\ messages' = Append(messages, ToolResult(cur))
        /\ results' = Append(results, ToolResult(cur))
        /\ context' = context /\ wasReset' = wasReset
        /\ pc \in ToolPhase /\ pc' \in {"tools", "await"}
    BY <1>14 DEF ToolOutcome, ToolPhase
  <2> QED BY <2>2, <2>3 DEF ContextInv, ToolPhase
<1>15. CASE ToolsDone
  BY <1>15 DEF ToolsDone, ContextInv, ToolPhase
<1>16. CASE StartTurn \/ Request \/ StopOnError \/ PollSteering \/ PollFollowUp
  BY <1>16 DEF StartTurn, Request, StopOnError, PollSteering, PollFollowUp, ContextInv, ToolPhase
<1>17. CASE ToolStart \/ ToolImmediate \/ ToolPrepared \/ LaunchTools \/ FinalizeTool
  BY <1>17
     DEF ToolStart, ToolImmediate, ToolPrepared, LaunchTools, FinalizeTool, ContextInv, ToolPhase,
         toolVars
<1>18. CASE Throw \/ HandleRunFailure \/ FinishRun
  <2>1. pc' \in {"failing", "failed", "idle"}
    BY <1>18 DEF Throw, HandleRunFailure, FinishRun
  <2> QED BY <2>1 DEF ContextInv, ToolPhase
<1>19. ASSUME NEW c \in executing, ToolSettles(c) PROVE ContextInv'
  BY <1>19 DEF ToolSettles, ContextInv
<1>20. CASE UNCHANGED vars
  BY <1>20 DEF vars, ContextInv, toolVars
<1> QED
  BY <1>1, <1>2, <1>3, <1>4, <1>5, <1>6, <1>7, <1>8, <1>9, <1>10, <1>11, <1>12, <1>13, <1>14,
     <1>15, <1>16, <1>17, <1>18, <1>19, <1>20 DEF Next, Caller, Loop

\* Whatever is queued, aborted, rejected or still executing, the model is sent
\* exactly the transcript the caller sees, unless reset() fell into the run.
THEOREM RequestTheorem == Spec => []RequestShowsTranscript
<1>1. Init => ContextInv
  BY DEF Init, ContextInv, ToolPhase
<1>2. ContextInv => RequestShowsTranscript
  BY DEF ContextInv, RequestShowsTranscript
<1> QED BY <1>1, <1>2, TypeCorrect, ContextStep, PTL DEF Spec

\* How the two copies of the conversation differ at each await of the loop.
THEOREM ContextTheorem == Spec => []ContextInv
<1>1. Init => ContextInv
  BY DEF Init, ContextInv, ToolPhase
<1> QED BY <1>1, TypeCorrect, ContextStep, PTL DEF Spec

----------------------------------------------------------------------------
(* Tool calls in flight *)

\* A queue with one element more.
LEMMA AppendElements ==
  ASSUME NEW S, NEW q \in Seq(S), NEW e \in S
  PROVE  /\ InSeq(Append(q, e)) = InSeq(q) \union {e}
         /\ Len(Append(q, e)) = Len(q) + 1
         /\ Distinct(q) /\ e \notin InSeq(q) => Distinct(Append(q, e))
<1>1. /\ Len(Append(q, e)) = Len(q) + 1
      /\ \A i \in 1 .. Len(q) : Append(q, e)[i] = q[i]
      /\ Append(q, e)[Len(q) + 1] = e
  BY AppendProperties
<1>2. Len(q) \in Nat
  BY LenProperties
<1>3. InSeq(Append(q, e)) = InSeq(q) \union {e}
  <2>1. InSeq(Append(q, e)) \subseteq InSeq(q) \union {e}
    BY <1>1, <1>2 DEF InSeq
  <2>2. InSeq(q) \union {e} \subseteq InSeq(Append(q, e))
    BY <1>1, <1>2 DEF InSeq
  <2> QED BY <2>1, <2>2
<1>4. Distinct(q) /\ e \notin InSeq(q) => Distinct(Append(q, e))
  BY <1>1, <1>2 DEF Distinct, InSeq
<1> QED BY <1>1, <1>3, <1>4

\* The head of a queue and what stays.
LEMMA HeadElements ==
  ASSUME NEW S, NEW q \in Seq(S), q # <<>>
  PROVE  /\ InSeq(q) = {Head(q)} \union InSeq(Tail(q))
         /\ Len(q) = Len(Tail(q)) + 1
         /\ Distinct(q) => Head(q) \notin InSeq(Tail(q)) /\ Distinct(Tail(q))
<1>1. /\ Len(q) \in Nat /\ Len(q) >= 1 /\ Head(q) = q[1]
      /\ Len(Tail(q)) = Len(q) - 1
      /\ \A i \in 1 .. Len(Tail(q)) : Tail(q)[i] = q[i + 1]
  BY HeadTailProperties, LenProperties, EmptySeq
<1>2. InSeq(q) = {Head(q)} \union InSeq(Tail(q))
  <2>1. ASSUME NEW i \in 1 .. Len(q) PROVE q[i] \in {Head(q)} \union InSeq(Tail(q))
    <3>1. CASE i = 1
      BY <1>1, <3>1
    <3>2. CASE i # 1
      <4>1. i - 1 \in 1 .. Len(Tail(q)) /\ q[i] = Tail(q)[i - 1]
        BY <1>1, <3>2
      <4> QED BY <4>1 DEF InSeq
    <3> QED BY <3>1, <3>2
  <2>2. ASSUME NEW i \in 1 .. Len(Tail(q)) PROVE Tail(q)[i] \in InSeq(q)
    BY <1>1 DEF InSeq
  <2>3. Head(q) \in InSeq(q)
    BY <1>1 DEF InSeq
  <2> QED BY <2>1, <2>2, <2>3 DEF InSeq
<1>3. Distinct(q) => Head(q) \notin InSeq(Tail(q)) /\ Distinct(Tail(q))
  <2> SUFFICES ASSUME Distinct(q) PROVE Head(q) \notin InSeq(Tail(q)) /\ Distinct(Tail(q))
    OBVIOUS
  <2>1. \A i \in 1 .. Len(Tail(q)) : Tail(q)[i] # Head(q)
    BY <1>1 DEF Distinct
  <2>2. \A i, j \in 1 .. Len(Tail(q)) : i # j => Tail(q)[i] # Tail(q)[j]
    BY <1>1 DEF Distinct
  <2> QED BY <2>1, <2>2 DEF Distinct, InSeq
<1> QED BY <1>1, <1>2, <1>3

\* An empty queue.
LEMMA NoElements == InSeq(<<>>) = {} /\ Distinct(<<>>) /\ Len(<<>>) = 0
  BY EmptySeq DEF InSeq, Distinct

InFlight == IF pc \in {"prepare", "outcome", "finalized"} THEN {cur} ELSE {}
TurnCalls(n) == {<<turns, i>> : i \in 1 .. n}
Answers(r) == {r[i].call : i \in 1 .. Len(r)}

OfThisTurn ==
  /\ \A c \in executing : c[1] <= turns
  /\ pc = "response" => \A c \in executing : c[1] < turns

CallInv ==
  pc \in ToolPhase =>
    /\ prep >= 1
    /\ Len(results) + Len(runnable) + (IF InFlight = {} THEN 0 ELSE 1) = prep - 1
    /\ Answers(results) \union InSeq(runnable) \union InFlight = TurnCalls(prep - 1)
    /\ Distinct(runnable) /\ InFlight \intersect InSeq(runnable) = {}
    /\ \A c \in executing : c[1] = turns => c \in InSeq(runnable)
    /\ ~wasReset => InSeq(runnable) \subseteq pendingToolCalls
    /\ ~wasReset /\ pc = "prepare" => cur \in pendingToolCalls

CallIInv == OfThisTurn /\ CallInv

\* The calls prepared so far, and the next one.
LEMMA NextCall ==
  ASSUME NEW n \in Nat, n >= 1, turns \in Nat
  PROVE  /\ TurnCalls(n) = TurnCalls(n - 1) \union {<<turns, n>>}
         /\ <<turns, n>> \notin TurnCalls(n - 1)
<1>1. 1 .. n = 1 .. (n - 1) \union {n}
  OBVIOUS
<1>2. \A i \in 1 .. (n - 1) : <<turns, i>> # <<turns, n>>
  OBVIOUS
<1> QED BY <1>1, <1>2 DEF TurnCalls

\* A result answers one call more.
LEMMA AppendAnswer ==
  ASSUME NEW r \in Seq(ToolResultMessage), NEW c
  PROVE  /\ Len(Append(r, ToolResult(c))) = Len(r) + 1
         /\ Answers(Append(r, ToolResult(c))) = Answers(r) \union {c}
<1>1. ToolResult(c).call = c
  BY DEF ToolResult
<1>2. /\ Len(Append(r, ToolResult(c))) = Len(r) + 1 /\ Len(r) \in Nat
      /\ \A i \in 1 .. Len(r) : Append(r, ToolResult(c))[i] = r[i]
      /\ Append(r, ToolResult(c))[Len(r) + 1] = ToolResult(c)
  BY AppendProperties, LenProperties
<1> QED BY <1>1, <1>2 DEF Answers

\* Every step keeps the accounts of the calls.
LEMMA CallStep == TypeOK /\ CallIInv /\ [Next]_vars => CallIInv'
<1> SUFFICES ASSUME TypeOK, CallIInv, [Next]_vars PROVE CallIInv'
  OBVIOUS
<1> USE DEF loopVars, queueVars, bookVars, CallIInv
<1>0. /\ turns \in Nat /\ prep \in Nat /\ calls \in Nat
      /\ runnable \in Seq(CallId) /\ cur \in CallId /\ results \in Seq(ToolResultMessage)
      /\ executing \subseteq CallId
  BY DEF TypeOK
\* A step that leaves the tools alone and stays outside their phase.
<1>a. ASSUME UNCHANGED <<executing, turns>>, pc' \notin ToolPhase, pc' = "response" => pc = "response"
      PROVE  CallIInv'
  BY <1>a DEF OfThisTurn, CallInv
\* A step of somebody else.
<1>b. ASSUME UNCHANGED <<executing, turns, pc, toolVars>>,
             UNCHANGED <<wasReset, pendingToolCalls>> \/ wasReset' \/ Idle
      PROVE  CallIInv'
  <2>1. InFlight' = InFlight /\ \A n : TurnCalls(n)' = TurnCalls(n)
    BY <1>b DEF InFlight, TurnCalls, toolVars
  <2>2. pc \in ToolPhase => ~Idle
    BY DEF Idle, ToolPhase
  <2> QED BY <1>b, <2>1, <2>2 DEF OfThisTurn, CallInv, toolVars
<1>1. ASSUME NEW b \in Batches, Prompt(b) PROVE CallIInv'
  BY <1>1, <1>a DEF Prompt, StartRun, toolVars, ToolPhase
<1>2. CASE Continue
  BY <1>2, <1>a DEF Continue, ContinueFromSteering, ContinueFromFollowUp, ContinueTranscript,
                    StartRun, toolVars, ToolPhase
<1>3. ASSUME NEW m \in Msgs, Steer(m) \/ FollowUp(m) PROVE CallIInv'
  BY <1>3, <1>b DEF Steer, FollowUp, toolVars
<1>4. ASSUME NEW s \in Modes, NEW f \in Modes, SetModes(s, f) PROVE CallIInv'
  BY <1>4, <1>b DEF SetModes, toolVars
<1>5. CASE ClearSteeringQueue \/ ClearFollowUpQueue \/ Abort
  BY <1>5, <1>b DEF ClearSteeringQueue, ClearFollowUpQueue, Abort, toolVars
<1>6. CASE Reset \/ DropErrorMessage
  BY <1>6, <1>b DEF Reset, DropErrorMessage, toolVars
<1>7. CASE EmitPrompt \/ InitialPoll \/ StartTurn \/ InjectMessage \/ PushInjected \/ Request
  BY <1>7, <1>a DEF EmitPrompt, InitialPoll, StartTurn, InjectMessage, PushInjected, Request,
                    toolVars, ToolPhase
<1>8. CASE ResponseStart \/ StopOnError \/ PollSteering \/ PollFollowUp
  BY <1>8, <1>a DEF ResponseStart, StopOnError, PollSteering, PollFollowUp, toolVars, ToolPhase
<1>9. CASE Throw \/ HandleRunFailure \/ FinishRun
  BY <1>9, <1>a DEF Throw, HandleRunFailure, FinishRun, toolVars, ToolPhase
<1>10. ASSUME NEW s \in {"stop", "error", "aborted"}, NEW n \in 0 .. MaxCalls, ResponseEnd(s, n)
       PROVE CallIInv'
  <2>1. pc' = "response" /\ executing' = executing /\ turns' = turns + 1
    BY <1>10 DEF ResponseEnd
  <2>2. \A c \in executing : c[1] \in Nat
    BY <1>0 DEF CallId
  <2> QED BY <1>0, <2>1, <2>2 DEF OfThisTurn, CallInv, ToolPhase
<1>11. CASE StartTools
  <2>1. /\ prep' = 1 /\ runnable' = <<>> /\ results' = <<>> /\ pc' \in {"tools", "turnEnd"}
        /\ executing' = executing /\ turns' = turns /\ pc = "response"
    BY <1>11 DEF StartTools
  <2>2. InFlight' = {} /\ Answers(results)' = {} /\ TurnCalls(0)' = {}
    BY <2>1, EmptySeq DEF InFlight, Answers, TurnCalls
  <2>3. \A c \in executing : c[1] < turns /\ c[1] \in Nat
    BY <1>0, <2>1 DEF OfThisTurn, CallId
  <2> QED BY <1>0, <2>1, <2>2, <2>3, NoElements DEF OfThisTurn, CallInv
<1>12. CASE ToolStart
  <2>1. /\ pc = "tools" /\ pc' = "prepare" /\ cur' = <<turns, prep>> /\ prep' = prep + 1
        /\ UNCHANGED <<runnable, results, executing, turns, wasReset>>
        /\ pendingToolCalls' = pendingToolCalls \union {cur'}
    BY <1>12 DEF ToolStart
  <2>2. pc \in ToolPhase /\ prep >= 1
    BY <2>1 DEF ToolPhase, CallInv
  <2>3. /\ TurnCalls(prep) = TurnCalls(prep - 1) \union {cur'}
        /\ cur' \notin TurnCalls(prep - 1) /\ TurnCalls(prep - 1)' = TurnCalls(prep)
    BY <1>0, <2>1, <2>2, NextCall DEF TurnCalls
  <2>4. InFlight = {} /\ InFlight' = {cur'}
    BY <2>1 DEF InFlight
  <2>5. /\ Answers(results)' = Answers(results) /\ InSeq(runnable)' = InSeq(runnable)
        /\ Distinct(runnable)' = Distinct(runnable)
    BY <2>1
  <2>6. OfThisTurn'
    BY <2>1 DEF OfThisTurn
  <2>7. Len(results) \in Nat /\ Len(runnable) \in Nat
    BY <1>0, LenProperties
  <2>8. /\ prep' >= 1 /\ prep' - 1 = prep
        /\ Len(results') + Len(runnable') + 1 = prep' - 1
    BY <1>0, <2>1, <2>2, <2>4, <2>7 DEF CallInv
  <2>9. Answers(results)' \union InSeq(runnable)' \union InFlight' = TurnCalls(prep - 1) \union {cur'}
    BY <2>2, <2>4, <2>5 DEF CallInv
  <2>10. InFlight' \intersect InSeq(runnable)' = {}
    BY <2>2, <2>3, <2>4, <2>5 DEF CallInv
  <2> QED BY <2>1, <2>2, <2>3, <2>4, <2>5, <2>6, <2>8, <2>9, <2>10 DEF CallInv
<1>13. CASE ToolImmediate
  <2>1. /\ pc = "prepare" /\ pc' = "outcome"
        /\ UNCHANGED <<runnable, results, executing, turns, wasReset, prep, cur>>
        /\ pendingToolCalls' = pendingToolCalls \ {cur}
    BY <1>13 DEF ToolImmediate, toolVars
  <2>2. pc \in ToolPhase /\ InFlight = {cur} /\ InFlight' = {cur}
    BY <2>1 DEF ToolPhase, InFlight
  <2>3. cur \notin InSeq(runnable) /\ \A n : TurnCalls(n)' = TurnCalls(n)
    BY <2>1, <2>2 DEF CallInv, TurnCalls
  <2> QED BY <2>1, <2>2, <2>3 DEF CallInv, OfThisTurn
<1>14. CASE ToolPrepared
  <2>1. /\ pc = "prepare" /\ pc' \in {"await", "tools"} /\ runnable' = Append(runnable, cur)
        /\ UNCHANGED <<results, turns, wasReset, prep, cur, pendingToolCalls>>
        /\ executing' \in {executing, executing \union {cur}}
    BY <1>14 DEF ToolPrepared
  <2>2. pc \in ToolPhase /\ InFlight = {cur} /\ InFlight' = {}
    BY <2>1 DEF ToolPhase, InFlight
  <2>3. /\ InSeq(runnable)' = InSeq(runnable) \union {cur}
        /\ Len(runnable)' = Len(runnable) + 1 /\ Distinct(runnable)'
    BY <1>0, <2>1, <2>2, AppendElements DEF CallInv
  <2>4. TurnCalls(prep - 1)' = TurnCalls(prep - 1)
    BY <2>1 DEF TurnCalls
  <2>5. Answers(results)' = Answers(results)
    BY <2>1
  <2>6. cur[1] = turns
    BY <2>2 DEF CallInv, TurnCalls
  <2>7. OfThisTurn'
    BY <1>0, <2>1, <2>6 DEF OfThisTurn
  <2>8. Len(results) \in Nat /\ Len(runnable) \in Nat
    BY <1>0, LenProperties
  <2>9. Len(results') + Len(runnable') = prep' - 1
    BY <2>1, <2>2, <2>3, <2>8 DEF CallInv
  <2> QED BY <2>1, <2>2, <2>3, <2>4, <2>5, <2>7, <2>9 DEF CallInv
<1>15. CASE LaunchTools
  <2>1. /\ pc = "tools" /\ pc' = "await" /\ executing' = executing \union InSeq(runnable)
        /\ UNCHANGED <<runnable, results, turns, wasReset, prep, cur, pendingToolCalls>>
    BY <1>15 DEF LaunchTools
  <2>2. pc \in ToolPhase /\ InFlight = {} /\ InFlight' = {} /\ InSeq(runnable)' = InSeq(runnable)
    BY <2>1 DEF ToolPhase, InFlight
  <2>3. /\ Answers(results)' = Answers(results) /\ Distinct(runnable)' = Distinct(runnable)
        /\ TurnCalls(prep - 1)' = TurnCalls(prep - 1)
    BY <2>1 DEF TurnCalls
  <2>4. \A c \in InSeq(runnable) : c[1] = turns
    BY <2>2 DEF CallInv, TurnCalls
  <2>5. OfThisTurn'
    BY <1>0, <2>1, <2>4 DEF OfThisTurn
  <2> QED BY <2>1, <2>2, <2>3, <2>5 DEF CallInv
<1>16. CASE FinalizeTool
  <2>1. /\ pc = "await" /\ pc' \in {"outcome", "finalized"} /\ runnable # <<>>
        /\ cur' = Head(runnable) /\ runnable' = Tail(runnable)
        /\ pendingToolCalls' = pendingToolCalls \ {cur'}
        /\ Head(runnable) \notin executing
        /\ UNCHANGED <<results, turns, wasReset, prep, executing>>
    BY <1>16 DEF FinalizeTool, WaitingForTool
  <2>2. pc \in ToolPhase /\ InFlight = {} /\ InFlight' = {cur'}
    BY <2>1 DEF ToolPhase, InFlight
  <2>3. /\ InSeq(runnable) = {cur'} \union InSeq(runnable)'
        /\ Len(runnable) = Len(runnable') + 1
        /\ cur' \notin InSeq(runnable)' /\ Distinct(runnable)'
    BY <1>0, <2>1, <2>2, HeadElements DEF CallInv
  <2>4. Answers(results)' = Answers(results) /\ TurnCalls(prep - 1)' = TurnCalls(prep - 1)
    BY <2>1 DEF TurnCalls
  <2>5. OfThisTurn'
    BY <2>1 DEF OfThisTurn
  <2>6. Len(results) \in Nat /\ Len(runnable') \in Nat
    BY <1>0, <2>1, LenProperties, HeadTail
  <2>7. Len(results') + Len(runnable') + 1 = prep' - 1
    BY <2>1, <2>2, <2>3, <2>6 DEF CallInv
  <2> QED BY <2>1, <2>2, <2>3, <2>4, <2>5, <2>7 DEF CallInv
<1>17. CASE ToolOutcome
  <2>1. /\ pc \in {"outcome", "finalized"} /\ pc' \in {"tools", "await"}
        /\ results' = Append(results, ToolResult(cur))
        /\ UNCHANGED <<runnable, turns, wasReset, prep, cur, executing, pendingToolCalls>>
    BY <1>17 DEF ToolOutcome
  <2>2. pc \in ToolPhase /\ InFlight = {cur} /\ InFlight' = {} /\ InSeq(runnable)' = InSeq(runnable)
    BY <2>1 DEF ToolPhase, InFlight
  <2>3. /\ Len(results') = Len(results) + 1 /\ Len(results) \in Nat /\ Len(runnable) \in Nat
        /\ Answers(results') = Answers(results) \union {cur}
    BY <1>0, <2>1, AppendAnswer, LenProperties
  <2>4. Distinct(runnable)' = Distinct(runnable) /\ TurnCalls(prep - 1)' = TurnCalls(prep - 1)
    BY <2>1 DEF TurnCalls
  <2>5. OfThisTurn'
    BY <2>1 DEF OfThisTurn
  <2>6. Len(results') + Len(runnable') = prep' - 1
    BY <1>0, <2>1, <2>2, <2>3 DEF CallInv
  <2> QED BY <2>1, <2>2, <2>3, <2>4, <2>5, <2>6 DEF CallInv
<1>18. CASE ToolsDone
  BY <1>18, <1>a DEF ToolsDone, toolVars, ToolPhase
<1>19. ASSUME NEW c \in executing, ToolSettles(c) PROVE CallIInv'
  <2>1. /\ executing' = executing \ {c}
        /\ UNCHANGED <<pc, runnable, results, turns, wasReset, prep, cur, pendingToolCalls>>
    BY <1>19 DEF ToolSettles
  <2>2. /\ InFlight' = InFlight /\ InSeq(runnable)' = InSeq(runnable)
        /\ Answers(results)' = Answers(results) /\ Distinct(runnable)' = Distinct(runnable)
        /\ TurnCalls(prep - 1)' = TurnCalls(prep - 1)
    BY <2>1 DEF InFlight, TurnCalls
  <2> QED BY <2>1, <2>2 DEF CallInv, OfThisTurn
<1>20. CASE UNCHANGED vars
  BY <1>20, <1>b DEF vars, toolVars
<1> QED
  BY <1>1, <1>2, <1>3, <1>4, <1>5, <1>6, <1>7, <1>8, <1>9, <1>10, <1>11, <1>12, <1>13, <1>14,
     <1>15, <1>16, <1>17, <1>18, <1>19, <1>20 DEF Next, Caller, Loop

\* While tools run, state.pendingToolCalls shows every one that is executing,
\* unless reset() fell into the run.
THEOREM PendingTheorem == Spec => []PendingCoversExecuting
<1>1. Init => CallIInv
  BY DEF Init, CallIInv, OfThisTurn, CallInv, ToolPhase
<1>2. CallIInv => PendingCoversExecuting
  BY DEF CallIInv, CallInv, PendingCoversExecuting
<1> QED BY <1>1, <1>2, TypeCorrect, CallStep, PTL DEF Spec

----------------------------------------------------------------------------
(* Conversations in which every call is answered *)

\* An assistant message whose tool calls have to be answered.
Asks(m) == m.role = "assistant" /\ m.stop = "stop"

\* The n messages after position k are its answers, or are cut off by a failure.
AnsweredBy(s, k, n) ==
  /\ \A j \in k + 1 .. k + n : s[j].role = "toolResult"
  /\ k + n < Len(s) => s[k + n + 1].role # "toolResult"
  /\ \/ n = s[k].calls /\ {s[j].call : j \in k + 1 .. k + n} = {<<s[k].id, i>> : i \in 1 .. n}
     \/ /\ k + n < Len(s)
        /\ s[k + n + 1].role = "assistant" /\ s[k + n + 1].stop = "failure"
Answered(s, k) == \E n \in 0 .. Len(s) - k : AnsweredBy(s, k, n)
Closed(s) == \A k \in 1 .. Len(s) : Asks(s[k]) => Answered(s, k)

\* s ends with the assistant message a and the results r that have followed it.
Open(s, a, r) ==
  \E k \in 1 .. Len(s) : LET m == SubSeq(s, 1, k - 1) IN Closed(m) /\ s = Append(m, a) \o r
IsResults(s) == \A i \in 1 .. Len(s) : s[i].role = "toolResult"

\* Whether n messages answer position k depends on these and the next one.
LEMMA SameAnswers ==
  ASSUME NEW s, NEW u, NEW k \in Nat, NEW n \in Nat, AnsweredBy(s, k, n),
         \A j \in k .. k + n : u[j] = s[j],
         k + n < Len(u) => u[k + n + 1].role # "toolResult",
         k + n < Len(s) /\ s[k + n + 1].role = "assistant" /\ s[k + n + 1].stop = "failure" =>
           k + n < Len(u) /\ u[k + n + 1] = s[k + n + 1]
  PROVE  AnsweredBy(u, k, n)
<1>1. u[k] = s[k] /\ \A j \in k + 1 .. k + n : u[j] = s[j]
  OBVIOUS
<1>2. {u[j].call : j \in k + 1 .. k + n} = {s[j].call : j \in k + 1 .. k + n}
  BY <1>1
<1>3. \A j \in k + 1 .. k + n : u[j].role = "toolResult"
  BY <1>1 DEF AnsweredBy
<1>4. \/ n = u[k].calls /\ {u[j].call : j \in k + 1 .. k + n} = {<<u[k].id, i>> : i \in 1 .. n}
      \/ /\ k + n < Len(u)
         /\ u[k + n + 1].role = "assistant" /\ u[k + n + 1].stop = "failure"
  BY <1>1, <1>2 DEF AnsweredBy
<1> QED BY <1>3, <1>4 DEF AnsweredBy

\* What is answered stays so when anything but a result follows.
LEMMA ClosedExtends ==
  ASSUME NEW s \in Seq(Message), NEW t \in Seq(Message), Closed(s),
         t # <<>> => t[1].role # "toolResult",
         NEW k \in 1 .. Len(s), Asks((s \o t)[k])
  PROVE  Answered(s \o t, k)
<1> DEFINE u == s \o t
<1>1. /\ Len(s) \in Nat /\ Len(t) \in Nat /\ Len(u) = Len(s) + Len(t)
      /\ \A i \in 1 .. Len(s) : u[i] = s[i]
      /\ t # <<>> => Len(t) >= 1 /\ u[Len(s) + 1] = t[1]
      /\ t = <<>> => Len(t) = 0
  BY ConcatProperties, LenProperties, EmptySeq
<1>2. PICK n \in 0 .. Len(s) - k : AnsweredBy(s, k, n)
  BY <1>1 DEF Closed, Answered
<1> HIDE DEF u
<1>3. n \in 0 .. Len(u) - k /\ n \in Nat /\ \A j \in k .. k + n : u[j] = s[j]
  BY <1>1
<1>4. k + n < Len(u) => u[k + n + 1].role # "toolResult"
  <2>1. CASE k + n < Len(s)
    BY <1>1, <1>2, <2>1 DEF AnsweredBy
  <2>2. CASE k + n = Len(s)
    <3>1. k + n < Len(u) => t # <<>>
      BY <1>1, <2>2
    <3> QED BY <1>1, <2>2, <3>1
  <2> QED BY <1>1, <2>1, <2>2
<1>5. k + n < Len(s) => k + n < Len(u) /\ u[k + n + 1] = s[k + n + 1]
  BY <1>1
<1>6. AnsweredBy(u, k, n)
  BY <1>2, <1>3, <1>4, <1>5, SameAnswers
<1> QED BY <1>3, <1>6 DEF Answered, u

\* A message that asks nothing joins a closed conversation.
LEMMA ClosedAppend ==
  ASSUME NEW s \in Seq(Message), NEW e \in Message, Closed(s),
         e.role # "toolResult", ~Asks(e)
  PROVE  Closed(Append(s, e))
<1>1. Append(s, e) = s \o <<e>> /\ <<e>> \in Seq(Message) /\ <<e>>[1] = e
  BY AppendIsConcat
<1>2. Len(s \o <<e>>) = Len(s) + 1 /\ (s \o <<e>>)[Len(s) + 1] = e /\ Len(s) \in Nat
  BY <1>1, ConcatProperties, LenProperties
<1>3. ASSUME NEW k \in 1 .. Len(s \o <<e>>), Asks((s \o <<e>>)[k]) PROVE Answered(s \o <<e>>, k)
  <2>1. k \in 1 .. Len(s)
    BY <1>2, <1>3
  <2> QED BY <1>1, <1>3, <2>1, ClosedExtends
<1> QED BY <1>1, <1>3 DEF Closed

\* So do the messages of a user.
LEMMA ClosedUsers ==
  ASSUME NEW s \in Seq(Message), NEW q \in Seq(UserMessage), Closed(s)
  PROVE  Closed(s \o q)
<1>1. q \in Seq(Message) /\ \A i \in 1 .. Len(q) : q[i].role = "user"
  <2>1. \A i \in 1 .. Len(q) : q[i] \in UserMessage
    BY ElementOfSeq
  <2> QED BY <2>1, Widening DEF UserMessage
<1>2. /\ Len(s) \in Nat /\ Len(q) \in Nat /\ Len(s \o q) = Len(s) + Len(q)
      /\ \A i \in Len(s) + 1 .. Len(s) + Len(q) : (s \o q)[i] = q[i - Len(s)]
      /\ q # <<>> => Len(q) >= 1
  BY <1>1, ConcatProperties, LenProperties, EmptySeq
<1>3. \A k \in Len(s) + 1 .. Len(s) + Len(q) : ~Asks((s \o q)[k])
  BY <1>1, <1>2 DEF Asks
<1>4. q # <<>> => q[1].role # "toolResult"
  BY <1>1, <1>2
<1>5. ASSUME NEW k \in 1 .. Len(s \o q), Asks((s \o q)[k]) PROVE Answered(s \o q, k)
  <2>1. k \in 1 .. Len(s)
    BY <1>2, <1>3, <1>5
  <2> QED BY <1>1, <1>4, <1>5, <2>1, ClosedExtends
<1> QED BY <1>1, <1>5 DEF Closed

\* Nothing is asked in an empty conversation.
LEMMA ClosedNone == Closed(<<>>) /\ IsResults(<<>>)
  BY EmptySeq DEF Closed, IsResults

\* nor in one of results only.
LEMMA ResultsClosed == ASSUME NEW s \in Seq(Message), IsResults(s) PROVE Closed(s)
  BY DEF IsResults, Closed, Asks

\* The positions of a conversation that ends with a, its results r and t.
LEMMA Layout ==
  ASSUME NEW m \in Seq(Message), NEW a \in Message, NEW r \in Seq(ToolResultMessage),
         NEW t \in Seq(Message), NEW s, s = (Append(m, a) \o r) \o t
  PROVE  /\ Len(s) = Len(m) + 1 + Len(r) + Len(t)
         /\ Len(m) \in Nat /\ Len(r) \in Nat /\ Len(t) \in Nat
         /\ \A i \in 1 .. Len(m) : s[i] = m[i]
         /\ s[Len(m) + 1] = a
         /\ \A i \in 1 .. Len(r) : s[Len(m) + 1 + i] = r[i]
         /\ \A i \in 1 .. Len(t) : s[Len(m) + 1 + Len(r) + i] = t[i]
<1>1. /\ r \in Seq(Message) /\ Append(m, a) \in Seq(Message)
      /\ Append(m, a) \o r \in Seq(Message)
  BY Widening, AppendIn, ConcatIn
<1>2. /\ Len(m) \in Nat /\ Len(r) \in Nat /\ Len(t) \in Nat
      /\ Len(Append(m, a)) = Len(m) + 1
      /\ \A i \in 1 .. Len(m) : Append(m, a)[i] = m[i]
      /\ Append(m, a)[Len(m) + 1] = a
  BY LenProperties, AppendProperties
<1>3. /\ Len(Append(m, a) \o r) = Len(m) + 1 + Len(r)
      /\ \A i \in 1 .. Len(m) + 1 : (Append(m, a) \o r)[i] = Append(m, a)[i]
      /\ \A i \in 1 .. Len(r) : (Append(m, a) \o r)[Len(m) + 1 + i] = r[i]
  BY <1>1, <1>2
<1>4. /\ Len(s) = Len(m) + 1 + Len(r) + Len(t)
      /\ \A i \in 1 .. Len(m) + 1 + Len(r) : s[i] = (Append(m, a) \o r)[i]
      /\ \A i \in 1 .. Len(t) : s[Len(m) + 1 + Len(r) + i] = t[i]
  BY <1>1, <1>2, <1>3
<1>5. \A i \in 1 .. Len(m) : s[i] = m[i]
  BY <1>2, <1>3, <1>4
<1>6. s[Len(m) + 1] = a
  BY <1>2, <1>3, <1>4
<1>7. \A i \in 1 .. Len(r) : s[Len(m) + 1 + i] = r[i]
  BY <1>2, <1>3, <1>4
<1> QED BY <1>2, <1>4, <1>5, <1>6, <1>7

\* What was answered before the last assistant message still is.
LEMMA EarlierAnswered ==
  ASSUME NEW m \in Seq(Message), NEW a \in Message, NEW r \in Seq(ToolResultMessage),
         NEW t \in Seq(Message), NEW s, s = (Append(m, a) \o r) \o t,
         Closed(m), a.role = "assistant", NEW k \in 1 .. Len(m), Asks(s[k])
  PROVE  Answered(s, k)
<1>1. /\ r \in Seq(Message) /\ <<a>> \in Seq(Message) /\ Append(m, a) = m \o <<a>>
  BY Widening, AppendIsConcat
<1>2. /\ r \o t \in Seq(Message) /\ <<a>> \o (r \o t) \in Seq(Message)
      /\ s = m \o (<<a>> \o (r \o t))
  <2>1. <<a>> \o r \in Seq(Message) /\ r \o t \in Seq(Message) /\ <<a>> \o (r \o t) \in Seq(Message)
    BY <1>1, ConcatIn
  <2>2. (m \o <<a>>) \o r = m \o (<<a>> \o r)
    BY <1>1, ConcatAssociative
  <2>3. (m \o (<<a>> \o r)) \o t = m \o ((<<a>> \o r) \o t)
    <3>1. ASSUME NEW v \in Seq(Message) PROVE (m \o v) \o t = m \o (v \o t)
      BY ONLY m \in Seq(Message), t \in Seq(Message), v \in Seq(Message), ConcatAssociative
    <3> QED BY <2>1, <3>1
  <2>4. (<<a>> \o r) \o t = <<a>> \o (r \o t)
    BY <1>1, ConcatAssociative
  <2> QED BY <1>1, <2>1, <2>2, <2>3, <2>4
<1>3. (<<a>> \o (r \o t))[1] = a
  BY <1>1, <1>2
<1> QED BY <1>2, <1>3, ClosedExtends

\* The results of the last assistant message.
LEMMA LastResults ==
  ASSUME NEW k \in Nat, NEW r \in Seq(ToolResultMessage),
         NEW s, \A i \in 1 .. Len(r) : s[k + i] = r[i]
  PROVE  /\ \A j \in k + 1 .. k + Len(r) : s[j].role = "toolResult"
         /\ {s[j].call : j \in k + 1 .. k + Len(r)} = Answers(r)
<1>1. Len(r) \in Nat
  BY LenProperties
<1>2. ASSUME NEW j \in k + 1 .. k + Len(r)
      PROVE  j - k \in 1 .. Len(r) /\ s[j] = r[j - k]
  <2>1. j - k \in 1 .. Len(r) /\ k + (j - k) = j
    BY <1>1
  <2> QED BY <2>1
<1>3. \A j \in k + 1 .. k + Len(r) : s[j].role = "toolResult"
  <2> SUFFICES ASSUME NEW j \in k + 1 .. k + Len(r) PROVE s[j].role = "toolResult"
    OBVIOUS
  <2>1. r[j - k] \in ToolResultMessage /\ s[j] = r[j - k]
    BY <1>2, ElementOfSeq
  <2> QED BY <2>1 DEF ToolResultMessage
<1>4. \A i \in 1 .. Len(r) : k + i \in k + 1 .. k + Len(r)
  BY <1>1
<1>5. {s[j].call : j \in k + 1 .. k + Len(r)} \subseteq Answers(r)
  BY <1>2 DEF Answers
<1>6. Answers(r) \subseteq {s[j].call : j \in k + 1 .. k + Len(r)}
  BY <1>4 DEF Answers
<1> QED BY <1>3, <1>5, <1>6

\* Once its results are in, an assistant message is answered.
LEMMA ClosedByResults ==
  ASSUME NEW m \in Seq(Message), NEW a \in Message, NEW r \in Seq(ToolResultMessage),
         Closed(m), a.role = "assistant", Len(r) = a.calls,
         Answers(r) = {<<a.id, i>> : i \in 1 .. a.calls}
  PROVE  Closed(Append(m, a) \o r)
<1>1. PICK t \in Seq(Message) : t = <<>>
  BY NoneIn
<1>2. PICK s : s = (Append(m, a) \o r) \o t
  OBVIOUS
<1>3. s = Append(m, a) \o r
  BY <1>1, <1>2, Widening, AppendIn, ConcatIn, NoneAfter
<1>4. /\ Len(s) = Len(m) + 1 + Len(r) + Len(t) /\ Len(m) \in Nat /\ Len(r) \in Nat
      /\ s[Len(m) + 1] = a
      /\ \A i \in 1 .. Len(r) : s[Len(m) + 1 + i] = r[i]
  BY ONLY <1>2, Layout
<1>5. Len(s) = Len(m) + 1 + Len(r)
  BY <1>1, <1>4, EmptySeq
<1>6. /\ \A j \in Len(m) + 1 + 1 .. Len(m) + 1 + Len(r) : s[j].role = "toolResult"
      /\ {s[j].call : j \in Len(m) + 1 + 1 .. Len(m) + 1 + Len(r)} = Answers(r)
  <2>1. Len(m) + 1 \in Nat
    BY <1>4
  <2> QED BY <1>4, <2>1, LastResults
<1>7. ASSUME NEW k \in 1 .. Len(m), Asks(s[k]) PROVE Answered(s, k)
  BY <1>2, <1>7, EarlierAnswered
<1>8. Answered(s, Len(m) + 1)
  <2>1. Len(r) \in 0 .. Len(s) - (Len(m) + 1)
    BY <1>4, <1>5
  <2>2. AnsweredBy(s, Len(m) + 1, Len(r))
    BY <1>4, <1>6, <1>5, <2>1 DEF AnsweredBy
  <2> QED BY <2>1, <2>2 DEF Answered
<1>9. \A k \in Len(m) + 2 .. Len(s) : ~Asks(s[k])
  BY <1>4, <1>6, <1>5 DEF Asks
<1>10. Closed(s)
  <2>1. \A k \in 1 .. Len(s) : k \in 1 .. Len(m) \/ k = Len(m) + 1 \/ k \in Len(m) + 2 .. Len(s)
    BY <1>4, <1>5
  <2> QED BY <1>7, <1>8, <1>9, <2>1 DEF Closed
<1> QED BY <1>3, <1>10

\* A failure message excuses the assistant message before it.
LEMMA ClosedByFailure ==
  ASSUME NEW m \in Seq(Message), NEW a \in Message, NEW r \in Seq(ToolResultMessage),
         NEW f \in Message, Closed(m), a.role = "assistant", f.role = "assistant", f.stop = "failure"
  PROVE  Closed(Append(Append(m, a) \o r, f))
<1>1. PICK s : s = (Append(m, a) \o r) \o <<f>>
  OBVIOUS
<1>2. s = Append(Append(m, a) \o r, f) /\ <<f>> \in Seq(Message) /\ Len(<<f>>) = 1 /\ <<f>>[1] = f
  BY <1>1, Widening, AppendIn, ConcatIn, AppendIsConcat
<1>3. /\ Len(s) = Len(m) + 1 + Len(r) + 1 /\ Len(m) \in Nat /\ Len(r) \in Nat
      /\ s[Len(m) + 1] = a /\ s[Len(m) + 1 + Len(r) + 1] = f
  <2>1. /\ Len(s) = Len(m) + 1 + Len(r) + Len(<<f>>) /\ Len(m) \in Nat /\ Len(r) \in Nat
        /\ s[Len(m) + 1] = a
        /\ \A i \in 1 .. Len(<<f>>) : s[Len(m) + 1 + Len(r) + i] = <<f>>[i]
    BY <1>1, <1>2, Layout
  <2> QED BY <1>2, <2>1
<1>4. \A j \in Len(m) + 1 + 1 .. Len(m) + 1 + Len(r) : s[j].role = "toolResult"
  <2>1. Len(m) + 1 \in Nat /\ \A i \in 1 .. Len(r) : s[Len(m) + 1 + i] = r[i]
    BY <1>1, <1>2, Layout
  <2> QED BY <2>1, LastResults
<1>5. ASSUME NEW k \in 1 .. Len(m), Asks(s[k]) PROVE Answered(s, k)
  BY <1>1, <1>2, <1>5, EarlierAnswered
<1>6. Answered(s, Len(m) + 1)
  <2>1. Len(r) \in 0 .. Len(s) - (Len(m) + 1) /\ Len(m) + 1 + 1 = Len(m) + 2
    BY <1>3
  <2>2. AnsweredBy(s, Len(m) + 1, Len(r))
    BY <1>3, <1>4, <2>1 DEF AnsweredBy
  <2> QED BY <2>1, <2>2 DEF Answered
<1>7. \A k \in Len(m) + 2 .. Len(s) : ~Asks(s[k])
  <2>1. \A k \in Len(m) + 2 .. Len(s) : k \in Len(m) + 2 .. Len(m) + 1 + Len(r) \/ s[k] = f
    BY <1>3
  <2> QED BY <1>4, <2>1 DEF Asks
<1>8. Closed(s)
  BY <1>3, <1>5, <1>6, <1>7 DEF Closed
<1> QED BY <1>2, <1>8

\* Dropping a last message that is neither a result nor a failure.
LEMMA ClosedDrops ==
  ASSUME NEW m \in Seq(Message), NEW e \in Message, Closed(Append(m, e)),
         e.role # "toolResult", ~(e.role = "assistant" /\ e.stop = "failure")
  PROVE  Closed(m)
<1> DEFINE s == Append(m, e)
<1>1. /\ Len(s) = Len(m) + 1 /\ Len(m) \in Nat
      /\ \A i \in 1 .. Len(m) : s[i] = m[i]
      /\ s[Len(m) + 1] = e
  BY AppendProperties, LenProperties
<1>c. Closed(s)
  OBVIOUS
<1> HIDE DEF s
<1> SUFFICES ASSUME NEW k \in 1 .. Len(m), Asks(m[k]) PROVE Answered(m, k)
  BY DEF Closed
<1>2. PICK n \in 0 .. Len(s) - k : AnsweredBy(s, k, n)
  BY <1>1, <1>c DEF Closed, Answered
<1>3. n \in 0 .. Len(m) - k
  <2>1. n # Len(m) + 1 - k
    BY <1>1, <1>2 DEF AnsweredBy
  <2> QED BY <1>1, <2>1
<1>4. n \in Nat /\ \A j \in k .. k + n : m[j] = s[j]
  BY <1>1, <1>3
<1>5. k + n < Len(m) => m[k + n + 1] = s[k + n + 1] /\ m[k + n + 1].role # "toolResult"
  <2> SUFFICES ASSUME k + n < Len(m) PROVE m[k + n + 1] = s[k + n + 1] /\ s[k + n + 1].role # "toolResult"
    OBVIOUS
  <2> QED BY <1>1, <1>2 DEF AnsweredBy
<1>6. k + n < Len(s) /\ s[k + n + 1].role = "assistant" /\ s[k + n + 1].stop = "failure" => k + n < Len(m)
  <2>1. k + n # Len(m) \/ s[k + n + 1] = e
    BY <1>1
  <2> QED BY <1>1, <1>3, <2>1
<1>7. AnsweredBy(m, k, n)
  BY <1>2, <1>4, <1>5, <1>6, SameAnswers
<1> QED BY <1>3, <1>7 DEF Answered

\* What comes before the open message is closed.
LEMMA OpenParts ==
  ASSUME NEW s \in Seq(Message), NEW a, NEW r, Open(s, a, r)
  PROVE  \E m \in Seq(Message) : Closed(m) /\ s = Append(m, a) \o r
<1>1. PICK k \in 1 .. Len(s) : Closed(SubSeq(s, 1, k - 1)) /\ s = Append(SubSeq(s, 1, k - 1), a) \o r
  BY DEF Open
<1>2. Len(s) \in Nat /\ \A i \in 1 .. k - 1 : s[i] \in Message
  BY ElementOfSeq, LenProperties
<1>3. SubSeq(s, 1, k - 1) \in Seq(Message)
  BY <1>2, SubSeqProperties
<1> QED BY <1>1, <1>3

\* A closed conversation is opened by a message.
LEMMA OpenFrom ==
  ASSUME NEW m \in Seq(Message), NEW a \in Message, NEW r \in Seq(Message), Closed(m)
  PROVE  Open(Append(m, a) \o r, a, r)
<1> DEFINE s == Append(m, a) \o r
<1>1. /\ <<a>> \in Seq(Message) /\ Append(m, a) = m \o <<a>> /\ Append(m, a) \in Seq(Message)
      /\ <<a>> \o r \in Seq(Message)
  BY AppendIsConcat, AppendIn, ConcatIn
<1>2. s = m \o (<<a>> \o r)
  BY <1>1, ConcatAssociative
<1>3. SubSeq(s, 1, Len(m)) = m
  <2>1. SubSeq(m \o (<<a>> \o r), 1, Len(m)) = SubSeq(m, 1, Len(m))
    BY <1>1, SubSeqOfConcat1, LenProperties
  <2> QED BY <1>2, <2>1, SubSeqFull
<1>4. Len(m) + 1 \in 1 .. Len(s) /\ (Len(m) + 1) - 1 = Len(m)
  <2>1. Len(s) = Len(m) + 1 + Len(r) /\ Len(m) \in Nat /\ Len(r) \in Nat
    BY <1>1, LenProperties, AppendProperties, ConcatProperties
  <2> QED BY <2>1
<1> HIDE DEF s
<1>5. Open(s, a, r)
  <2>1. Closed(SubSeq(s, 1, (Len(m) + 1) - 1)) /\ s = Append(SubSeq(s, 1, (Len(m) + 1) - 1), a) \o r
    BY <1>3, <1>4 DEF s
  <2> QED BY <1>4, <2>1 DEF Open
<1> QED BY <1>5 DEF s

\* The last message and the others.
LEMMA LastOfAppend ==
  \A S : \A q \in Seq(S), e \in S : LastMessage(Append(q, e)) = e /\ Append(q, e) # <<>>
  BY AppendProperties, LenProperties, EmptySeq DEF LastMessage

\* A conversation is its last message after the others.
LEMMA FrontAndLast ==
  ASSUME NEW s \in Seq(Message), s # <<>>
  PROVE  /\ Front(s) \in Seq(Message) /\ LastMessage(s) \in Message
         /\ s = Append(Front(s), LastMessage(s))
<1>1. Len(s) \in Nat /\ Len(s) >= 1 /\ \A i \in 1 .. Len(s) : s[i] \in Message
  BY LenProperties, EmptySeq, ElementOfSeq
<1>2. /\ Front(s) \in Seq(Message) /\ LastMessage(s) \in Message
      /\ Len(Front(s)) = Len(s) - 1 /\ \A i \in 1 .. Len(s) - 1 : Front(s)[i] = s[i]
  BY <1>1, SubSeqProperties DEF Front, LastMessage
<1>3. /\ Append(Front(s), LastMessage(s)) \in Seq(Message)
      /\ Len(Append(Front(s), LastMessage(s))) = Len(s)
      /\ \A i \in 1 .. Len(s) : Append(Front(s), LastMessage(s))[i] = s[i]
  BY <1>1, <1>2, AppendProperties DEF LastMessage
<1> QED BY <1>2, <1>3, SeqEqual

\* The transcript ends with the assistant message or a result of it.
LEMMA OpenLast ==
  ASSUME NEW s \in Seq(Message), NEW a \in Message, NEW r \in Seq(ToolResultMessage),
         Open(s, a, r)
  PROVE  s # <<>> /\ (LastMessage(s) = a \/ LastMessage(s).role = "toolResult")
<1>1. PICK m \in Seq(Message) : s = Append(m, a) \o r
  BY OpenParts
<1>2. Append(m, a) \in Seq(Message) /\ Len(m) \in Nat /\ Len(Append(m, a)) = Len(m) + 1
      /\ Append(m, a)[Len(m) + 1] = a
  BY AppendIn, AppendProperties, LenProperties
<1>3. /\ r \in Seq(Message) /\ Len(r) \in Nat /\ Len(s) = Len(m) + 1 + Len(r)
      /\ s[Len(m) + 1] = a
      /\ \A i \in 1 .. Len(r) : s[Len(m) + 1 + i] = r[i]
  BY <1>1, <1>2, Widening, ConcatProperties, LenProperties
<1>4. s # <<>>
  BY <1>3, EmptySeq
<1>5. CASE Len(r) = 0
  BY <1>3, <1>4, <1>5 DEF LastMessage
<1>6. CASE Len(r) > 0
  <2>1. r[Len(r)] \in ToolResultMessage /\ Len(r) \in 1 .. Len(r)
    BY <1>3, <1>6, ElementOfSeq
  <2> QED BY <1>3, <1>4, <2>1 DEF LastMessage, ToolResultMessage
<1> QED BY <1>3, <1>4, <1>5, <1>6

\* A further result.
LEMMA OpenGrows ==
  ASSUME NEW s \in Seq(Message), NEW a \in Message, NEW r \in Seq(ToolResultMessage),
         NEW e \in ToolResultMessage, Open(s, a, r)
  PROVE  Open(Append(s, e), a, Append(r, e))
<1>1. PICK m \in Seq(Message) : Closed(m) /\ s = Append(m, a) \o r
  BY OpenParts
<1>2. /\ r \in Seq(Message) /\ e \in Message /\ <<e>> \in Seq(Message)
      /\ Append(m, a) \in Seq(Message) /\ Append(r, e) \in Seq(Message)
      /\ Append(s, e) = s \o <<e>> /\ Append(r, e) = r \o <<e>>
  BY Widening, AppendIn, AppendIsConcat
<1>3. Append(s, e) = Append(m, a) \o Append(r, e)
  <2>1. (Append(m, a) \o r) \o <<e>> = Append(m, a) \o (r \o <<e>>)
    BY <1>2, ConcatAssociative
  <2> QED BY <1>1, <1>2, <2>1
<1> QED BY <1>1, <1>2, <1>3, OpenFrom

\* A further result, of a message that reset() took away.
LEMMA ResultsGrow ==
  ASSUME NEW s \in Seq(Message), NEW e \in ToolResultMessage, IsResults(s)
  PROVE  IsResults(Append(s, e))
<1>1. e.role = "toolResult" /\ e \in Message
  BY Widening DEF ToolResultMessage
<1>2. /\ Len(Append(s, e)) = Len(s) + 1 /\ Len(s) \in Nat
      /\ \A i \in 1 .. Len(s) : Append(s, e)[i] = s[i]
      /\ Append(s, e)[Len(s) + 1] = e
  BY <1>1, AppendProperties, LenProperties
<1> QED BY <1>1, <1>2 DEF IsResults

\* With its results the open message is answered.
LEMMA OpenCloses ==
  ASSUME NEW s \in Seq(Message), NEW a \in Message, NEW r \in Seq(ToolResultMessage),
         Open(s, a, r), a.role = "assistant", Len(r) = a.calls,
         Answers(r) = {<<a.id, i>> : i \in 1 .. a.calls}
  PROVE  Closed(s)
<1>1. PICK m \in Seq(Message) : Closed(m) /\ s = Append(m, a) \o r
  BY OpenParts
<1> QED BY <1>1, ClosedByResults

\* or excused by the failure that follows.
LEMMA OpenFails ==
  ASSUME NEW s \in Seq(Message), NEW a \in Message, NEW r \in Seq(ToolResultMessage),
         NEW f \in Message, Open(s, a, r), a.role = "assistant",
         f.role = "assistant", f.stop = "failure"
  PROVE  Closed(Append(s, f))
<1>1. PICK m \in Seq(Message) : Closed(m) /\ s = Append(m, a) \o r
  BY OpenParts
<1> QED BY <1>1, ClosedByFailure

----------------------------------------------------------------------------
(* Every call is answered *)

Question == Assistant(turns, "stop", calls)

\* The transcript: open from an assistant message with stop reason "stop" to the
\* last of its results, closed otherwise; after reset() only results arrive.
TranscriptInv ==
  /\ pc \notin ToolPhase \union {"response", "failing"} => Closed(messages)
  /\ pc = "response" =>
       IF LastMessage(context).stop = "stop"
       THEN Open(messages, Question, <<>>) \/ messages = <<>>
       ELSE Closed(messages)
  /\ pc \in ToolPhase => Open(messages, Question, results) \/ IsResults(messages)
  /\ pc = "failing" =>
       Closed(messages) \/ Open(messages, Question, <<>>) \/ Open(messages, Question, results)

\* The loop's context.
LoopContextInv ==
  /\ pc \in {"prompts", "turn", "inject", "injected", "request", "turnEnd"} => Closed(context)
  /\ pc = "streaming" => context # <<>> /\ Closed(Front(context))
  /\ pc = "response" =>
       \E s \in {"stop", "error", "aborted"} : Open(context, Assistant(turns, s, calls), <<>>)
  /\ pc \in ToolPhase => Open(context, Question, <<>>)

AnswerInv == TranscriptInv /\ LoopContextInv

ClosedLocations ==
  {"prompts", "turn", "inject", "injected", "request", "turnEnd", "agentEnd", "idle", "failed"}

\* A step to an await at which nothing is open.
LEMMA ToClosed ==
  ASSUME pc' \in ClosedLocations, Closed(messages'),
         pc' \notin {"agentEnd", "idle", "failed"} => Closed(context')
  PROVE  AnswerInv'
  BY DEF ClosedLocations, AnswerInv, TranscriptInv, LoopContextInv, ToolPhase

\* A run starts from a closed transcript.
LEMMA StartRunAnswers ==
  ASSUME TypeOK, AnswerInv, Idle, NEW ms \in Seq(UserMessage), NEW sk, StartRun(ms, sk)
  PROVE  AnswerInv'
<1>1. Closed(messages) /\ messages \in Seq(Message)
  BY DEF AnswerInv, TranscriptInv, Idle, ToolPhase, TypeOK
<1>2. pc' = "prompts" /\ context' = messages \o ms /\ messages' = messages
  BY DEF StartRun
<1> QED BY <1>1, <1>2, ClosedUsers, ToClosed DEF ClosedLocations

\* Questions are assistant messages with their calls.
LEMMA QuestionType ==
  ASSUME TypeOK, NEW st \in Stops
  PROVE  /\ Assistant(turns, st, calls) \in Message
         /\ Assistant(turns, st, calls).role = "assistant"
         /\ Assistant(turns, st, calls).stop = st
         /\ Assistant(turns, st, calls).calls = calls
         /\ Assistant(turns, st, calls).id = turns
  BY AssistantType DEF TypeOK, Assistant

\* Dropping the trailing error message leaves a closed transcript, and cannot
\* happen while results are owed.
LEMMA DropAnswers == ASSUME TypeOK, AnswerInv, DropErrorMessage PROVE AnswerInv'
<1>1. /\ messages \in Seq(Message) /\ messages # <<>> /\ messages' = Front(messages)
      /\ LastMessage(messages).role = "assistant" /\ LastMessage(messages).stop = "error"
      /\ UNCHANGED <<pc, context, turns, calls, results>>
  BY DEF DropErrorMessage, TypeOK, loopVars, toolVars
<1>2. /\ Question \in Message /\ Question.stop = "stop" /\ Question.role = "assistant"
      /\ results \in Seq(ToolResultMessage) /\ <<>> \in Seq(ToolResultMessage)
  BY QuestionType, NoneIn DEF Question, TypeOK, Stops
<1>3. ~Open(messages, Question, <<>>) /\ ~Open(messages, Question, results)
  BY <1>1, <1>2, OpenLast
<1>4. ~IsResults(messages)
  <2>1. Len(messages) \in 1 .. Len(messages)
    BY <1>1, LenProperties, EmptySeq
  <2> QED BY <1>1, <2>1 DEF IsResults, LastMessage
<1>5. Closed(messages)
  BY <1>1, <1>3, <1>4, ResultsClosed DEF AnswerInv, TranscriptInv
<1>6. Closed(messages')
  <2>1. /\ Front(messages) \in Seq(Message) /\ LastMessage(messages) \in Message
        /\ messages = Append(Front(messages), LastMessage(messages))
    BY <1>1, FrontAndLast
  <2> QED BY <1>1, <1>5, <2>1, ClosedDrops
<1>7. pc \notin ToolPhase /\ (pc = "response" => LastMessage(context).stop # "stop")
  BY <1>1, <1>3, <1>4 DEF AnswerInv, TranscriptInv
<1> QED BY <1>1, <1>6, <1>7 DEF AnswerInv, TranscriptInv, LoopContextInv, Question

\* Every step keeps both copies closed, or open at the last assistant message.
LEMMA AnswerStep == TypeOK /\ CallIInv /\ AnswerInv /\ [Next]_vars => AnswerInv'
<1> SUFFICES ASSUME TypeOK, CallIInv, AnswerInv, [Next]_vars PROVE AnswerInv'
  OBVIOUS
<1> USE DEF loopVars, queueVars, bookVars, AnswerInv
<1>0. /\ messages \in Seq(Message) /\ context \in Seq(Message)
      /\ results \in Seq(ToolResultMessage) /\ turns \in Nat /\ calls \in Nat
      /\ prompts \in Seq(UserMessage) /\ pending \in Seq(UserMessage)
  BY DEF TypeOK
<1>a. ASSUME UNCHANGED <<messages, pc, context, turns, calls, results>> PROVE AnswerInv'
  BY <1>a DEF TranscriptInv, LoopContextInv, Question
\* Users and closed messages that join a closed conversation.
<1>b. \A s \in Seq(Message), q \in Seq(UserMessage) :
        Closed(s) /\ q # <<>> => Closed(Append(s, Head(q)))
  <2> SUFFICES ASSUME NEW s \in Seq(Message), NEW q \in Seq(UserMessage), Closed(s), q # <<>>
               PROVE  Closed(Append(s, Head(q)))
    OBVIOUS
  <2>1. Head(q) \in UserMessage
    BY HeadTail
  <2>2. Head(q) \in Message /\ Head(q).role = "user"
    BY <2>1, Widening DEF UserMessage
  <2> QED BY <2>2, ClosedAppend DEF Asks
<1>1. ASSUME NEW b \in Batches, Prompt(b) PROVE AnswerInv'
  BY <1>1, BatchType, StartRunAnswers DEF Prompt
<1>2. CASE Continue
  BY <1>2, <1>0, Drains, NoneIn, StartRunAnswers
     DEF Continue, ContinueFromSteering, ContinueFromFollowUp, ContinueTranscript, TypeOK
<1>3. ASSUME NEW m \in Msgs, Steer(m) \/ FollowUp(m) PROVE AnswerInv'
  BY <1>3, <1>a DEF Steer, FollowUp, toolVars
<1>4. ASSUME NEW s \in Modes, NEW f \in Modes, SetModes(s, f) PROVE AnswerInv'
  BY <1>4, <1>a DEF SetModes, toolVars
<1>5. CASE ClearSteeringQueue \/ ClearFollowUpQueue \/ Abort
  BY <1>5, <1>a DEF ClearSteeringQueue, ClearFollowUpQueue, Abort, toolVars
<1>6. CASE Reset
  <2>1. messages' = <<>> /\ UNCHANGED <<pc, context, turns, calls, results>>
    BY <1>6 DEF Reset, toolVars
  <2> QED BY <2>1, ClosedNone DEF TranscriptInv, LoopContextInv, Question
<1>7. CASE DropErrorMessage
  BY <1>7, DropAnswers
<1>8. CASE EmitPrompt
  <2>1. Closed(messages) /\ Closed(context)
    BY <1>8 DEF EmitPrompt, TranscriptInv, LoopContextInv, ToolPhase
  <2> QED BY <1>0, <1>8, <1>b, <2>1, ToClosed DEF EmitPrompt, ClosedLocations
<1>9. CASE InitialPoll \/ StartTurn \/ Request \/ PollSteering \/ PollFollowUp
  <2>1. /\ pc \in {"prompts", "turn", "inject", "turnEnd"}
        /\ pc' \in {"turn", "inject", "request", "agentEnd"}
        /\ messages' = messages /\ context' = context
    BY <1>9 DEF InitialPoll, StartTurn, Request, PollSteering, PollFollowUp
  <2> QED BY <2>1, ToClosed DEF TranscriptInv, LoopContextInv, ToolPhase, ClosedLocations
<1>10. CASE InjectMessage
  <2>1. Closed(messages) /\ Closed(context)
    BY <1>10 DEF InjectMessage, TranscriptInv, LoopContextInv, ToolPhase
  <2> QED BY <1>0, <1>10, <1>b, <2>1, ToClosed DEF InjectMessage, ClosedLocations
<1>11. CASE PushInjected
  <2>1. Closed(messages) /\ Closed(context) /\ pending # <<>>
    BY <1>11 DEF PushInjected, TranscriptInv, LoopContextInv, ToolPhase, TypeOK
  <2> QED BY <1>0, <1>11, <1>b, <2>1, ToClosed DEF PushInjected, ClosedLocations
<1>12. CASE ResponseStart
  <2>1. Assistant(turns + 1, "partial", 0) \in Message
    BY <1>0, AssistantType DEF Stops
  <2>2. Closed(messages) /\ Closed(context) /\ pc' = "streaming" /\ messages' = messages
    BY <1>12 DEF ResponseStart, TranscriptInv, LoopContextInv, ToolPhase
  <2>3. context' # <<>> /\ Front(context') = context
    BY <1>0, <1>12, <2>1, FrontOfAppend, LastOfAppend DEF ResponseStart
  <2> QED BY <2>2, <2>3 DEF TranscriptInv, LoopContextInv, ToolPhase
<1>13. ASSUME NEW s \in {"stop", "error", "aborted"}, NEW n \in 0 .. MaxCalls, ResponseEnd(s, n)
       PROVE AnswerInv'
  <2> DEFINE final == Assistant(turns + 1, s, n)
             before == IF pc = "streaming" THEN Front(context) ELSE context
  <2>1. /\ pc \in {"request", "streaming"} /\ pc' = "response"
        /\ context' = Append(before, final) /\ messages' = Append(messages, final)
        /\ turns' = turns + 1 /\ calls' = n
    BY <1>13 DEF ResponseEnd
  <2>2. final \in Message /\ final.role = "assistant" /\ final.stop = s
    <3>1. n \in Nat /\ turns + 1 \in Nat
      BY <1>0, AgentAssumption DEF AgentAssumption
    <3> QED BY <3>1, AssistantType DEF Stops, Assistant
  <2>3. final = Assistant(turns', s, calls')
    BY <2>1
  <2>4. before \in Seq(Message) /\ Closed(before) /\ Closed(messages)
    BY <1>0, <2>1, FrontIn DEF TranscriptInv, LoopContextInv, ToolPhase
  <2> HIDE DEF final, before
  <2>5. LastMessage(context').stop = s
    BY <2>1, <2>2, <2>4, LastOfAppend
  <2>6. Open(context', final, <<>>)
    <3>1. context' = Append(before, final) \o <<>>
      BY <2>1, <2>2, <2>4, AppendIn, NoneAfter
    <3> QED BY <2>2, <2>4, <3>1, NoneIn, OpenFrom
  <2>7. Open(messages', final, <<>>)
    <3>1. messages' = Append(messages, final) \o <<>>
      BY <1>0, <2>1, <2>2, AppendIn, NoneAfter
    <3> QED BY <1>0, <2>2, <2>4, <3>1, NoneIn, OpenFrom
  <2>8. s # "stop" => Closed(messages')
    BY <1>0, <2>1, <2>2, <2>4, ClosedAppend DEF Asks
  <2>9. TranscriptInv'
    <3>1. s = "stop" => final = Question'
      BY <2>3 DEF Question
    <3> QED BY <2>1, <2>5, <2>7, <2>8, <3>1 DEF TranscriptInv, ToolPhase
  <2>10. LoopContextInv'
    BY <2>1, <2>3, <2>6 DEF LoopContextInv, ToolPhase
  <2> QED BY <2>9, <2>10
<1>14. CASE StopOnError
  <2>1. /\ pc = "response" /\ LastMessage(context).stop # "stop" /\ pc' = "agentEnd"
        /\ messages' = messages
    BY <1>14 DEF StopOnError
  <2> QED BY <2>1, ToClosed DEF TranscriptInv, ClosedLocations
<1>15. CASE StartTools
  <2>1. /\ pc = "response" /\ LastMessage(context).stop = "stop" /\ results' = <<>>
        /\ UNCHANGED <<messages, context, turns, calls>>
        /\ pc' = IF calls > 0 THEN "tools" ELSE "turnEnd"
    BY <1>15 DEF StartTools
  <2>2. Open(messages, Question, <<>>) \/ messages = <<>>
    BY <2>1 DEF TranscriptInv
  <2>3. Open(context, Question, <<>>)
    <3>1. PICK s \in {"stop", "error", "aborted"} : Open(context, Assistant(turns, s, calls), <<>>)
      BY <2>1 DEF LoopContextInv
    <3>2. /\ Assistant(turns, s, calls) \in Message /\ Assistant(turns, s, calls).stop = s
          /\ Assistant(turns, s, calls).role = "assistant"
      BY QuestionType DEF Stops
    <3>3. LastMessage(context) = Assistant(turns, s, calls)
      <4>1. PICK m \in Seq(Message) : context = Append(m, Assistant(turns, s, calls)) \o <<>>
        BY <1>0, <3>1, OpenParts
      <4>2. context = Append(m, Assistant(turns, s, calls))
        BY <3>2, <4>1, AppendIn, NoneAfter
      <4> QED BY <3>2, <4>2, LastOfAppend
    <3> QED BY <2>1, <3>1, <3>2, <3>3 DEF Question
  <2>4. CASE calls > 0
    <3>1. pc' = "tools" /\ Question' = Question
      BY <2>1, <2>4 DEF Question
    <3> QED BY <2>1, <2>2, <2>3, <3>1, ClosedNone DEF TranscriptInv, LoopContextInv, ToolPhase
  <2>5. CASE ~(calls > 0)
    <3>1. /\ pc' = "turnEnd" /\ calls = 0
          /\ Question \in Message /\ Question.role = "assistant" /\ Question.calls = 0
      BY <1>0, <2>1, <2>5, QuestionType DEF Question, Stops
    <3>2. <<>> \in Seq(ToolResultMessage) /\ Len(<<>>) = 0 /\ Answers(<<>>) = {}
          /\ {<<Question.id, i>> : i \in 1 .. 0} = {}
      BY NoneIn, EmptySeq DEF Answers
    <3>3. Closed(messages) /\ Closed(context)
      BY <1>0, <2>2, <2>3, <3>1, <3>2, OpenCloses, ClosedNone
    <3> QED BY <2>1, <3>1, <3>3, ToClosed DEF ClosedLocations
  <2> QED BY <2>4, <2>5
<1>16. CASE ToolStart \/ ToolImmediate \/ ToolPrepared \/ LaunchTools \/ FinalizeTool
  <2>1. /\ pc \in ToolPhase /\ pc' \in ToolPhase
        /\ UNCHANGED <<messages, context, turns, calls, results>>
    BY <1>16 DEF ToolStart, ToolImmediate, ToolPrepared, LaunchTools, FinalizeTool, ToolPhase, toolVars
  <2>2. pc' \notin {"response", "failing", "streaming"} /\ pc' \notin ClosedLocations
    BY <2>1 DEF ToolPhase, ClosedLocations
  <2> QED BY <2>1, <2>2 DEF TranscriptInv, LoopContextInv, ToolPhase, Question, ClosedLocations
<1>17. CASE ToolOutcome
  <2>1. /\ pc \in ToolPhase /\ pc' \in {"tools", "await"}
        /\ messages' = Append(messages, ToolResult(cur))
        /\ results' = Append(results, ToolResult(cur))
        /\ UNCHANGED <<context, turns, calls>>
    BY <1>17 DEF ToolOutcome, ToolPhase
  <2>2. ToolResult(cur) \in ToolResultMessage /\ Question \in Message /\ Question' = Question
    BY <2>1, ToolResultType, QuestionType DEF TypeOK, Question, Stops
  <2>3. Open(messages, Question, results) => Open(messages', Question, results')
    BY <1>0, <2>1, <2>2, OpenGrows
  <2>4. IsResults(messages) => IsResults(messages')
    BY <1>0, <2>1, <2>2, ResultsGrow
  <2> QED BY <2>1, <2>2, <2>3, <2>4 DEF TranscriptInv, LoopContextInv, ToolPhase
<1>18. CASE ToolsDone
  <2>1. /\ pc \in {"tools", "await"} /\ prep > calls /\ runnable = <<>> /\ pc' = "turnEnd"
        /\ context' = context \o results /\ messages' = messages
    BY <1>18 DEF ToolsDone
  <2>2. pc \in ToolPhase /\ prep = calls + 1 /\ InFlight = {}
    BY <1>0, <2>1 DEF TypeOK, ToolPhase, InFlight
  <2>3. Len(results) = calls /\ Answers(results) = TurnCalls(calls)
    <3>1. Len(runnable) = 0 /\ InSeq(runnable) = {} /\ Len(results) \in Nat /\ prep - 1 = calls
      BY <1>0, <2>1, <2>2, NoElements, LenProperties
    <3>2. /\ Len(results) + Len(runnable) + 0 = prep - 1
          /\ Answers(results) \union InSeq(runnable) \union InFlight = TurnCalls(prep - 1)
      BY <2>2 DEF CallIInv, CallInv
    <3> QED BY <2>2, <3>1, <3>2
  <2>4. /\ Question \in Message /\ Question.role = "assistant" /\ Question.calls = calls
        /\ Question.id = turns
    BY QuestionType DEF Question, Stops
  <2>5. Answers(results) = {<<Question.id, i>> : i \in 1 .. Question.calls}
    BY <2>3, <2>4 DEF TurnCalls
  <2>6. Closed(messages)
    BY <1>0, <2>2, <2>3, <2>4, <2>5, OpenCloses, ResultsClosed DEF TranscriptInv
  <2>7. Closed(context')
    <3>1. PICK m \in Seq(Message) : Closed(m) /\ context = Append(m, Question) \o <<>>
      BY <1>0, <2>2, OpenParts DEF LoopContextInv
    <3>2. context' = Append(m, Question) \o results
      BY <2>1, <2>4, <3>1, AppendIn, NoneAfter
    <3> QED BY <1>0, <2>3, <2>4, <2>5, <3>1, <3>2, ClosedByResults
  <2> QED BY <2>1, <2>6, <2>7, ToClosed DEF ClosedLocations
<1>19. CASE Throw
  <2>1. pc' = "failing" /\ UNCHANGED <<messages, turns, calls, results>> /\ pc # "failing"
    BY <1>19 DEF Throw, toolVars
  <2>2. Closed(messages) \/ Open(messages, Question, <<>>) \/ Open(messages, Question, results)
    BY <1>0, ClosedNone, ResultsClosed, <2>1 DEF TranscriptInv
  <2> QED BY <2>1, <2>2 DEF TranscriptInv, LoopContextInv, ToolPhase, Question
<1>20. CASE HandleRunFailure
  <2> DEFINE f == Assistant(0, "failure", 0)
  <2>1. f \in Message /\ f.role = "assistant" /\ f.stop = "failure" /\ ~Asks(f)
    BY AssistantType DEF Stops, Assistant, Asks
  <2>2. pc = "failing" /\ pc' = "failed" /\ messages' = Append(messages, f)
    BY <1>20 DEF HandleRunFailure
  <2>3. Question \in Message /\ Question.role = "assistant"
    BY QuestionType DEF Question, Stops
  <2> HIDE DEF f
  <2>4. Closed(messages')
    BY <1>0, <2>1, <2>2, <2>3, NoneIn, OpenFails, ClosedAppend DEF TranscriptInv
  <2> QED BY <2>2, <2>4, ToClosed DEF ClosedLocations
<1>21. CASE FinishRun
  <2>1. pc \in {"agentEnd", "failed"} /\ pc' = "idle" /\ messages' = messages
    BY <1>21 DEF FinishRun
  <2> QED BY <2>1, ToClosed DEF TranscriptInv, ToolPhase, ClosedLocations
<1>22. ASSUME NEW c \in executing, ToolSettles(c) PROVE AnswerInv'
  BY <1>22, <1>a DEF ToolSettles
<1>23. CASE UNCHANGED vars
  BY <1>23, <1>a DEF vars, toolVars
<1> QED
  BY <1>1, <1>2, <1>3, <1>4, <1>5, <1>6, <1>7, <1>8, <1>9, <1>10, <1>11, <1>12, <1>13, <1>14,
     <1>15, <1>16, <1>17, <1>18, <1>19, <1>20, <1>21, <1>22, <1>23 DEF Next, Caller, Loop

\* AnsweredBy names the messages that directly follow a position.
LEMMA AnswersFollow ==
  ASSUME NEW s \in Seq(Message), NEW k \in 1 .. Len(s), NEW n \in 0 .. Len(s) - k,
         AnsweredBy(s, k, n)
  PROVE  ResultsAfter(s, k) = k + 1 .. k + n /\ Cardinality(ResultsAfter(s, k)) = n
<1>1. Len(s) \in Nat /\ k \in Nat /\ n \in Nat
  BY LenProperties
<1>2. k + 1 .. k + n \subseteq ResultsAfter(s, k)
  BY <1>1 DEF ResultsAfter, AnsweredBy
<1>3. ASSUME NEW j \in ResultsAfter(s, k), j \notin k + 1 .. k + n PROVE FALSE
  <2>1. j \in k + 1 .. Len(s) /\ \A i \in k + 1 .. j : s[i].role = "toolResult"
    BY DEF ResultsAfter
  <2>2. k + n < Len(s) /\ k + n + 1 \in k + 1 .. j
    BY <1>1, <1>3, <2>1
  <2> QED BY <2>1, <2>2 DEF AnsweredBy
<1>4. ResultsAfter(s, k) = k + 1 .. k + n
  BY <1>2, <1>3
<1>5. Cardinality(k + 1 .. k + n) = n
  <2>1. Cardinality(k + 1 .. k + n) = IF k + 1 > k + n THEN 0 ELSE (k + n) - (k + 1) + 1
    BY <1>1, FS_Interval
  <2> QED BY <1>1, <2>1
<1> QED BY <1>4, <1>5

\* A closed context is what the property asks for.
LEMMA ClosedIsAnswered == TypeOK /\ AnswerInv => ToolCallsAnswered
<1> SUFFICES ASSUME TypeOK, Closed(context), NEW k \in 1 .. Len(context), Asks(context[k])
             PROVE  LET msg == context[k]
                        answers == ResultsAfter(context, k)
                        next == k + Cardinality(answers) + 1
                    IN \/ /\ Cardinality(answers) = msg.calls
                          /\ {context[j].call : j \in answers} = {<<msg.id, i>> : i \in 1 .. msg.calls}
                       \/ /\ next <= Len(context)
                          /\ context[next].role = "assistant" /\ context[next].stop = "failure"
  BY DEF AnswerInv, LoopContextInv, ToolCallsAnswered, Asks
<1>1. context \in Seq(Message) /\ Len(context) \in Nat
  BY LenProperties DEF TypeOK
<1>2. PICK n \in 0 .. Len(context) - k : AnsweredBy(context, k, n)
  BY DEF Closed, Answered
<1>3. ResultsAfter(context, k) = k + 1 .. k + n /\ Cardinality(ResultsAfter(context, k)) = n
  BY <1>1, <1>2, AnswersFollow
<1>4. k + n < Len(context) => k + n + 1 <= Len(context)
  BY <1>1
<1> QED BY <1>2, <1>3, <1>4 DEF AnsweredBy

\* In every request each tool call of a completed assistant message is answered
\* exactly once, directly after it, unless its run was broken off.
THEOREM AnswersTheorem == Spec => []ToolCallsAnswered
<1>1. Init => CallIInv /\ AnswerInv
  BY ClosedNone DEF Init, CallIInv, OfThisTurn, CallInv, AnswerInv, TranscriptInv, LoopContextInv, ToolPhase
<1> QED BY <1>1, TypeCorrect, CallStep, AnswerStep, ClosedIsAnswered, PTL DEF Spec

----------------------------------------------------------------------------
(* Sequential tools *)

\* Sequential execution: at most one tool executes, and the loop waits for it.
SequentialInv ==
  ToolExecution = "sequential" =>
    /\ pc \in {"tools", "prepare", "outcome"} => runnable = <<>>
    /\ pc = "await" => Len(runnable) = 1
    /\ pc # "finalized"
    /\ executing # {} => pc = "await" /\ executing = {Head(runnable)}

\* Every step keeps the loop waiting for the one tool.
LEMMA SequentialStep == TypeOK /\ SequentialInv /\ [Next]_vars => SequentialInv'
<1> SUFFICES ASSUME TypeOK, SequentialInv, [Next]_vars, ToolExecution = "sequential"
             PROVE  SequentialInv'
  BY DEF SequentialInv
<1> USE DEF loopVars, queueVars, bookVars, toolVars
<1>0. executing = {} \/ WaitingForTool
  BY EmptySeq DEF SequentialInv, WaitingForTool
<1>1. ASSUME NEW b \in Batches, Prompt(b) PROVE SequentialInv'
  BY <1>1 DEF Prompt, StartRun, Idle, SequentialInv
<1>2. CASE Continue
  BY <1>2 DEF Continue, ContinueFromSteering, ContinueFromFollowUp, ContinueTranscript,
              StartRun, Idle, SequentialInv
<1>3. ASSUME NEW m \in Msgs, Steer(m) \/ FollowUp(m) PROVE SequentialInv'
  BY <1>3 DEF Steer, FollowUp, SequentialInv
<1>4. ASSUME NEW s \in Modes, NEW f \in Modes, SetModes(s, f) PROVE SequentialInv'
  BY <1>4 DEF SetModes, SequentialInv
<1>5. CASE ClearSteeringQueue \/ ClearFollowUpQueue \/ Reset \/ DropErrorMessage \/ Abort
  BY <1>5 DEF ClearSteeringQueue, ClearFollowUpQueue, Reset, DropErrorMessage, Abort, SequentialInv
<1>6. CASE EmitPrompt \/ InitialPoll \/ StartTurn \/ InjectMessage \/ PushInjected \/ Request
  BY <1>6 DEF EmitPrompt, InitialPoll, StartTurn, InjectMessage, PushInjected, Request, SequentialInv
<1>7. CASE ResponseStart \/ StopOnError \/ PollSteering \/ PollFollowUp
  BY <1>7 DEF ResponseStart, StopOnError, PollSteering, PollFollowUp, SequentialInv
<1>8. ASSUME NEW s \in {"stop", "error", "aborted"}, NEW n \in 0 .. MaxCalls, ResponseEnd(s, n)
      PROVE SequentialInv'
  BY <1>8 DEF ResponseEnd, SequentialInv
<1>9. CASE StartTools
  BY <1>9 DEF StartTools, SequentialInv
<1>10. CASE ToolStart \/ ToolImmediate
  BY <1>10 DEF ToolStart, ToolImmediate, SequentialInv
<1>11. CASE ToolPrepared
  <2>1. runnable = <<>> /\ executing = {} /\ cur \in CallId
    BY <1>11 DEF ToolPrepared, SequentialInv, TypeOK
  <2>2. runnable' = <<cur>> /\ executing' = {cur} /\ pc' = "await"
    BY <1>11, <2>1 DEF ToolPrepared
  <2> QED BY <2>2 DEF SequentialInv
<1>12. CASE LaunchTools
  BY <1>12 DEF LaunchTools, SequentialInv
<1>13. CASE FinalizeTool
  <2>1. /\ executing = {} /\ pc' = "outcome" /\ runnable' = Tail(runnable) /\ Len(runnable) = 1
        /\ executing' = executing
    BY <1>13 DEF FinalizeTool, SequentialInv, WaitingForTool
  <2>2. runnable' = <<>>
    <3>1. runnable \in Seq(CallId) /\ runnable # <<>>
      <4>1. runnable \in Seq(CallId)
        BY DEF TypeOK
      <4> QED BY <1>13, <4>1 DEF FinalizeTool
    <3>2. Tail(runnable) \in Seq(CallId) /\ Len(Tail(runnable)) = 0
      BY <2>1, <3>1, HeadTailProperties
    <3> QED BY <2>1, <3>2, EmptySeq
  <2> QED BY <2>1, <2>2 DEF SequentialInv
<1>14. CASE ToolOutcome \/ ToolsDone \/ HandleRunFailure \/ FinishRun
  BY <1>14 DEF ToolOutcome, ToolsDone, HandleRunFailure, FinishRun, SequentialInv
<1>15. CASE Throw
  BY <1>0, <1>15 DEF Throw, SequentialInv
<1>16. ASSUME NEW c \in executing, ToolSettles(c) PROVE SequentialInv'
  BY <1>16 DEF ToolSettles, SequentialInv
<1>17. CASE UNCHANGED vars
  BY <1>17 DEF vars, SequentialInv
<1> QED
  BY <1>1, <1>2, <1>3, <1>4, <1>5, <1>6, <1>7, <1>8, <1>9, <1>10, <1>11, <1>12, <1>13, <1>14,
     <1>15, <1>16, <1>17 DEF Next, Caller, Loop

\* With sequential execution no tool outlives its run, whatever rejects.
THEOREM SequentialTheorem ==
  ASSUME ToolExecution = "sequential" PROVE Spec => []ToolsSettledWhenIdle
<1>1. Init => SequentialInv
  BY DEF Init, SequentialInv
<1>2. SequentialInv => ToolsSettledWhenIdle
  BY DEF SequentialInv, ToolsSettledWhenIdle, Idle
<1> QED BY <1>1, <1>2, TypeCorrect, SequentialStep, PTL DEF Spec

----------------------------------------------------------------------------
(* Steering one at a time *)

IsSteer(m) == m.role = "user" /\ m.via = "steer"

\* An assistant message separates any two steering messages.
Separate(s) ==
  \A i, j \in 1 .. Len(s) :
    i < j /\ IsSteer(s[i]) /\ IsSteer(s[j]) => \E k \in i .. j : s[k].role = "assistant"

\* The model has answered every steering message.
Heard(s) == \A i \in 1 .. Len(s) : IsSteer(s[i]) => \E k \in i .. Len(s) : s[k].role = "assistant"

SteeringInv ==
  /\ Separate(messages)
  /\ Len(pending) <= 1
  /\ \A i \in 1 .. Len(followUpQueue) : ~IsSteer(followUpQueue[i])
  /\ pc = "prompts" =>
       /\ hasMoreToolCalls
       /\ skipPoll => Len(prompts) <= 1 /\ (prompts # <<>> => Heard(messages))
       /\ ~skipPoll => Heard(messages) /\ \A i \in 1 .. Len(prompts) : ~IsSteer(prompts[i])
  /\ pc = "turn" => Heard(messages) \/ (hasMoreToolCalls /\ pending = <<>>)
  /\ pc = "inject" => Heard(messages) \/ pending = <<>>
  /\ pc \in ToolPhase \union {"idle", "response", "turnEnd", "agentEnd", "failed"} => Heard(messages)

OneAtATimeInv == clears = 0 /\ Modes = {"one-at-a-time"} => SteeringInv

\* A message joins a transcript in which steering messages are separate.
LEMMA SeparateAppend ==
  ASSUME NEW s \in Seq(Message), NEW e \in Message, Separate(s), Heard(s) \/ ~IsSteer(e)
  PROVE  Separate(Append(s, e))
<1>1. /\ Len(Append(s, e)) = Len(s) + 1 /\ Len(s) \in Nat
      /\ \A i \in 1 .. Len(s) : Append(s, e)[i] = s[i]
      /\ Append(s, e)[Len(s) + 1] = e
  BY AppendProperties, LenProperties
<1> DEFINE t == Append(s, e)
<1> HIDE DEF t
<1> SUFFICES ASSUME NEW i \in 1 .. Len(t), NEW j \in 1 .. Len(t), i < j, IsSteer(t[i]), IsSteer(t[j])
             PROVE  \E k \in i .. j : t[k].role = "assistant"
  BY DEF Separate, t
<1>2. CASE j <= Len(s)
  <2>1. i \in 1 .. Len(s) /\ j \in 1 .. Len(s) /\ t[i] = s[i] /\ t[j] = s[j]
    BY <1>1, <1>2 DEF t
  <2>2. PICK k \in i .. j : s[k].role = "assistant"
    BY <2>1 DEF Separate
  <2>3. t[k] = s[k]
    BY <1>1, <1>2 DEF t
  <2> QED BY <2>2, <2>3
<1>3. CASE j = Len(s) + 1
  <2>1. i \in 1 .. Len(s) /\ t[i] = s[i] /\ t[j] = e
    BY <1>1, <1>3 DEF t
  <2>2. PICK k \in i .. Len(s) : s[k].role = "assistant"
    BY <2>1 DEF Heard
  <2>3. t[k] = s[k] /\ k \in i .. j
    BY <1>1, <1>3 DEF t
  <2> QED BY <2>2, <2>3
<1> QED BY <1>1, <1>2, <1>3 DEF t

\* An answer, or a message that does not steer, leaves all answered.
LEMMA HeardAppend ==
  ASSUME NEW s \in Seq(Message), NEW e \in Message,
         e.role = "assistant" \/ (Heard(s) /\ ~IsSteer(e))
  PROVE  Heard(Append(s, e))
<1>1. /\ Len(Append(s, e)) = Len(s) + 1 /\ Len(s) \in Nat
      /\ \A i \in 1 .. Len(s) : Append(s, e)[i] = s[i]
      /\ Append(s, e)[Len(s) + 1] = e
  BY AppendProperties, LenProperties
<1> DEFINE t == Append(s, e)
<1> HIDE DEF t
<1> SUFFICES ASSUME NEW i \in 1 .. Len(t), IsSteer(t[i])
             PROVE  \E k \in i .. Len(t) : t[k].role = "assistant"
  BY DEF Heard, t
<1>2. CASE e.role = "assistant"
  BY <1>1, <1>2 DEF t
<1>3. CASE Heard(s) /\ ~IsSteer(e)
  <2>1. i \in 1 .. Len(s) /\ t[i] = s[i]
    BY <1>1, <1>3 DEF t
  <2>2. PICK k \in i .. Len(s) : s[k].role = "assistant"
    BY <1>3, <2>1 DEF Heard
  <2>3. t[k] = s[k] /\ k \in i .. Len(t)
    BY <1>1 DEF t
  <2> QED BY <2>2, <2>3
<1> QED BY <1>2, <1>3

\* One at a time: a queue gives one message.
NoSteer(q) == \A i \in 1 .. Len(q) : ~IsSteer(q[i])

\* What is drained of a queue that gives one message is at most that message.
LEMMA DrainsOne ==
  ASSUME NEW q \in Seq(UserMessage)
  PROVE  /\ Len(Drained(q, "one-at-a-time")) <= 1
         /\ NoSteer(q) => NoSteer(Drained(q, "one-at-a-time")) /\ NoSteer(Remaining(q, "one-at-a-time"))
<1>1. CASE q = <<>>
  BY <1>1, EmptySeq DEF Drained, Remaining, NoSteer
<1>2. CASE q # <<>>
  <2>1. /\ Len(q) \in Nat /\ Len(q) >= 1 /\ Head(q) = q[1] /\ Len(Tail(q)) = Len(q) - 1
        /\ \A i \in 1 .. Len(Tail(q)) : Tail(q)[i] = q[i + 1]
    BY <1>2, HeadTailProperties, LenProperties, EmptySeq
  <2>2. Drained(q, "one-at-a-time") = <<Head(q)>> /\ Remaining(q, "one-at-a-time") = Tail(q)
    BY <1>2 DEF Drained, Remaining
  <2>3. Len(<<Head(q)>>) = 1 /\ (NoSteer(q) => NoSteer(<<Head(q)>>))
    BY <2>1 DEF NoSteer
  <2>4. NoSteer(q) => NoSteer(Tail(q))
    BY <2>1 DEF NoSteer
  <2>5. Len(Drained(q, "one-at-a-time")) <= 1
    <3>1. Len(<<Head(q)>>) <= 1
      BY <2>3
    <3> QED BY <2>2, <3>1, Zenon
  <2>6. NoSteer(q) => NoSteer(Drained(q, "one-at-a-time")) /\ NoSteer(Remaining(q, "one-at-a-time"))
    BY <2>2, <2>3, <2>4, Zenon
  <2> QED BY <2>5, <2>6
<1> QED BY <1>1, <1>2

\* The head of a queue without steering messages.
LEMMA NoSteerHead ==
  ASSUME NEW q \in Seq(UserMessage), q # <<>>
  PROVE  /\ Head(q) \in Message /\ Len(Tail(q)) = Len(q) - 1 /\ Len(q) \in Nat
         /\ NoSteer(q) => ~IsSteer(Head(q)) /\ NoSteer(Tail(q))
<1>1. /\ Len(q) \in Nat /\ Len(q) >= 1 /\ Head(q) = q[1] /\ Len(Tail(q)) = Len(q) - 1
      /\ \A i \in 1 .. Len(Tail(q)) : Tail(q)[i] = q[i + 1]
  BY HeadTailProperties, LenProperties, EmptySeq
<1> QED BY <1>1, HeadTail, Widening DEF NoSteer

\* A run starts from an answered transcript.
LEMMA StartRunSteering ==
  ASSUME SteeringInv, Idle, NEW ms, NEW sk \in BOOLEAN, StartRun(ms, sk),
         NoSteer(followUpQueue'), sk => Len(ms) <= 1, ~sk => NoSteer(ms)
  PROVE  SteeringInv'
  BY EmptySeq DEF StartRun, SteeringInv, NoSteer, Idle, ToolPhase

\* Every step keeps steering messages separate.
LEMMA SteeringStep == TypeOK /\ OneAtATimeInv /\ [Next]_vars => OneAtATimeInv'
<1> SUFFICES ASSUME TypeOK, SteeringInv, clears = 0, clears' = 0, Modes = {"one-at-a-time"},
                    [Next]_vars
             PROVE  SteeringInv'
  <2>1. ASSUME [Next]_vars, clears' = 0, clears \in Nat PROVE clears = 0
    BY <2>1 DEF Next, Caller, Loop, Prompt, StartRun, Continue, ContinueFromSteering,
                ContinueFromFollowUp, ContinueTranscript, Steer, FollowUp, SetModes,
                ClearSteeringQueue, ClearFollowUpQueue, Reset, DropErrorMessage, Abort, bookVars,
                EmitPrompt, InitialPoll, StartTurn, InjectMessage, PushInjected, Request,
                ResponseStart, ResponseEnd, StopOnError, StartTools, PollSteering, PollFollowUp,
                ToolStart, ToolImmediate, ToolPrepared, LaunchTools, ToolSettles, FinalizeTool,
                ToolOutcome, ToolsDone, Throw, HandleRunFailure, FinishRun, vars
  <2> QED BY <2>1 DEF OneAtATimeInv, TypeOK
<1> USE DEF loopVars, queueVars, bookVars
<1>0. /\ messages \in Seq(Message) /\ steeringMode = "one-at-a-time"
      /\ followUpMode = "one-at-a-time"
      /\ prompts \in Seq(UserMessage) /\ pending \in Seq(UserMessage)
      /\ steeringQueue \in Seq(UserMessage) /\ followUpQueue \in Seq(UserMessage)
      /\ NoSteer(followUpQueue) /\ Len(<<>>) = 0 /\ turns \in Nat
  BY EmptySeq DEF TypeOK, SteeringInv, NoSteer
<1>1. ASSUME NEW b \in Batches, Prompt(b) PROVE SteeringInv'
  <2>1. NoSteer([i \in 1 .. Len(b) |-> User(b[i], "prompt")])
    <3>1. PICK n \in 1 .. MaxBatch : b \in [1 .. n -> Msgs]
      BY DEF Batches
    <3>2. n \in Nat /\ Len(b) = n
      BY <3>1, AgentAssumption DEF AgentAssumption
    <3>3. Len([i \in 1 .. n |-> User(b[i], "prompt")]) = n
      BY <3>2
    <3> QED BY <3>2, <3>3 DEF NoSteer, IsSteer, User
  <2> QED BY <1>0, <1>1, <2>1, StartRunSteering DEF Prompt
<1>2. CASE Continue
  <2>1. CASE ContinueFromSteering
    BY <1>0, <2>1, DrainsOne, StartRunSteering DEF ContinueFromSteering
  <2>2. CASE ContinueFromFollowUp
    BY <1>0, <2>2, DrainsOne, StartRunSteering DEF ContinueFromFollowUp
  <2>3. CASE ContinueTranscript
    <3>1. NoSteer(<<>>) /\ NoSteer(followUpQueue')
      BY <1>0, <2>3 DEF ContinueTranscript, NoSteer
    <3> QED BY <2>3, <3>1, StartRunSteering DEF ContinueTranscript
  <2> QED BY <1>2, <2>1, <2>2, <2>3 DEF Continue
<1>3. ASSUME NEW m \in Msgs, Steer(m) \/ FollowUp(m) PROVE SteeringInv'
  <2>1. CASE Steer(m)
    BY <2>1 DEF Steer, SteeringInv, toolVars
  <2>2. CASE FollowUp(m)
    <3>1. User(m, "followUp") \in UserMessage /\ ~IsSteer(User(m, "followUp"))
      BY UserType DEF Via, IsSteer, User
    <3>2. NoSteer(followUpQueue')
      BY <1>0, <2>2, <3>1, AppendProperties, LenProperties DEF FollowUp, NoSteer
    <3> QED BY <2>2, <3>2 DEF FollowUp, SteeringInv, toolVars, NoSteer
  <2> QED BY <1>3, <2>1, <2>2
<1>4. ASSUME NEW s \in Modes, NEW f \in Modes, SetModes(s, f) PROVE SteeringInv'
  BY <1>4 DEF SetModes, SteeringInv, toolVars
<1>5. CASE ClearSteeringQueue \/ ClearFollowUpQueue \/ Reset \/ DropErrorMessage
  BY <1>5 DEF ClearSteeringQueue, ClearFollowUpQueue, Reset, DropErrorMessage
<1>6. CASE Abort
  BY <1>6 DEF Abort, SteeringInv, toolVars
<1>7. CASE EmitPrompt
  <2>1. /\ pc = "prompts" /\ prompts # <<>> /\ messages' = Append(messages, Head(prompts))
        /\ prompts' = Tail(prompts)
        /\ UNCHANGED <<pc, pending, skipPoll, hasMoreToolCalls, followUpQueue>>
    BY <1>7 DEF EmitPrompt
  <2>2. /\ hasMoreToolCalls
        /\ skipPoll => Len(prompts) <= 1 /\ Heard(messages)
        /\ ~skipPoll => Heard(messages) /\ NoSteer(prompts)
        /\ Separate(messages)
    BY <2>1 DEF SteeringInv, NoSteer
  <2>3. /\ Head(prompts) \in Message /\ Len(Tail(prompts)) = Len(prompts) - 1 /\ Len(prompts) \in Nat
        /\ NoSteer(prompts) => ~IsSteer(Head(prompts)) /\ NoSteer(Tail(prompts))
    BY <1>0, <2>1, NoSteerHead
  <2>4. Separate(messages')
    BY <1>0, <2>1, <2>2, <2>3, SeparateAppend
  <2>5. ~skipPoll => Heard(messages') /\ NoSteer(prompts')
    BY <1>0, <2>1, <2>2, <2>3, HeardAppend
  <2>6. skipPoll => Len(prompts') <= 1 /\ prompts' = <<>>
    BY <1>0, <2>1, <2>2, <2>3, HeadTail, EmptySeq, LenProperties
  <2> QED BY <1>0, <2>1, <2>2, <2>4, <2>5, <2>6 DEF SteeringInv, NoSteer, ToolPhase
<1>8. CASE InitialPoll
  <2>1. /\ pc = "prompts" /\ prompts = <<>> /\ pc' = "turn"
        /\ UNCHANGED <<messages, hasMoreToolCalls, followUpQueue>>
        /\ skipPoll => pending' = <<>>
        /\ ~skipPoll => pending' = Drained(steeringQueue, steeringMode)
    BY <1>8 DEF InitialPoll, TakeSteering
  <2>2. Len(pending') <= 1
    BY <1>0, <2>1, DrainsOne
  <2> QED BY <1>0, <2>1, <2>2 DEF SteeringInv, ToolPhase
<1>9. CASE StartTurn
  BY <1>9 DEF StartTurn, SteeringInv, ToolPhase
<1>10. CASE InjectMessage
  <2>1. /\ pc = "inject" /\ pending # <<>> /\ messages' = Append(messages, Head(pending))
        /\ pc' = "injected" /\ UNCHANGED <<pending, followUpQueue>>
    BY <1>10 DEF InjectMessage
  <2>2. Separate(messages')
    BY <1>0, <2>1, NoSteerHead, SeparateAppend DEF SteeringInv
  <2> QED BY <2>1, <2>2 DEF SteeringInv, ToolPhase
<1>11. CASE PushInjected
  <2>1. /\ pc' = "inject" /\ pending' = Tail(pending) /\ UNCHANGED <<messages, followUpQueue>>
        /\ pending # <<>>
    BY <1>11 DEF PushInjected, TypeOK
  <2>2. Len(pending') <= 1 /\ pending' = <<>>
    BY <1>0, <2>1, NoSteerHead, HeadTail, EmptySeq, LenProperties DEF SteeringInv
  <2> QED BY <2>1, <2>2 DEF SteeringInv, ToolPhase
<1>12. CASE Request \/ ResponseStart
  BY <1>12 DEF Request, ResponseStart, SteeringInv, ToolPhase
<1>13. ASSUME NEW s \in {"stop", "error", "aborted"}, NEW n \in 0 .. MaxCalls, ResponseEnd(s, n)
       PROVE SteeringInv'
  <2> DEFINE final == Assistant(turns + 1, s, n)
  <2>1. final \in Message /\ final.role = "assistant" /\ ~IsSteer(final)
    <3>1. n \in Nat /\ turns + 1 \in Nat
      BY <1>0, AgentAssumption DEF AgentAssumption
    <3> QED BY <3>1, AssistantType DEF Stops, Assistant, IsSteer
  <2>2. pc' = "response" /\ messages' = Append(messages, final) /\ UNCHANGED <<pending, followUpQueue>>
    BY <1>13 DEF ResponseEnd
  <2> HIDE DEF final
  <2>3. Separate(messages') /\ Heard(messages')
    BY <1>0, <2>1, <2>2, SeparateAppend, HeardAppend DEF SteeringInv
  <2> QED BY <2>2, <2>3 DEF SteeringInv, ToolPhase
<1>14. CASE StopOnError \/ StartTools
  BY <1>14 DEF StopOnError, StartTools, SteeringInv, ToolPhase
<1>15. CASE PollSteering
  <2>1. /\ pc = "turnEnd" /\ pc' = "turn" /\ UNCHANGED <<messages, hasMoreToolCalls, followUpQueue>>
        /\ pending' \in {<<>>, Drained(steeringQueue, steeringMode)}
    BY <1>15 DEF PollSteering, TakeSteering
  <2>2. Len(pending') <= 1
    BY <1>0, <2>1, DrainsOne
  <2> QED BY <2>1, <2>2 DEF SteeringInv, ToolPhase
<1>16. CASE PollFollowUp
  <2>1. /\ pc = "turn" /\ ~hasMoreToolCalls /\ pc' \in {"turn", "agentEnd"} /\ messages' = messages
        /\ pending' = Drained(followUpQueue, followUpMode)
        /\ followUpQueue' = Remaining(followUpQueue, followUpMode)
    BY <1>16 DEF PollFollowUp
  <2>2. Len(pending') <= 1 /\ NoSteer(followUpQueue')
    BY <1>0, <2>1, DrainsOne
  <2> QED BY <2>1, <2>2 DEF SteeringInv, ToolPhase, NoSteer
<1>17. CASE ToolStart \/ ToolImmediate \/ ToolPrepared \/ LaunchTools \/ FinalizeTool \/ ToolsDone
  BY <1>17 DEF ToolStart, ToolImmediate, ToolPrepared, LaunchTools, FinalizeTool, ToolsDone,
               SteeringInv, ToolPhase, toolVars
<1>18. CASE ToolOutcome
  <2>1. ToolResult(cur) \in Message /\ ~IsSteer(ToolResult(cur))
    BY ToolResultType, Widening DEF TypeOK, ToolResult, IsSteer
  <2>2. /\ pc \in ToolPhase /\ pc' \in {"tools", "await"}
        /\ messages' = Append(messages, ToolResult(cur)) /\ UNCHANGED <<pending, followUpQueue>>
    BY <1>18 DEF ToolOutcome, ToolPhase
  <2>3. Separate(messages') /\ Heard(messages')
    BY <1>0, <2>1, <2>2, SeparateAppend, HeardAppend DEF SteeringInv
  <2> QED BY <2>2, <2>3 DEF SteeringInv, ToolPhase
<1>19. CASE Throw
  BY <1>0, <1>19 DEF Throw, SteeringInv, ToolPhase
<1>20. CASE HandleRunFailure
  <2> DEFINE f == Assistant(0, "failure", 0)
  <2>1. f \in Message /\ f.role = "assistant" /\ ~IsSteer(f)
    BY AssistantType DEF Stops, Assistant, IsSteer
  <2>2. pc' = "failed" /\ messages' = Append(messages, f) /\ UNCHANGED <<pending, followUpQueue>>
    BY <1>20 DEF HandleRunFailure
  <2> HIDE DEF f
  <2>3. Separate(messages') /\ Heard(messages')
    BY <1>0, <2>1, <2>2, SeparateAppend, HeardAppend DEF SteeringInv
  <2> QED BY <2>2, <2>3 DEF SteeringInv, ToolPhase
<1>21. CASE FinishRun
  BY <1>21 DEF FinishRun, SteeringInv, ToolPhase
<1>22. ASSUME NEW c \in executing, ToolSettles(c) PROVE SteeringInv'
  BY <1>22 DEF ToolSettles, SteeringInv
<1>23. CASE UNCHANGED vars
  BY <1>23 DEF vars, SteeringInv
<1> QED
  BY <1>1, <1>2, <1>3, <1>4, <1>5, <1>6, <1>7, <1>8, <1>9, <1>10, <1>11, <1>12, <1>13, <1>14,
     <1>15, <1>16, <1>17, <1>18, <1>19, <1>20, <1>21, <1>22, <1>23 DEF Next, Caller, Loop

\* Until a queue is cleared or the transcript is reset or assigned, the model
\* answers each steering message of a one-at-a-time queue before it is sent the next.
THEOREM SteeringTheorem == Spec => [](clears = 0 => OneSteeringPerRequest)
<1>1. Init => OneAtATimeInv
  BY EmptySeq DEF Init, OneAtATimeInv, SteeringInv, Separate, Heard, ToolPhase
<1>2. OneAtATimeInv => (clears = 0 => OneSteeringPerRequest)
  BY DEF OneAtATimeInv, SteeringInv, Separate, IsSteer, OneSteeringPerRequest
<1> QED BY <1>1, <1>2, TypeCorrect, SteeringStep, PTL DEF Spec

----------------------------------------------------------------------------
(* Delivery: the agent implements MessageDelivery *)

\* What the run holds came from one channel, and is held in one place at a time; each queue
\* holds messages of its channel.
HeldInv ==
  /\ prompts # <<>> => pc = "prompts" /\ pending = <<>>
  /\ pending # <<>> => pc \in {"turn", "inject", "injected"}
  /\ \E v \in Via : prompts \in Seq(Sent(v)) /\ pending \in Seq(Sent(v))
  /\ steeringQueue \in Seq(Sent("steer")) /\ followUpQueue \in Seq(Sent("followUp"))

\* What is sent through one channel is sent through no other.
LEMMA HeldIs ==
  ASSUME NEW w \in Via, NEW s \in Seq(Sent(w)), NEW v \in Via
  PROVE  /\ Held(s, v) = IF v = w THEN s ELSE <<>>
         /\ Held(s, v) \in Seq(UserMessage)
<1>1. ASSUME v # w, s \in Seq(Sent(v)) PROVE s = <<>>
  <2> SUFFICES ASSUME s # <<>> PROVE FALSE
    OBVIOUS
  <2>1. Head(s) \in Sent(v) /\ Head(s) \in Sent(w)
    BY <1>1, HeadTail
  <2> QED BY <1>1, <2>1 DEF Sent
<1>2. Seq(Sent(w)) \subseteq Seq(UserMessage)
  <2>1. Sent(w) \subseteq UserMessage
    BY DEF Sent, UserMessage
  <2>2. \A S, T : S \subseteq T => Seq(S) \subseteq Seq(T)
    OBVIOUS
  <2> QED BY <2>1, <2>2
<1> QED BY <1>1, <1>2, NoneIn DEF Held

\* Nothing is held by everybody.
LEMMA HeldNone == \A v \in Via : Held(<<>>, v) = <<>>
  BY DEF Held

\* A message built for a channel is one of the channel.
LEMMA SentUser == \A m \in Msgs, v \in Via : User(m, v) \in Sent(v)
  BY DEF User, Sent

\* A batch becomes a sequence of prompts, all of that channel.
LEMMA BatchSent ==
  ASSUME NEW b \in Batches
  PROVE  /\ [i \in 1 .. Len(b) |-> User(b[i], "prompt")] \in Seq(Sent("prompt"))
         /\ Len([i \in 1 .. Len(b) |-> User(b[i], "prompt")]) > 0
<1>1. PICK n \in 1 .. MaxBatch : b \in [1 .. n -> Msgs]
  BY DEF Batches
<1>2. n \in Nat /\ Len(b) = n /\ n > 0
  BY <1>1, AgentAssumption DEF AgentAssumption
<1>3. \A i \in 1 .. n : User(b[i], "prompt") \in Sent("prompt")
  BY <1>1, SentUser DEF Via
<1> QED BY <1>2, <1>3, IsASeq

\* The parts of a concatenation, and its first element.
LEMMA Parts ==
  ASSUME NEW S, NEW p \in Seq(S), NEW q \in Seq(S)
  PROVE  /\ Len(p) \in Nat /\ Len(p \o q) \in Nat /\ Len(p) <= Len(p \o q)
         /\ SubSeq(p \o q, 1, Len(p)) = p
         /\ SubSeq(p \o q, Len(p) + 1, Len(p \o q)) = q
         /\ SubSeq(p \o q, 1, Len(p \o q)) = p \o q
         /\ p # <<>> => /\ p \o q # <<>> /\ Head(p \o q) = Head(p)
                        /\ Tail(p \o q) = Tail(p) \o q
<1>1. /\ Len(p) \in Nat /\ Len(q) \in Nat /\ Len(p \o q) = Len(p) + Len(q) /\ p \o q \in Seq(S)
      /\ \A i \in 1 .. Len(p) + Len(q) :
           (p \o q)[i] = IF i <= Len(p) THEN p[i] ELSE q[i - Len(p)]
  BY ConcatProperties
<1> DEFINE r == p \o q
<1>2. SubSeq(r, 1, Len(p)) = p
  BY <1>1
<1>3. SubSeq(r, Len(p) + 1, Len(r)) = q
  BY <1>1
<1>4. SubSeq(r, 1, Len(r)) = r
  BY <1>1
<1>5. ASSUME p # <<>> PROVE r # <<>> /\ Head(r) = Head(p) /\ Tail(r) = Tail(p) \o q
  <2>1. Len(p) > 0
    BY <1>1, <1>5, EmptySeq
  <2>2. Head(r) = Head(p) /\ r # <<>>
    BY <1>1, <2>1
  <2>3. Tail(r) = Tail(p) \o q
    BY <1>1, <2>1
  <2> QED BY <2>2, <2>3
<1> QED BY <1>1, <1>2, <1>3, <1>4, <1>5

\* An element appended to a channel comes last.
LEMMA Joins ==
  ASSUME NEW S, NEW p \in Seq(S), NEW q \in Seq(S), NEW x \in S
  PROVE  p \o Append(q, x) = (p \o q) \o <<x>>
OBVIOUS

----------------------------------------------------------------------------
\* HeldInv holds of the initial state, and each step keeps it.
LEMMA HeldInit == Init => HeldInv
<1> SUFFICES ASSUME Init PROVE HeldInv
  OBVIOUS
<1>1. \A v : <<>> \in Seq(Sent(v))
  OBVIOUS
<1> QED BY <1>1 DEF Init, HeldInv, Via

LEMMA HeldStep == TypeOK /\ HeldInv /\ [Next]_vars => HeldInv'
<1> SUFFICES ASSUME TypeOK, HeldInv, [Next]_vars PROVE HeldInv'
  OBVIOUS
<1> USE DEF loopVars, queueVars, bookVars
<1>n. \A v : <<>> \in Seq(Sent(v))
  OBVIOUS
<1>t. PICK w \in Via : prompts \in Seq(Sent(w)) /\ pending \in Seq(Sent(w))
  BY DEF HeldInv
<1>v. "prompt" \in Via /\ "steer" \in Via /\ "followUp" \in Via
  BY DEF Via
\* A run starts with messages of one channel.
<1>s. ASSUME NEW v \in Via, NEW ms \in Seq(Sent(v)), NEW sk, StartRun(ms, sk),
             steeringQueue' \in Seq(Sent("steer")), followUpQueue' \in Seq(Sent("followUp"))
      PROVE  HeldInv'
  BY <1>s, <1>n DEF StartRun, HeldInv
<1>1. ASSUME NEW b \in Batches, Distinct(b), Prompt(b) PROVE HeldInv'
  BY <1>1, <1>s, <1>v, BatchSent DEF Prompt, HeldInv
<1>2. CASE ContinueFromSteering
  BY <1>2, <1>s, <1>v, Drains DEF ContinueFromSteering, HeldInv
<1>3. CASE ContinueFromFollowUp
  BY <1>3, <1>s, <1>v, Drains DEF ContinueFromFollowUp, HeldInv
<1>4. CASE ContinueTranscript
  BY <1>4, <1>s, <1>v, <1>n DEF ContinueTranscript, HeldInv
<1>5. ASSUME NEW m \in Msgs, Steer(m) PROVE HeldInv'
  BY <1>5, SentUser, AppendIn, <1>v DEF Steer, HeldInv
<1>6. ASSUME NEW m \in Msgs, FollowUp(m) PROVE HeldInv'
  BY <1>6, SentUser, AppendIn, <1>v DEF FollowUp, HeldInv
<1>7. ASSUME NEW s \in Modes, NEW f \in Modes, SetModes(s, f) PROVE HeldInv'
  BY <1>7 DEF SetModes, HeldInv
<1>8. CASE ClearSteeringQueue \/ ClearFollowUpQueue \/ Reset \/ DropErrorMessage \/ Abort
  BY <1>8, <1>n DEF ClearSteeringQueue, ClearFollowUpQueue, Reset, DropErrorMessage, Abort, HeldInv
<1>9. CASE EmitPrompt
  <2>1. Tail(prompts) \in Seq(Sent(w))
    BY <1>9, <1>t, HeadTail DEF EmitPrompt
  <2> QED BY <1>9, <1>t, <2>1 DEF EmitPrompt, HeldInv
<1>10. ASSUME pc \in {"prompts", "turnEnd"}, prompts = <<>>, TakeSteering, pc' = "turn",
              UNCHANGED <<prompts, followUpQueue>>
       PROVE  HeldInv'
  <2>1. /\ prompts' = <<>> /\ pending' \in Seq(Sent("steer"))
        /\ steeringQueue' \in Seq(Sent("steer"))
    BY <1>10, <1>n, Drains DEF TakeSteering, HeldInv
  <2> QED BY <1>10, <1>n, <1>v, <2>1 DEF HeldInv
<1>11. CASE InitialPoll \/ PollSteering
  BY <1>10, <1>11 DEF InitialPoll, PollSteering, HeldInv
<1>12. CASE PollFollowUp
  <2>1. /\ prompts' = <<>> /\ pending' \in Seq(Sent("followUp"))
        /\ followUpQueue' \in Seq(Sent("followUp"))
    BY <1>12, Drains DEF PollFollowUp, HeldInv
  <2>2. pc' = "turn" \/ pending' = <<>>
    BY <1>12 DEF PollFollowUp, Drained
  <2> QED BY <1>12, <1>v, <1>n, <2>1, <2>2 DEF PollFollowUp, HeldInv
<1>13. CASE PushInjected
  <2>1. Tail(pending) \in Seq(Sent(w))
    BY <1>13, <1>t, HeadTail DEF PushInjected, TypeOK
  <2> QED BY <1>13, <1>t, <2>1 DEF PushInjected, HeldInv
<1>14. CASE StartTurn \/ InjectMessage \/ Request \/ ResponseStart
  BY <1>14 DEF StartTurn, InjectMessage, Request, ResponseStart, HeldInv
<1>15. ASSUME NEW s, NEW n, ResponseEnd(s, n) PROVE HeldInv'
  BY <1>15 DEF ResponseEnd, HeldInv
<1>16. CASE StopOnError \/ StartTools \/ ToolStart \/ ToolImmediate \/ ToolPrepared \/ LaunchTools
  BY <1>16 DEF StopOnError, StartTools, ToolStart, ToolImmediate, ToolPrepared, LaunchTools, HeldInv
<1>17. CASE FinalizeTool \/ ToolOutcome \/ ToolsDone \/ HandleRunFailure \/ FinishRun
  BY <1>17 DEF FinalizeTool, ToolOutcome, ToolsDone, HandleRunFailure, FinishRun, HeldInv
<1>18. CASE Throw
  BY <1>18, <1>n, <1>v DEF Throw, HeldInv
<1>19. ASSUME NEW c \in executing, ToolSettles(c) PROVE HeldInv'
  BY <1>19 DEF ToolSettles, HeldInv
<1>20. CASE UNCHANGED vars
  BY <1>20 DEF vars, HeldInv
<1> QED BY <1>1, <1>2, <1>3, <1>4, <1>5, <1>6, <1>7, <1>8, <1>9, <1>11, <1>12, <1>13, <1>14,
           <1>15, <1>16, <1>17, <1>18, <1>19, <1>20 DEF Next, Caller, Loop, Continue

----------------------------------------------------------------------------
\* What waits in a channel: what is held of it, then its queue.
LEMMA Waiting ==
  ASSUME TypeOK, HeldInv
  PROVE  /\ \A v \in Via : /\ Undelivered[v] = Held(Taken, v) \o Queued(v)
                           /\ Undelivered'[v] = Held(Taken', v) \o Queued(v)'
                           /\ Held(Taken, v) \in Seq(UserMessage)
                           /\ Queued(v) \in Seq(UserMessage)
                           /\ Undelivered[v] \in Seq(UserMessage)
         /\ Queued("prompt") = <<>> /\ Queued("prompt")' = <<>>
         /\ Queued("steer") = steeringQueue /\ Queued("steer")' = steeringQueue'
         /\ Queued("followUp") = followUpQueue /\ Queued("followUp")' = followUpQueue'
         /\ \E w \in Via : Taken \in Seq(Sent(w)) /\ prompts \in Seq(Sent(w))
                           /\ pending \in Seq(Sent(w))
<1>1. PICK w \in Via : prompts \in Seq(Sent(w)) /\ pending \in Seq(Sent(w))
  BY DEF HeldInv
<1>2. Taken \in Seq(Sent(w))
  <2>1. CASE pc = "injected"
    BY <1>1, <2>1, HeadTail, ConcatIn DEF Taken, TypeOK
  <2>2. CASE pc # "injected"
    BY <1>1, <2>2, ConcatIn DEF Taken
  <2> QED BY <2>1, <2>2
<1>3. /\ Queued("prompt") = <<>> /\ Queued("prompt")' = <<>>
      /\ Queued("steer") = steeringQueue /\ Queued("steer")' = steeringQueue'
      /\ Queued("followUp") = followUpQueue /\ Queued("followUp")' = followUpQueue'
  BY DEF Queued
<1>4. ASSUME NEW v \in Via
      PROVE  /\ Undelivered[v] = Held(Taken, v) \o Queued(v)
             /\ Undelivered'[v] = Held(Taken', v) \o Queued(v)'
             /\ Held(Taken, v) \in Seq(UserMessage)
             /\ Queued(v) \in Seq(UserMessage)
  <2>1. Held(Taken, v) \in Seq(UserMessage)
    BY <1>2, HeldIs
  <2>2. Queued(v) \in Seq(UserMessage)
    BY <1>3, NoneIn DEF Via, TypeOK
  <2> QED BY <2>1, <2>2 DEF Undelivered
<1> QED BY <1>1, <1>2, <1>3, <1>4, ConcatIn

\* The channels are the same when each has the same messages.
LEMMA SameWaiting ==
  ASSUME \A v \in Via : Undelivered'[v] = Undelivered[v]
  PROVE  Undelivered' = Undelivered
<1>1. Undelivered = [v \in Via |-> Undelivered[v]] /\ Undelivered' = [v \in Via |-> Undelivered'[v]]
  BY DEF Undelivered
<1> QED BY <1>1

\* A step that leaves what is held and the queues leaves the channels,
LEMMA KeptWaiting ==
  ASSUME Taken' = Taken, UNCHANGED <<steeringQueue, followUpQueue>>
  PROVE  Undelivered' = Undelivered
BY DEF Undelivered, Queued

\* and if it leaves the transcript too, nothing happens.
LEMMA Stutter ==
  ASSUME Undelivered' = Undelivered, UNCHANGED <<messages, faults, clears>>
  PROVE  [Delivery!Next]_Delivery!vars
BY DEF Delivery!vars

\* New messages at the end of one channel are accepted.
LEMMA Accepts ==
  ASSUME TypeOK, HeldInv, NEW v \in Via, NEW xs \in Seq(UserMessage), xs # <<>>,
         Undelivered'[v] = Undelivered[v] \o xs,
         \A u \in Via \ {v} : Undelivered'[u] = Undelivered[u],
         UNCHANGED <<messages, faults, clears>>
  PROVE  Delivery!Next
<1> DEFINE p == Undelivered[v]
<1>1. p \in Seq(UserMessage)
  BY Waiting
<1> HIDE DEF p
<1>2. /\ Len(p \o xs) = Len(p) + Len(xs) /\ Len(p) \in Nat /\ Len(xs) \in Nat /\ Len(xs) > 0
      /\ p \o xs \in Seq(UserMessage) /\ SubSeq(p \o xs, 1, Len(p)) = p
  BY <1>1, Parts, ConcatProperties, EmptySeq
<1>3. \A i \in Len(p) + 1 .. Len(p \o xs) : (p \o xs)[i] \in UserMessage
  <2>1. \A i \in Len(p) + 1 .. Len(p \o xs) : i \in 1 .. Len(p \o xs)
    BY <1>2
  <2> QED BY <1>2, <2>1, ElementOfSeq
<1>4. Delivery!Accept(v)
  BY <1>2, <1>3 DEF Delivery!Accept, p
<1> QED BY <1>4 DEF Delivery!Next

\* The first of what is held enters the transcript.
LEMMA Delivers ==
  ASSUME TypeOK, HeldInv, NEW w \in Via, Taken \in Seq(Sent(w)), Taken # <<>>,
         Taken' = Tail(Taken), messages' = Append(messages, Head(Taken)),
         UNCHANGED <<steeringQueue, followUpQueue, faults, clears>>
  PROVE  Delivery!Next
<1> DEFINE t == Taken
<1>1. Tail(t) \in Seq(Sent(w))
  BY HeadTail
<1>2. /\ Held(t, w) = t /\ Held(Tail(t), w) = Tail(t)
      /\ \A v \in Via \ {w} : Held(t, v) = <<>> /\ Held(Tail(t), v) = <<>>
  BY <1>1, HeldIs
<1>3. \A v \in Via : Queued(v)' = Queued(v)
  BY DEF Queued
<1>4. t \in Seq(UserMessage) /\ Queued(w) \in Seq(UserMessage)
  BY <1>2, Waiting
<1>5. /\ Undelivered[w] = t \o Queued(w) /\ Undelivered'[w] = Tail(t) \o Queued(w)
      /\ \A v \in Via \ {w} : Undelivered'[v] = Undelivered[v]
  BY <1>2, <1>3, Waiting
<1>6. /\ Undelivered[w] # <<>> /\ Head(Undelivered[w]) = Head(t)
      /\ Tail(Undelivered[w]) = Tail(t) \o Queued(w)
  <2> DEFINE q == Queued(w)
  <2> HIDE DEF t, q
  <2>1. /\ t \o q # <<>> /\ Head(t \o q) = Head(t) /\ Tail(t \o q) = Tail(t) \o q
    <3>1. t \in Seq(UserMessage) /\ q \in Seq(UserMessage) /\ t # <<>>
      BY <1>4 DEF t, q
    <3>2. t \o q # <<>>
      BY <3>1, Parts
    <3>3. Head(t \o q) = Head(t)
      BY <3>1, Parts, Zenon
    <3>4. Tail(t \o q) = Tail(t) \o q
      BY <3>1, Parts
    <3> QED BY <3>2, <3>3, <3>4
  <2> QED BY <1>5, <2>1 DEF t, q
<1>7. Undelivered' = [Undelivered EXCEPT ![w] = Tail(Undelivered[w])]
  <2>1. /\ Undelivered = [v \in Via |-> Undelivered[v]]
        /\ Undelivered' = [v \in Via |-> Undelivered'[v]]
    BY DEF Undelivered
  <2> QED BY <1>5, <1>6, <2>1
<1>8. Delivery!Deliver(w)
  BY <1>6, <1>7 DEF Delivery!Deliver
<1> QED BY <1>8 DEF Delivery!Next

\* An answer joins the transcript and nothing else changes.
LEMMA AnswersJoin ==
  ASSUME TypeOK, NEW m \in Message, m \notin UserMessage, messages' = Append(messages, m),
         Undelivered' = Undelivered, UNCHANGED <<faults, clears>>
  PROVE  Delivery!Next
<1>1. /\ messages' # <<>> /\ Len(messages') = Len(messages) + 1 /\ Len(messages) \in Nat
      /\ messages'[Len(messages')] = m /\ SubSeq(messages', 1, Len(messages') - 1) = messages
  BY FrontOfAppend, AppendProperties DEF TypeOK, Front
<1>2. Delivery!Answer
  BY <1>1 DEF Delivery!Answer, Delivery!Front
<1> QED BY <1>2 DEF Delivery!Next

\* A loss is counted, and leaves of each channel what is held, or the queue, or all.
LEMMA Discards ==
  ASSUME TypeOK, HeldInv, faults' + clears' = faults + clears + 1,
         \A v \in Via : Undelivered'[v] \in {Undelivered[v], Held(Taken, v), Queued(v)},
         \/ messages' \in {messages, <<>>}
         \/ /\ messages # <<>> /\ LastMessage(messages) \notin UserMessage
            /\ messages' = Front(messages)
  PROVE  Delivery!Next
<1>1. ASSUME NEW v \in Via
      PROVE  \E i, j \in 0 .. Len(Undelivered[v]) + 1 :
               Undelivered'[v] = SubSeq(Undelivered[v], i + 1, j)
  <2> DEFINE p == Held(Taken, v)
             q == Queued(v)
  <2>1. /\ p \in Seq(UserMessage) /\ q \in Seq(UserMessage) /\ Undelivered[v] = p \o q
        /\ Undelivered'[v] \in {p \o q, p, q}
    BY Waiting
  <2> HIDE DEF p, q
  <2>2. /\ Len(p) \in Nat /\ Len(p \o q) \in Nat /\ Len(p) <= Len(p \o q)
        /\ SubSeq(p \o q, 1, Len(p)) = p
        /\ SubSeq(p \o q, Len(p) + 1, Len(p \o q)) = q
        /\ SubSeq(p \o q, 1, Len(p \o q)) = p \o q
    <3>1. p \in Seq(UserMessage) /\ q \in Seq(UserMessage)
      BY <2>1
    <3>2. Len(p) \in Nat /\ Len(p \o q) \in Nat /\ Len(p) <= Len(p \o q)
      BY <3>1, Parts
    <3>3. SubSeq(p \o q, 1, Len(p)) = p
      BY <3>1, Parts
    <3>4. SubSeq(p \o q, Len(p) + 1, Len(p \o q)) = q
      BY <3>1, Parts
    <3>5. SubSeq(p \o q, 1, Len(p \o q)) = p \o q
      BY <3>1, ConcatIn, SubSeqFull
    <3> QED BY <3>2, <3>3, <3>4, <3>5, Zenon
  <2> DEFINE r == p \o q
  <2>3. \E i, j \in 0 .. Len(r) + 1 : Undelivered'[v] = SubSeq(r, i + 1, j)
    <3> HIDE DEF r
    <3>1. /\ 0 \in 0 .. Len(r) + 1 /\ Len(p) \in 0 .. Len(r) + 1 /\ Len(r) \in 0 .. Len(r) + 1
          /\ 0 + 1 = 1
      BY <2>2 DEF r
    <3>2. CASE Undelivered'[v] = p \o q
      BY <2>2, <3>1, <3>2 DEF r
    <3>3. CASE Undelivered'[v] = p
      BY <2>2, <3>1, <3>3 DEF r
    <3>4. CASE Undelivered'[v] = q
      BY <2>2, <3>1, <3>4 DEF r
    <3> QED BY <2>1, <3>2, <3>3, <3>4
  <2> QED BY <2>1, <2>3
<1>2. Delivery!Discard
  BY <1>1 DEF Delivery!Discard, Delivery!Front, Front, LastMessage
<1> QED BY <1>2 DEF Delivery!Next

----------------------------------------------------------------------------
\* A run that starts when nothing is held changes no channel, or adds to one.
LEMMA StartRunHolds ==
  ASSUME NEW ms \in Seq(UserMessage), NEW sk, StartRun(ms, sk)
  PROVE  Taken' = ms /\ UNCHANGED <<messages, faults, clears>>
BY NoneAfter DEF StartRun, Taken

\* Between its runs, and when it polls, the loop holds nothing.
LEMMA NothingHeld ==
  ASSUME HeldInv, pc # "injected", pc # "prompts" \/ prompts = <<>>,
         pc \notin {"turn", "inject"} \/ pending = <<>>
  PROVE  Taken = <<>> /\ prompts = <<>> /\ pending = <<>>
<1>1. prompts = <<>> /\ pending = <<>> /\ pc # "injected"
  BY DEF HeldInv
<1>2. <<>> \o <<>> = <<>>
  OBVIOUS
<1> QED BY <1>1, <1>2 DEF Taken

\* Messages that go from a queue to the run, in order, stay in the channel.
LEMMA DrainKeeps ==
  ASSUME TypeOK, HeldInv, Taken = <<>>, NEW v \in {"steer", "followUp"}, NEW md,
         Taken' = Drained(Queued(v), md), Queued(v)' = Remaining(Queued(v), md),
         \A u \in Via \ {v} : Queued(u)' = Queued(u)
  PROVE  Undelivered' = Undelivered
<1> DEFINE q == Queued(v)
<1>1. v \in Via /\ q \in Seq(Sent(v)) /\ q \in Seq(UserMessage)
  BY Waiting DEF HeldInv, Via
<1>2. /\ Drained(q, md) \in Seq(Sent(v)) /\ Remaining(q, md) \in Seq(Sent(v))
      /\ Drained(q, md) \o Remaining(q, md) = q
  <2> HIDE DEF q
  <2> QED BY <1>1, DrainSplitsQueue
<1>3. \A u \in Via : Held(Taken', u) = IF u = v THEN Drained(q, md) ELSE <<>>
  BY <1>1, <1>2, HeldIs
<1>4. <<>> \o q = q
  BY <1>1, ConcatEmptySeq
<1>5. Undelivered'[v] = q /\ Undelivered[v] = q
  BY <1>1, <1>2, <1>3, <1>4, Waiting, HeldNone
<1>6. \A u \in Via \ {v} : Undelivered'[u] = Undelivered[u]
  BY <1>3, Waiting, HeldNone
<1> QED BY <1>5, <1>6, SameWaiting

\* Every step is one of MessageDelivery's, or changes nothing of it.
LEMMA DeliveryStep ==
  ASSUME TypeOK, HeldInv, [Next]_vars
  PROVE  [Delivery!Next]_Delivery!vars
<1> USE DEF loopVars, queueVars, bookVars
<1>v. "prompt" \in Via /\ "steer" \in Via /\ "followUp" \in Via
  BY DEF Via
<1>1. ASSUME NEW b \in Batches, Distinct(b), Prompt(b) PROVE Delivery!Next
  <2> DEFINE ms == [i \in 1 .. Len(b) |-> User(b[i], "prompt")]
  <2>1. ms \in Seq(Sent("prompt")) /\ ms \in Seq(UserMessage) /\ ms # <<>>
    BY BatchSent, BatchType, NoElements
  <2> HIDE DEF ms
  <2>2. /\ Taken' = ms /\ UNCHANGED <<messages, faults, clears, steeringQueue, followUpQueue>>
        /\ Taken = <<>>
    BY <1>1, <2>1, StartRunHolds, NothingHeld DEF Prompt, Idle, ms
  <2>3. /\ \A v \in Via : Held(Taken', v) = IF v = "prompt" THEN ms ELSE <<>>
        /\ \A v \in Via : Queued(v)' = Queued(v)
    BY <1>v, <2>1, <2>2, HeldIs DEF Queued
  <2>4. <<>> \o <<>> = <<>> /\ <<>> \o ms = ms /\ ms \o <<>> = ms
    BY <2>1, ConcatEmptySeq
  <2>5. Undelivered["prompt"] = <<>> /\ Undelivered'["prompt"] = ms
    BY <1>v, <2>2, <2>3, <2>4, Waiting, HeldNone
  <2>6. \A u \in Via \ {"prompt"} : Undelivered'[u] = Undelivered[u]
    BY <2>2, <2>3, Waiting, HeldNone
  <2> QED BY <1>v, <2>1, <2>2, <2>4, <2>5, <2>6, Accepts
<1>2. CASE ContinueFromSteering
  <2>1. Taken = <<>>
    BY <1>2, NothingHeld DEF ContinueFromSteering, Idle
  <2>2. /\ Taken' = Drained(steeringQueue, steeringMode)
        /\ UNCHANGED <<messages, faults, clears>>
    BY <1>2, StartRunHolds, Drains DEF ContinueFromSteering, TypeOK
  <2>3. \A u \in Via \ {"steer"} : Queued(u)' = Queued(u)
    BY <1>2 DEF ContinueFromSteering, Queued
  <2>4. Undelivered' = Undelivered
    BY <1>2, <2>1, <2>2, <2>3, DrainKeeps, Waiting DEF ContinueFromSteering
  <2> QED BY <2>2, <2>4, Stutter
<1>3. CASE ContinueFromFollowUp
  <2>1. Taken = <<>>
    BY <1>3, NothingHeld DEF ContinueFromFollowUp, Idle
  <2>2. /\ Taken' = Drained(followUpQueue, followUpMode)
        /\ UNCHANGED <<messages, faults, clears>>
    BY <1>3, StartRunHolds, Drains DEF ContinueFromFollowUp, TypeOK
  <2>3. \A u \in Via \ {"followUp"} : Queued(u)' = Queued(u)
    BY <1>3 DEF ContinueFromFollowUp, Queued
  <2>4. Undelivered' = Undelivered
    BY <1>3, <2>1, <2>2, <2>3, DrainKeeps, Waiting DEF ContinueFromFollowUp
  <2> QED BY <2>2, <2>4, Stutter
<1>4. CASE ContinueTranscript
  <2>1. Taken = <<>> /\ Taken' = <<>> /\ UNCHANGED <<messages, faults, clears>>
    BY <1>4, NothingHeld, StartRunHolds, NoneIn DEF ContinueTranscript, Idle
  <2> QED BY <1>4, <2>1, KeptWaiting, Stutter DEF ContinueTranscript
<1>5. ASSUME NEW m \in Msgs, NEW v \in {"steer", "followUp"},
             Queued(v)' = Append(Queued(v), User(m, v)),
             \A u \in Via \ {v} : Queued(u)' = Queued(u),
             Taken' = Taken, UNCHANGED <<messages, faults, clears>>
      PROVE  Delivery!Next
  <2> DEFINE x == User(m, v)
  <2>1. v \in Via /\ x \in UserMessage /\ <<x>> \in Seq(UserMessage) /\ <<x>> # <<>>
    BY UserType DEF Via
  <2>2. /\ Held(Taken, v) \in Seq(UserMessage) /\ Queued(v) \in Seq(UserMessage)
        /\ Undelivered[v] = Held(Taken, v) \o Queued(v)
        /\ Undelivered'[v] = Held(Taken, v) \o Append(Queued(v), x)
        /\ \A u \in Via \ {v} : Undelivered'[u] = Undelivered[u]
    BY <1>5, <2>1, Waiting
  <2> HIDE DEF x
  <2>3. Undelivered'[v] = Undelivered[v] \o <<x>>
    BY <2>1, <2>2, Joins
  <2> QED BY <1>5, <2>1, <2>2, <2>3, Accepts
<1>6. ASSUME NEW m \in Msgs, Steer(m) \/ FollowUp(m) PROVE Delivery!Next
  <2>1. Taken' = Taken /\ UNCHANGED <<messages, faults, clears>>
    BY <1>6 DEF Steer, FollowUp, Taken
  <2>2. CASE Steer(m)
    BY <1>5, <2>1, <2>2 DEF Steer, Queued
  <2>3. CASE FollowUp(m)
    BY <1>5, <2>1, <2>3 DEF FollowUp, Queued
  <2> QED BY <1>6, <2>2, <2>3
<1>7. CASE \/ \E s \in Modes, f \in Modes : SetModes(s, f)
           \/ Abort \/ StartTurn \/ Request \/ ResponseStart \/ StopOnError \/ StartTools
           \/ ToolStart \/ ToolImmediate \/ ToolPrepared \/ LaunchTools
           \/ FinalizeTool \/ ToolsDone \/ FinishRun
           \/ \E c \in executing : ToolSettles(c)
           \/ UNCHANGED vars
  <2>1. Taken' = Taken /\ UNCHANGED <<steeringQueue, followUpQueue, messages, faults, clears>>
    BY <1>7 DEF SetModes, Abort, StartTurn, Request, ResponseStart, StopOnError, StartTools,
         ToolStart, ToolImmediate, ToolPrepared, LaunchTools, FinalizeTool, ToolsDone, FinishRun,
         ToolSettles, vars, Taken
  <2> QED BY <2>1, KeptWaiting, Stutter
<1>8. CASE ClearSteeringQueue \/ ClearFollowUpQueue \/ Reset
  <2>1. /\ Taken' = Taken /\ faults' + clears' = faults + clears + 1
        /\ messages' \in {messages, <<>>}
    <3>1. Taken' = Taken
      BY <1>8 DEF ClearSteeringQueue, ClearFollowUpQueue, Reset, Taken
    <3>2. clears' = clears + 1 /\ faults' = faults /\ messages' \in {messages, <<>>}
      BY <1>8 DEF ClearSteeringQueue, ClearFollowUpQueue, Reset
    <3> QED BY <3>1, <3>2 DEF TypeOK
  <2>2. \A v \in Via : Queued(v)' \in {Queued(v), <<>>}
    BY <1>8 DEF ClearSteeringQueue, ClearFollowUpQueue, Reset, Queued
  <2>3. \A v \in Via : Held(Taken, v) \o <<>> = Held(Taken, v)
    BY Waiting, NoneAfter
  <2>4. \A v \in Via : Undelivered'[v] \in {Undelivered[v], Held(Taken, v), Queued(v)}
    BY <2>1, <2>2, <2>3, Waiting
  <2> QED BY <2>1, <2>4, Discards
<1>9. CASE DropErrorMessage
  <2>1. /\ Taken' = Taken /\ UNCHANGED <<steeringQueue, followUpQueue>>
        /\ faults' + clears' = faults + clears + 1
    BY <1>9 DEF DropErrorMessage, Taken, TypeOK
  <2>2. LastMessage(messages) \notin UserMessage
    BY <1>9 DEF DropErrorMessage, UserMessage
  <2> QED BY <1>9, <2>1, <2>2, KeptWaiting, Discards DEF DropErrorMessage
<1>10. CASE Throw
  <2>1. /\ Taken' = <<>> /\ faults' + clears' = faults + clears + 1
        /\ UNCHANGED <<messages, steeringQueue, followUpQueue>>
    <3>1. <<>> \o <<>> = <<>>
      OBVIOUS
    <3> QED BY <1>10, <3>1 DEF Throw, Taken, TypeOK
  <2>2. \A v \in Via : <<>> \o Queued(v) = Queued(v) /\ Queued(v)' = Queued(v)
    BY <2>1, Waiting, ConcatEmptySeq DEF Queued
  <2>3. \A v \in Via : Undelivered'[v] \in {Undelivered[v], Held(Taken, v), Queued(v)}
    BY <2>1, <2>2, Waiting, HeldNone
  <2> QED BY <2>1, <2>3, Discards
<1>11. CASE EmitPrompt
  <2>1. PICK w \in Via : prompts \in Seq(Sent(w))
    BY Waiting
  <2>2. /\ Taken = prompts /\ Taken' = Tail(prompts) /\ prompts # <<>>
    <3>1. Tail(prompts) \in Seq(Sent(w)) /\ pending = <<>> /\ pending' = <<>>
      BY <1>11, <2>1, HeadTail DEF EmitPrompt, HeldInv
    <3>2. prompts \o <<>> = prompts /\ Tail(prompts) \o <<>> = Tail(prompts)
      BY <2>1, <3>1, NoneAfter
    <3> QED BY <1>11, <3>1, <3>2 DEF EmitPrompt, Taken
  <2> QED BY <1>11, <2>1, <2>2, Delivers DEF EmitPrompt
<1>12. CASE InjectMessage
  <2>1. PICK w \in Via : pending \in Seq(Sent(w))
    BY Waiting
  <2>2. /\ Taken = pending /\ Taken' = Tail(pending) /\ pending # <<>>
    <3>1. Tail(pending) \in Seq(Sent(w)) /\ prompts = <<>> /\ prompts' = <<>>
      BY <1>12, <2>1, HeadTail DEF InjectMessage, HeldInv
    <3>2. <<>> \o pending = pending /\ <<>> \o Tail(pending) = Tail(pending)
      BY <2>1, <3>1, ConcatEmptySeq
    <3> QED BY <1>12, <3>1, <3>2 DEF InjectMessage, Taken
  <2> QED BY <1>12, <2>1, <2>2, Delivers DEF InjectMessage
<1>13. CASE PushInjected
  <2>1. Taken' = Taken /\ UNCHANGED <<steeringQueue, followUpQueue, messages, faults, clears>>
    BY <1>13 DEF PushInjected, Taken
  <2> QED BY <2>1, KeptWaiting, Stutter
<1>14. CASE InitialPoll \/ PollSteering
  <2>1. /\ prompts = <<>> /\ Taken = <<>> /\ prompts' = <<>> /\ TakeSteering /\ pc' = "turn"
        /\ UNCHANGED <<followUpQueue, messages, faults, clears>>
    BY <1>14, NothingHeld DEF InitialPoll, PollSteering, HeldInv
  <2>2. Taken' = pending'
    <3>1. pending' \in Seq(UserMessage)
      BY <2>1, Drains, NoneIn DEF TakeSteering, TypeOK
    <3>2. <<>> \o pending' = pending'
      BY <3>1, ConcatEmptySeq
    <3> QED BY <2>1, <3>2 DEF Taken
  <2>3. CASE skipPoll
    BY <2>1, <2>2, <2>3, KeptWaiting, Stutter DEF TakeSteering
  <2>4. CASE ~skipPoll
    <3>1. \A u \in Via \ {"steer"} : Queued(u)' = Queued(u)
      BY <2>1 DEF Queued
    <3>2. Undelivered' = Undelivered
      BY <2>1, <2>2, <2>4, <3>1, DrainKeeps, Waiting DEF TakeSteering
    <3> QED BY <2>1, <3>2, Stutter
  <2> QED BY <2>3, <2>4
<1>15. CASE PollFollowUp
  <2>1. /\ prompts = <<>> /\ Taken = <<>> /\ prompts' = <<>> /\ pc' # "injected"
        /\ UNCHANGED <<steeringQueue, messages, faults, clears>>
        /\ pending' = Drained(followUpQueue, followUpMode)
        /\ followUpQueue' = Remaining(followUpQueue, followUpMode)
    BY <1>15, NothingHeld DEF PollFollowUp, HeldInv
  <2>2. Taken' = pending'
    <3>1. pending' \in Seq(UserMessage)
      BY <2>1, Drains DEF TypeOK
    <3>2. <<>> \o pending' = pending'
      BY <3>1, ConcatEmptySeq
    <3> QED BY <2>1, <3>2 DEF Taken
  <2>3. \A u \in Via \ {"followUp"} : Queued(u)' = Queued(u)
    BY <2>1 DEF Queued
  <2>4. Undelivered' = Undelivered
    BY <2>1, <2>2, <2>3, DrainKeeps, Waiting
  <2> QED BY <2>1, <2>4, Stutter
<1>16. CASE \/ \E s \in {"stop", "error", "aborted"}, n \in 0 .. MaxCalls : ResponseEnd(s, n)
            \/ ToolOutcome \/ HandleRunFailure
  <2>1. PICK m \in Message : m \notin UserMessage /\ messages' = Append(messages, m)
    <3>1. CASE \E s \in {"stop", "error", "aborted"}, n \in 0 .. MaxCalls : ResponseEnd(s, n)
      <4>1. PICK s \in {"stop", "error", "aborted"}, n \in 0 .. MaxCalls : ResponseEnd(s, n)
        BY <3>1
      <4>2. Assistant(turns + 1, s, n) \in Message
        <5>1. turns + 1 \in Nat /\ n \in Nat /\ s \in Stops
          BY <4>1, AgentAssumption DEF AgentAssumption, TypeOK, Stops
        <5> QED BY <5>1, AssistantType
      <4>3. Assistant(turns + 1, s, n) \notin UserMessage
        BY DEF Assistant, UserMessage
      <4> QED BY <4>1, <4>2, <4>3 DEF ResponseEnd
    <3>2. CASE ToolOutcome
      <4>1. ToolResult(cur) \in Message
        BY ToolResultType, Widening DEF TypeOK
      <4>2. ToolResult(cur) \notin UserMessage
        BY DEF ToolResult, UserMessage
      <4> QED BY <3>2, <4>1, <4>2 DEF ToolOutcome
    <3>3. CASE HandleRunFailure
      <4>1. Assistant(0, "failure", 0) \in Message
        BY AssistantType DEF Stops
      <4>2. Assistant(0, "failure", 0) \notin UserMessage
        BY DEF Assistant, UserMessage
      <4> QED BY <3>3, <4>1, <4>2 DEF HandleRunFailure
    <3> QED BY <1>16, <3>1, <3>2, <3>3
  <2>2. Taken' = Taken /\ UNCHANGED <<steeringQueue, followUpQueue, faults, clears>>
    BY <1>16 DEF ResponseEnd, ToolOutcome, HandleRunFailure, Taken
  <2> QED BY <2>1, <2>2, KeptWaiting, AnswersJoin
<1> QED BY <1>1, <1>2, <1>3, <1>4, <1>6, <1>7, <1>8, <1>9, <1>10, <1>11, <1>12, <1>13,
           <1>14, <1>15, <1>16 DEF Next, Caller, Loop, Continue

\* At the start nothing waits and nothing has been said.
LEMMA DeliveryInit == Init => Delivery!Init
<1>1. <<>> \o <<>> = <<>>
  OBVIOUS
<1> QED BY <1>1, HeldNone DEF Init, Delivery!Init, Undelivered, Taken, Queued

\* The agent implements MessageDelivery (Agent, agent.ts; runLoop, agent-loop.ts): whatever
\* is prompted, steered or followed up enters the conversation in the order of its channel
\* and at most once, whichever queue modes are set and whenever they are polled, and is lost
\* only with a clear, a reset or a run that a rejection breaks off.
THEOREM DeliveryTheorem == Spec => DeliverySpec
<1>1. TypeOK /\ HeldInv /\ [Next]_vars => [Delivery!Next]_Delivery!vars
  BY DeliveryStep
<1>2. Spec => []HeldInv
  BY TypeCorrect, HeldInit, HeldStep, PTL DEF Spec
<1> QED BY <1>1, <1>2, TypeCorrect, DeliveryInit, PTL DEF Spec, DeliverySpec, Delivery!Spec
=============================================================================

------------------------- MODULE AgentScenarioProofs -------------------------
(***************************************************************************)
(* Theorems about the small instances of Agent, for any messages: what is  *)
(* proved of an Agent is taken from AgentProofs by INSTANCE, with the      *)
(* substitutions of the instance.                                          *)
(***************************************************************************)
EXTENDS MCAgentScenarios, TLAPS

TurnsP == INSTANCE AgentProofs WITH
  Msgs <- QueueMsgs, Modes <- OneAtATime, ToolExecution <- "sequential",
  MaxBatch <- 1, MaxCalls <- 1, MaxToolTurns <- 1, MaxClears <- 0

\* The instance that takes turns moves as an Agent does.
LEMMA TurnsMove == Turns!Next => TurnsP!Next
<1>1. ASSUME NEW batch PROVE Turns!Prompt(batch) <=> TurnsP!Prompt(batch)
  BY DEF Turns!Prompt, TurnsP!Prompt, Turns!User, TurnsP!User, Turns!InSeq, TurnsP!InSeq,
         Turns!Idle, TurnsP!Idle, Turns!StartRun, TurnsP!StartRun, Turns!toolVars, TurnsP!toolVars,
         Turns!queueVars, TurnsP!queueVars
<1>2. Turns!ContinueFromSteering <=> TurnsP!ContinueFromSteering
  BY DEF Turns!ContinueFromSteering, TurnsP!ContinueFromSteering, Turns!LastMessage,
         TurnsP!LastMessage, Turns!Drained, TurnsP!Drained, Turns!Remaining, TurnsP!Remaining,
         Turns!Idle, TurnsP!Idle, Turns!StartRun, TurnsP!StartRun, Turns!toolVars, TurnsP!toolVars
<1>3. Turns!ContinueFromFollowUp <=> TurnsP!ContinueFromFollowUp
  BY DEF Turns!ContinueFromFollowUp, TurnsP!ContinueFromFollowUp, Turns!LastMessage,
         TurnsP!LastMessage, Turns!Drained, TurnsP!Drained, Turns!Remaining, TurnsP!Remaining,
         Turns!Idle, TurnsP!Idle, Turns!StartRun, TurnsP!StartRun, Turns!toolVars, TurnsP!toolVars
<1>4. Turns!ContinueTranscript <=> TurnsP!ContinueTranscript
  BY DEF Turns!ContinueTranscript, TurnsP!ContinueTranscript, Turns!LastMessage,
         TurnsP!LastMessage, Turns!Idle, TurnsP!Idle, Turns!StartRun, TurnsP!StartRun,
         Turns!toolVars, TurnsP!toolVars, Turns!queueVars, TurnsP!queueVars
<1>5. ASSUME NEW m PROVE Turns!Steer(m) <=> TurnsP!Steer(m)
  BY DEF Turns!Steer, TurnsP!Steer, Turns!User, TurnsP!User, Turns!loopVars, TurnsP!loopVars,
         Turns!toolVars, TurnsP!toolVars
<1>6. ASSUME NEW m PROVE Turns!FollowUp(m) <=> TurnsP!FollowUp(m)
  BY DEF Turns!FollowUp, TurnsP!FollowUp, Turns!User, TurnsP!User, Turns!loopVars, TurnsP!loopVars,
         Turns!toolVars, TurnsP!toolVars
<1>7. ASSUME NEW s, NEW f PROVE Turns!SetModes(s, f) <=> TurnsP!SetModes(s, f)
  BY DEF Turns!SetModes, TurnsP!SetModes, Turns!loopVars, TurnsP!loopVars, Turns!toolVars,
         TurnsP!toolVars, Turns!bookVars, TurnsP!bookVars
<1>8. Turns!ClearSteeringQueue <=> TurnsP!ClearSteeringQueue
  BY DEF Turns!ClearSteeringQueue, TurnsP!ClearSteeringQueue, Turns!loopVars, TurnsP!loopVars,
         Turns!toolVars, TurnsP!toolVars
<1>9. Turns!ClearFollowUpQueue <=> TurnsP!ClearFollowUpQueue
  BY DEF Turns!ClearFollowUpQueue, TurnsP!ClearFollowUpQueue, Turns!loopVars, TurnsP!loopVars,
         Turns!toolVars, TurnsP!toolVars
<1>10. Turns!Reset <=> TurnsP!Reset
  BY DEF Turns!Reset, TurnsP!Reset, Turns!Idle, TurnsP!Idle, Turns!loopVars, TurnsP!loopVars,
         Turns!toolVars, TurnsP!toolVars
<1>11. Turns!DropErrorMessage <=> TurnsP!DropErrorMessage
  BY DEF Turns!DropErrorMessage, TurnsP!DropErrorMessage, Turns!LastMessage, TurnsP!LastMessage,
         Turns!Front, TurnsP!Front, Turns!Idle, TurnsP!Idle, Turns!loopVars, TurnsP!loopVars,
         Turns!toolVars, TurnsP!toolVars, Turns!queueVars, TurnsP!queueVars
<1>12. Turns!Abort <=> TurnsP!Abort
  BY DEF Turns!Abort, TurnsP!Abort, Turns!Idle, TurnsP!Idle, Turns!loopVars, TurnsP!loopVars,
         Turns!toolVars, TurnsP!toolVars, Turns!queueVars, TurnsP!queueVars, Turns!bookVars,
         TurnsP!bookVars
<1>13. Turns!EmitPrompt <=> TurnsP!EmitPrompt
  BY DEF Turns!EmitPrompt, TurnsP!EmitPrompt, Turns!toolVars, TurnsP!toolVars, Turns!queueVars,
         TurnsP!queueVars, Turns!bookVars, TurnsP!bookVars
<1>14. Turns!InitialPoll <=> TurnsP!InitialPoll
  BY DEF Turns!InitialPoll, TurnsP!InitialPoll, Turns!TakeSteering, TurnsP!TakeSteering,
         Turns!Drained, TurnsP!Drained, Turns!Remaining, TurnsP!Remaining, Turns!toolVars,
         TurnsP!toolVars, Turns!bookVars, TurnsP!bookVars
<1>15. Turns!StartTurn <=> TurnsP!StartTurn
  BY DEF Turns!StartTurn, TurnsP!StartTurn, Turns!toolVars, TurnsP!toolVars, Turns!queueVars,
         TurnsP!queueVars, Turns!bookVars, TurnsP!bookVars
<1>16. Turns!InjectMessage <=> TurnsP!InjectMessage
  BY DEF Turns!InjectMessage, TurnsP!InjectMessage, Turns!toolVars, TurnsP!toolVars,
         Turns!queueVars, TurnsP!queueVars, Turns!bookVars, TurnsP!bookVars
<1>17. Turns!PushInjected <=> TurnsP!PushInjected
  BY DEF Turns!PushInjected, TurnsP!PushInjected, Turns!toolVars, TurnsP!toolVars, Turns!queueVars,
         TurnsP!queueVars, Turns!bookVars, TurnsP!bookVars
<1>18. Turns!Request <=> TurnsP!Request
  BY DEF Turns!Request, TurnsP!Request, Turns!toolVars, TurnsP!toolVars, Turns!queueVars,
         TurnsP!queueVars, Turns!bookVars, TurnsP!bookVars
<1>19. Turns!ResponseStart <=> TurnsP!ResponseStart
  BY DEF Turns!ResponseStart, TurnsP!ResponseStart, Turns!Assistant, TurnsP!Assistant,
         Turns!toolVars, TurnsP!toolVars, Turns!queueVars, TurnsP!queueVars, Turns!bookVars,
         TurnsP!bookVars
<1>20. ASSUME NEW stop, NEW n PROVE Turns!ResponseEnd(stop, n) <=> TurnsP!ResponseEnd(stop, n)
  BY DEF Turns!ResponseEnd, TurnsP!ResponseEnd, Turns!Assistant, TurnsP!Assistant, Turns!Front,
         TurnsP!Front, Turns!queueVars, TurnsP!queueVars
<1>21. Turns!StopOnError <=> TurnsP!StopOnError
  BY DEF Turns!StopOnError, TurnsP!StopOnError, Turns!LastMessage, TurnsP!LastMessage,
         Turns!toolVars, TurnsP!toolVars, Turns!queueVars, TurnsP!queueVars, Turns!bookVars,
         TurnsP!bookVars
<1>22. Turns!StartTools <=> TurnsP!StartTools
  BY DEF Turns!StartTools, TurnsP!StartTools, Turns!LastMessage, TurnsP!LastMessage,
         Turns!queueVars, TurnsP!queueVars, Turns!bookVars, TurnsP!bookVars
<1>23. Turns!PollSteering <=> TurnsP!PollSteering
  BY DEF Turns!PollSteering, TurnsP!PollSteering, Turns!TakeSteering, TurnsP!TakeSteering,
         Turns!Drained, TurnsP!Drained, Turns!Remaining, TurnsP!Remaining, Turns!toolVars,
         TurnsP!toolVars, Turns!bookVars, TurnsP!bookVars
<1>24. Turns!PollFollowUp <=> TurnsP!PollFollowUp
  BY DEF Turns!PollFollowUp, TurnsP!PollFollowUp, Turns!Drained, TurnsP!Drained, Turns!Remaining,
         TurnsP!Remaining, Turns!toolVars, TurnsP!toolVars, Turns!bookVars, TurnsP!bookVars
<1>25. Turns!ToolStart <=> TurnsP!ToolStart
  BY DEF Turns!ToolStart, TurnsP!ToolStart, Turns!queueVars, TurnsP!queueVars, Turns!bookVars,
         TurnsP!bookVars
<1>26. Turns!ToolImmediate <=> TurnsP!ToolImmediate
  BY DEF Turns!ToolImmediate, TurnsP!ToolImmediate, Turns!toolVars, TurnsP!toolVars,
         Turns!queueVars, TurnsP!queueVars, Turns!bookVars, TurnsP!bookVars
<1>27. Turns!ToolPrepared <=> TurnsP!ToolPrepared
  BY DEF Turns!ToolPrepared, TurnsP!ToolPrepared, Turns!queueVars, TurnsP!queueVars,
         Turns!bookVars, TurnsP!bookVars
<1>28. Turns!LaunchTools <=> TurnsP!LaunchTools
  BY DEF Turns!LaunchTools, TurnsP!LaunchTools, Turns!InSeq, TurnsP!InSeq, Turns!queueVars,
         TurnsP!queueVars, Turns!bookVars, TurnsP!bookVars
<1>29. ASSUME NEW c PROVE Turns!ToolSettles(c) <=> TurnsP!ToolSettles(c)
  BY DEF Turns!ToolSettles, TurnsP!ToolSettles, Turns!loopVars, TurnsP!loopVars, Turns!queueVars,
         TurnsP!queueVars, Turns!bookVars, TurnsP!bookVars
<1>30. Turns!FinalizeTool <=> TurnsP!FinalizeTool
  BY DEF Turns!FinalizeTool, TurnsP!FinalizeTool, Turns!WaitingForTool, TurnsP!WaitingForTool,
         Turns!queueVars, TurnsP!queueVars, Turns!bookVars, TurnsP!bookVars
<1>31. Turns!ToolOutcome <=> TurnsP!ToolOutcome
  BY DEF Turns!ToolOutcome, TurnsP!ToolOutcome, Turns!ToolResult, TurnsP!ToolResult,
         Turns!queueVars, TurnsP!queueVars, Turns!bookVars, TurnsP!bookVars
<1>32. Turns!ToolsDone <=> TurnsP!ToolsDone
  BY DEF Turns!ToolsDone, TurnsP!ToolsDone, Turns!toolVars, TurnsP!toolVars, Turns!queueVars,
         TurnsP!queueVars, Turns!bookVars, TurnsP!bookVars
<1>33. Turns!Throw <=> TurnsP!Throw
  BY DEF Turns!Throw, TurnsP!Throw, Turns!WaitingForTool, TurnsP!WaitingForTool, Turns!toolVars,
         TurnsP!toolVars, Turns!queueVars, TurnsP!queueVars
<1>34. Turns!HandleRunFailure <=> TurnsP!HandleRunFailure
  BY DEF Turns!HandleRunFailure, TurnsP!HandleRunFailure, Turns!Assistant, TurnsP!Assistant,
         Turns!toolVars, TurnsP!toolVars, Turns!queueVars, TurnsP!queueVars, Turns!bookVars,
         TurnsP!bookVars
<1>35. Turns!FinishRun <=> TurnsP!FinishRun
  BY DEF Turns!FinishRun, TurnsP!FinishRun, Turns!NoCall, TurnsP!NoCall, Turns!queueVars,
         TurnsP!queueVars, Turns!bookVars, TurnsP!bookVars
<1> QED
  BY <1>1, <1>2, <1>3, <1>4, <1>5, <1>6, <1>7, <1>8, <1>9, <1>10, <1>11, <1>12, <1>13, <1>14,
     <1>15, <1>16, <1>17, <1>18, <1>19, <1>20, <1>21, <1>22, <1>23, <1>24, <1>25, <1>26, <1>27,
     <1>28, <1>29, <1>30, <1>31, <1>32, <1>33, <1>34, <1>35
     DEF Turns!Next, TurnsP!Next, Turns!Caller, TurnsP!Caller, Turns!Loop, TurnsP!Loop,
         Turns!Continue,
         TurnsP!Continue, Turns!Batches, TurnsP!Batches, Turns!Distinct, TurnsP!Distinct

\* And it starts as one; whatever the instance, it stays the same.
LEMMA TurnsAreTheAgents ==
  /\ ScenarioSpec /\ scenario # "turns" => [](scenario # "turns")
  /\ ScenarioSpec /\ scenario = "turns" => TurnsP!Spec
<1>1. ScenarioInit /\ scenario = "turns" => TurnsP!Init
  BY DEF ScenarioInit, Turns!Init, TurnsP!Init, Turns!NoCall, TurnsP!NoCall
<1>2. scenario = "turns" /\ [ScenarioNext]_<<vars, scenario>> =>
        [TurnsP!Next]_(TurnsP!vars) /\ (scenario = "turns")'
  <2>1. UNCHANGED vars => UNCHANGED TurnsP!vars
    BY DEF vars, TurnsP!vars, loopVars, TurnsP!loopVars, toolVars, TurnsP!toolVars, queueVars,
           TurnsP!queueVars, bookVars, TurnsP!bookVars
  <2> QED BY <2>1, TurnsMove DEF ScenarioNext
<1>3. scenario # "turns" /\ [ScenarioNext]_<<vars, scenario>> => (scenario # "turns")'
  BY DEF ScenarioNext
<1>4. ScenarioSpec /\ scenario # "turns" => [](scenario # "turns")
  BY <1>3, PTL DEF ScenarioSpec
<1>5. ScenarioSpec /\ scenario = "turns" => TurnsP!Spec
  BY <1>1, <1>2, PTL DEF ScenarioSpec, TurnsP!Spec
<1> QED BY <1>4, <1>5

\* Nobody clears a queue.
LEMMA NothingCleared == TurnsP!Spec => [](clears = 0)
<1>1. ASSUME clears = 0, [TurnsP!Next]_(TurnsP!vars) PROVE clears' = 0
  <2> USE <1>1 DEF TurnsP!bookVars
  <2>1. CASE TurnsP!Caller
    <3>1. ASSUME NEW b, TurnsP!Prompt(b) PROVE clears' = 0
      BY <3>1 DEF TurnsP!Prompt, TurnsP!StartRun
    <3>2. ASSUME NEW m, TurnsP!Steer(m) \/ TurnsP!FollowUp(m) PROVE clears' = 0
      BY <3>2 DEF TurnsP!Steer, TurnsP!FollowUp
    <3>3. ASSUME NEW s, NEW f, TurnsP!SetModes(s, f) PROVE clears' = 0
      BY <3>3 DEF TurnsP!SetModes
    <3>4. CASE TurnsP!Continue
      BY <3>4 DEF TurnsP!Continue, TurnsP!ContinueFromSteering, TurnsP!ContinueFromFollowUp,
                  TurnsP!ContinueTranscript, TurnsP!StartRun
    <3>5. CASE \/ TurnsP!ClearSteeringQueue \/ TurnsP!ClearFollowUpQueue \/ TurnsP!Reset
               \/ TurnsP!DropErrorMessage \/ TurnsP!Abort
      BY <3>5 DEF TurnsP!ClearSteeringQueue, TurnsP!ClearFollowUpQueue, TurnsP!Reset,
                  TurnsP!DropErrorMessage, TurnsP!Abort
    <3> QED BY <2>1, <3>1, <3>2, <3>3, <3>4, <3>5 DEF TurnsP!Caller
  <2>2. CASE TurnsP!Loop
    <3>1. ASSUME NEW s, NEW n, TurnsP!ResponseEnd(s, n) PROVE clears' = 0
      BY <3>1 DEF TurnsP!ResponseEnd
    <3>2. CASE \/ TurnsP!EmitPrompt \/ TurnsP!InitialPoll \/ TurnsP!StartTurn
               \/ TurnsP!InjectMessage \/ TurnsP!PushInjected \/ TurnsP!Request
               \/ TurnsP!StopOnError \/ TurnsP!StartTools \/ TurnsP!PollSteering
               \/ TurnsP!PollFollowUp
      BY <3>2 DEF TurnsP!EmitPrompt, TurnsP!InitialPoll, TurnsP!StartTurn, TurnsP!InjectMessage,
                  TurnsP!PushInjected, TurnsP!Request, TurnsP!StopOnError, TurnsP!StartTools,
                  TurnsP!PollSteering, TurnsP!PollFollowUp
    <3>3. CASE \/ TurnsP!ToolStart \/ TurnsP!ToolImmediate \/ TurnsP!ToolPrepared
               \/ TurnsP!LaunchTools \/ TurnsP!FinalizeTool \/ TurnsP!ToolOutcome
               \/ TurnsP!ToolsDone \/ TurnsP!HandleRunFailure \/ TurnsP!FinishRun
      BY <3>3 DEF TurnsP!ToolStart, TurnsP!ToolImmediate, TurnsP!ToolPrepared, TurnsP!LaunchTools,
                  TurnsP!FinalizeTool, TurnsP!ToolOutcome, TurnsP!ToolsDone,
                  TurnsP!HandleRunFailure, TurnsP!FinishRun
    <3> QED BY <2>2, <3>1, <3>2, <3>3 DEF TurnsP!Loop
  <2>3. CASE TurnsP!ResponseStart \/ TurnsP!Throw \/ UNCHANGED TurnsP!vars
    BY <2>3 DEF TurnsP!ResponseStart, TurnsP!Throw, TurnsP!vars
  <2>4. ASSUME NEW c, TurnsP!ToolSettles(c) PROVE clears' = 0
    BY <2>4 DEF TurnsP!ToolSettles
  <2> QED BY <2>1, <2>2, <2>3, <2>4 DEF TurnsP!Next
<1>2. clears = 0 /\ [TurnsP!Next]_(TurnsP!vars) => (clears = 0)'
  BY <1>1
<1>3. TurnsP!Init => clears = 0
  BY DEF TurnsP!Init
<1> QED BY <1>2, <1>3, PTL DEF TurnsP!Spec

\* What is set to go one at a time does, for any messages and any number of rejections:
\* NothingOverlaps.
THEOREM ScenarioTheorem == ScenarioSpec => []NothingOverlaps
<1>0. TurnsP!AgentAssumption
  BY AgentAssumption DEF AgentAssumption, TurnsP!AgentAssumption, OneAtATime
<1>1. TurnsP!Spec => [](clears = 0 => TurnsP!OneSteeringPerRequest)
  BY <1>0, TurnsP!SteeringTheorem DEF OneAtATime
<1>2. TurnsP!Spec => []TurnsP!ToolsSettledWhenIdle
  BY <1>0, TurnsP!SequentialTheorem DEF OneAtATime
<1>3. (clears = 0 => TurnsP!OneSteeringPerRequest) /\ clears = 0 /\ TurnsP!ToolsSettledWhenIdle
        => NothingOverlaps
  BY DEF NothingOverlaps, Turns!OneSteeringPerRequest, TurnsP!OneSteeringPerRequest,
         ToolsSettledWhenIdle, TurnsP!ToolsSettledWhenIdle, Idle, TurnsP!Idle
<1>4. scenario # "turns" => NothingOverlaps
  BY DEF NothingOverlaps
<1>5. TurnsP!Spec => []NothingOverlaps
  BY <1>1, <1>2, <1>3, NothingCleared, PTL
<1>6. [](scenario # "turns") => []NothingOverlaps
  BY <1>4, PTL
<1> QED BY <1>5, <1>6, TurnsAreTheAgents
=============================================================================

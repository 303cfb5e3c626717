------------------------------- MODULE Agent -------------------------------
(***************************************************************************)
(* The Agent class (packages/agent/src/agent.ts) and the loop it runs      *)
(* (packages/agent/src/agent-loop.ts).                                     *)
(*                                                                         *)
(* The loop is one asynchronous function; "pc" names the await at which it *)
(* is suspended.  Between two awaits the caller may prompt, continue,      *)
(* steer, follow up, clear the queues, reset or abort, and running tools   *)
(* finish.  A loop action does what the code does from one await to the    *)
(* next.  Throw is the rejection of the awaited hook, stream function or   *)
(* listener; it unwinds the loop into handleRunFailure.                    *)
(*                                                                         *)
(* Message text is abstracted to an identity; an assistant message keeps   *)
(* its stop reason and the number of its tool calls.                       *)
(***************************************************************************)
EXTENDS Integers, Sequences, FiniteSets

CONSTANTS
  Msgs,          \* user messages; each is submitted at most once
  Modes,         \* queue modes a caller selects, {"all", "one-at-a-time"}
  ToolExecution, \* "sequential" or "parallel"
  MaxBatch,      \* messages in one prompt() call
  MaxCalls,      \* tool calls in one assistant message
  MaxToolTurns,  \* bound: assistant messages with tool calls
  MaxFaults,     \* bound: rejections of hooks, streams and listeners
  MaxClears      \* bound: clear and reset calls, assignments of state.messages

ASSUME AgentAssumption ==
  /\ Modes \subseteq {"all", "one-at-a-time"} /\ Modes # {}
  /\ ToolExecution \in {"sequential", "parallel"}
  /\ MaxBatch \in Nat /\ MaxCalls \in Nat /\ MaxToolTurns \in Nat
  /\ MaxFaults \in Nat /\ MaxClears \in Nat

VARIABLES
  \* Agent
  messages,         \* _state.messages
  steeringQueue, steeringMode, followUpQueue, followUpMode,
  aborted,          \* activeRun.abortController.signal.aborted
  pendingToolCalls, \* _state.pendingToolCalls
  \* runLoop
  pc,
  context,          \* currentContext.messages
  prompts,          \* prompts of runAgentLoop not yet emitted
  pending,          \* pendingMessages not yet injected
  skipPoll,         \* skipInitialSteeringPoll
  hasMoreToolCalls,
  \* executeToolCalls
  calls,            \* tool calls of the current assistant message
  prep,             \* index of the next call to prepare
  runnable,         \* prepared calls not yet finalized, in source order
  executing,        \* calls whose tool.execute has not settled
  cur,              \* call whose outcome is being emitted
  results,          \* toolResults
  \* bookkeeping
  submitted,        \* messages handed to the agent so far
  turns,            \* assistant messages so far: identifies them
  toolTurns, faults, clears,
  wasReset          \* the transcript was reset or assigned during the current run

loopVars  == <<pc, context, prompts, pending, skipPoll, hasMoreToolCalls>>
toolVars  == <<calls, prep, runnable, executing, cur, results>>
queueVars == <<steeringQueue, steeringMode, followUpQueue, followUpMode>>
bookVars  == <<submitted, turns, toolTurns, faults, clears, wasReset>>
vars == <<messages, aborted, pendingToolCalls, loopVars, toolVars, queueVars, bookVars>>

----------------------------------------------------------------------------
(* Messages *)

Via == {"prompt", "steer", "followUp"}
User(m, v) == [role |-> "user", id |-> m, via |-> v]
Assistant(n, s, k) == [role |-> "assistant", id |-> n, stop |-> s, calls |-> k]
ToolResult(c) == [role |-> "toolResult", call |-> c]

Stops == {"partial", "stop", "error", "aborted", "failure"}
CallId == Nat \X Nat
NoCall == <<0, 0>>
UserMessage == [role : {"user"}, id : Msgs, via : Via]
AssistantMessage == [role : {"assistant"}, id : Nat, stop : Stops, calls : Nat]
ToolResultMessage == [role : {"toolResult"}, call : CallId]
Message == UserMessage \cup AssistantMessage \cup ToolResultMessage

LastMessage(s) == s[Len(s)]
Front(s) == SubSeq(s, 1, Len(s) - 1)
InSeq(s) == {s[i] : i \in 1 .. Len(s)}

\* PendingMessageQueue.drain: what it returns, and what stays queued.
Drained(queue, mode) ==
  IF mode = "all" \/ queue = <<>> THEN queue ELSE <<Head(queue)>>

\* Seeded fault: one-at-a-time throws away what it does not return.
RemainingDropsRest(queue, mode) == <<>>

Remaining(queue, mode) ==
  IF mode = "all" \/ queue = <<>> THEN <<>> ELSE Tail(queue)

----------------------------------------------------------------------------
Idle == pc = "idle"

Init ==
  /\ messages = <<>>
  /\ steeringQueue = <<>> /\ followUpQueue = <<>>
  /\ steeringMode \in Modes /\ followUpMode \in Modes
  /\ aborted = FALSE /\ pendingToolCalls = {}
  /\ pc = "idle" /\ context = <<>> /\ prompts = <<>> /\ pending = <<>>
  /\ skipPoll = FALSE /\ hasMoreToolCalls = FALSE
  /\ calls = 0 /\ prep = 1 /\ runnable = <<>> /\ executing = {}
  /\ cur = NoCall /\ results = <<>>
  /\ submitted = {} /\ turns = 0 /\ toolTurns = 0 /\ faults = 0 /\ clears = 0
  /\ wasReset = FALSE

----------------------------------------------------------------------------
(* The caller *)

\* runWithLifecycle up to the first await of runAgentLoop: the context is a
\* snapshot of the transcript followed by the prompts.
StartRun(msgs, skip) ==
  /\ pc' = "prompts"
  /\ context' = messages \o msgs
  /\ prompts' = msgs
  /\ pending' = <<>>
  /\ skipPoll' = skip
  /\ hasMoreToolCalls' = TRUE
  /\ aborted' = FALSE
  /\ wasReset' = FALSE
  /\ UNCHANGED <<messages, pendingToolCalls, toolVars, turns, toolTurns, faults, clears>>

\* prompt(): rejected while a run is active.
Prompt(batch) ==
  /\ Idle
  /\ InSeq(batch) \cap submitted = {}
  /\ submitted' = submitted \cup InSeq(batch)
  /\ StartRun([i \in 1 .. Len(batch) |-> User(batch[i], "prompt")], FALSE)
  /\ UNCHANGED queueVars

\* continue() after an assistant message: the queued messages are the prompts.
\* Seeded fault: the initial steering poll is not skipped.
ContinueFromSteeringPolls ==
  /\ Idle
  /\ messages # <<>> /\ LastMessage(messages).role = "assistant"
  /\ steeringQueue # <<>>
  /\ steeringQueue' = Remaining(steeringQueue, steeringMode)
  /\ StartRun(Drained(steeringQueue, steeringMode), FALSE)
  /\ UNCHANGED <<steeringMode, followUpQueue, followUpMode, submitted>>

ContinueFromSteering ==
  /\ Idle
  /\ messages # <<>> /\ LastMessage(messages).role = "assistant"
  /\ steeringQueue # <<>>
  /\ steeringQueue' = Remaining(steeringQueue, steeringMode)
  /\ StartRun(Drained(steeringQueue, steeringMode), TRUE)
  /\ UNCHANGED <<steeringMode, followUpQueue, followUpMode, submitted>>

ContinueFromFollowUp ==
  /\ Idle
  /\ messages # <<>> /\ LastMessage(messages).role = "assistant"
  /\ steeringQueue = <<>> /\ followUpQueue # <<>>
  /\ followUpQueue' = Remaining(followUpQueue, followUpMode)
  /\ StartRun(Drained(followUpQueue, followUpMode), FALSE)
  /\ UNCHANGED <<steeringMode, steeringQueue, followUpMode, submitted>>

\* continue() after a user message or a tool result: runContinuation.
ContinueTranscript ==
  /\ Idle
  /\ messages # <<>> /\ LastMessage(messages).role # "assistant"
  /\ StartRun(<<>>, FALSE)
  /\ UNCHANGED <<queueVars, submitted>>

Continue == ContinueFromSteering \/ ContinueFromFollowUp \/ ContinueTranscript

Steer(m) ==
  /\ m \notin submitted
  /\ submitted' = submitted \cup {m}
  /\ steeringQueue' = Append(steeringQueue, User(m, "steer"))
  /\ UNCHANGED <<messages, aborted, pendingToolCalls, loopVars, toolVars,
                 steeringMode, followUpQueue, followUpMode,
                 turns, toolTurns, faults, clears, wasReset>>

FollowUp(m) ==
  /\ m \notin submitted
  /\ submitted' = submitted \cup {m}
  /\ followUpQueue' = Append(followUpQueue, User(m, "followUp"))
  /\ UNCHANGED <<messages, aborted, pendingToolCalls, loopVars, toolVars,
                 steeringMode, steeringQueue, followUpMode,
                 turns, toolTurns, faults, clears, wasReset>>

SetModes(s, f) ==
  /\ <<s, f>> # <<steeringMode, followUpMode>>
  /\ steeringMode' = s /\ followUpMode' = f
  /\ UNCHANGED <<messages, aborted, pendingToolCalls, loopVars, toolVars,
                 steeringQueue, followUpQueue, bookVars>>

ClearSteeringQueue ==
  /\ steeringQueue # <<>> /\ clears < MaxClears
  /\ clears' = clears + 1
  /\ steeringQueue' = <<>>
  /\ UNCHANGED <<messages, aborted, pendingToolCalls, loopVars, toolVars,
                 steeringMode, followUpQueue, followUpMode,
                 submitted, turns, toolTurns, faults, wasReset>>

ClearFollowUpQueue ==
  /\ followUpQueue # <<>> /\ clears < MaxClears
  /\ clears' = clears + 1
  /\ followUpQueue' = <<>>
  /\ UNCHANGED <<messages, aborted, pendingToolCalls, loopVars, toolVars,
                 steeringMode, steeringQueue, followUpMode,
                 submitted, turns, toolTurns, faults, wasReset>>

\* reset() has no guard: it may fall into an active run, whose context it
\* does not touch.
Reset ==
  /\ clears < MaxClears
  /\ clears' = clears + 1
  /\ messages' = <<>> /\ pendingToolCalls' = {}
  /\ steeringQueue' = <<>> /\ followUpQueue' = <<>>
  /\ wasReset' = ~Idle
  /\ UNCHANGED <<aborted, loopVars, toolVars, steeringMode, followUpMode,
                 submitted, turns, toolTurns, faults>>

\* Assigning state.messages, as the session does before it retries: the
\* trailing error message leaves the transcript.
DropErrorMessage ==
  /\ messages # <<>>
  /\ LastMessage(messages).role = "assistant" /\ LastMessage(messages).stop = "error"
  /\ clears < MaxClears
  /\ clears' = clears + 1
  /\ messages' = Front(messages)
  /\ wasReset' = ~Idle
  /\ UNCHANGED <<aborted, pendingToolCalls, loopVars, toolVars, queueVars,
                 submitted, turns, toolTurns, faults>>

Abort ==
  /\ ~Idle /\ ~aborted
  /\ aborted' = TRUE
  /\ UNCHANGED <<messages, pendingToolCalls, loopVars, toolVars, queueVars, bookVars>>

----------------------------------------------------------------------------
(* runLoop *)

\* message_end of a prompt: the reducer of processEvents appends it.
EmitPrompt ==
  /\ pc = "prompts" /\ prompts # <<>>
  /\ messages' = Append(messages, Head(prompts))
  /\ prompts' = Tail(prompts)
  /\ UNCHANGED <<pc, context, pending, skipPoll, hasMoreToolCalls, aborted,
                 pendingToolCalls, toolVars, queueVars, bookVars>>

\* getSteeringMessages: skipInitialSteeringPoll answers the first poll with
\* nothing.
TakeSteering ==
  IF skipPoll
  THEN pending' = <<>> /\ skipPoll' = FALSE /\ UNCHANGED steeringQueue
  ELSE /\ pending' = Drained(steeringQueue, steeringMode)
       /\ steeringQueue' = Remaining(steeringQueue, steeringMode)
       /\ UNCHANGED skipPoll

InitialPoll ==
  /\ pc = "prompts" /\ prompts = <<>>
  /\ TakeSteering
  /\ pc' = "turn"
  /\ UNCHANGED <<context, prompts, hasMoreToolCalls, messages, aborted, pendingToolCalls,
                 toolVars, steeringMode, followUpQueue, followUpMode, bookVars>>

\* The inner while loop is entered: turn_start.
StartTurn ==
  /\ pc = "turn" /\ (hasMoreToolCalls \/ pending # <<>>)
  /\ pc' = "inject"
  /\ UNCHANGED <<context, prompts, pending, skipPoll, hasMoreToolCalls, messages, aborted,
                 pendingToolCalls, toolVars, queueVars, bookVars>>

\* message_end of a pending message.
InjectMessage ==
  /\ pc = "inject" /\ pending # <<>>
  /\ messages' = Append(messages, Head(pending))
  /\ pc' = "injected"
  /\ UNCHANGED <<context, prompts, pending, skipPoll, hasMoreToolCalls, aborted,
                 pendingToolCalls, toolVars, queueVars, bookVars>>

\* Seeded fault: the injected message does not join the context.
PushInjectedForgets ==
  /\ pc = "injected"
  /\ pending' = Tail(pending)
  /\ pc' = "inject"
  /\ UNCHANGED <<context, prompts, skipPoll, hasMoreToolCalls, messages, aborted,
                 pendingToolCalls, toolVars, queueVars, bookVars>>

\* The context gets the message only after its listeners settled.
PushInjected ==
  /\ pc = "injected"
  /\ context' = Append(context, Head(pending))
  /\ pending' = Tail(pending)
  /\ pc' = "inject"
  /\ UNCHANGED <<prompts, skipPoll, hasMoreToolCalls, messages, aborted,
                 pendingToolCalls, toolVars, queueVars, bookVars>>

\* streamAssistantResponse: the request is built from the context.
Request ==
  /\ pc = "inject" /\ pending = <<>>
  /\ pc' = "request"
  /\ UNCHANGED <<context, prompts, pending, skipPoll, hasMoreToolCalls, messages, aborted,
                 pendingToolCalls, toolVars, queueVars, bookVars>>

\* "start": the partial message joins the context.
ResponseStart ==
  /\ pc = "request"
  /\ context' = Append(context, Assistant(turns + 1, "partial", 0))
  /\ pc' = "streaming"
  /\ UNCHANGED <<prompts, pending, skipPoll, hasMoreToolCalls, messages, aborted,
                 pendingToolCalls, toolVars, queueVars, bookVars>>

\* "done" or "error": the final message replaces the partial one, or is
\* pushed when the stream never started.  A stream that was aborted may still
\* complete.
ResponseEnd(stop, n) ==
  /\ pc \in {"request", "streaming"}
  /\ stop = "aborted" => aborted
  /\ n > 0 => toolTurns < MaxToolTurns
  /\ LET final == Assistant(turns + 1, stop, n)
     IN /\ context' = Append(IF pc = "streaming" THEN Front(context) ELSE context, final)
        /\ messages' = Append(messages, final)
  /\ turns' = turns + 1
  /\ toolTurns' = IF n > 0 THEN toolTurns + 1 ELSE toolTurns
  /\ calls' = n
  /\ pc' = "response"
  /\ UNCHANGED <<prompts, pending, skipPoll, hasMoreToolCalls, aborted, pendingToolCalls,
                 prep, runnable, executing, cur, results, queueVars,
                 submitted, faults, clears, wasReset>>

StopOnError ==
  /\ pc = "response" /\ LastMessage(context).stop \in {"error", "aborted"}
  /\ pc' = "agentEnd"
  /\ UNCHANGED <<context, prompts, pending, skipPoll, hasMoreToolCalls, messages, aborted,
                 pendingToolCalls, toolVars, queueVars, bookVars>>

\* hasMoreToolCalls = toolCalls.length > 0.
StartTools ==
  /\ pc = "response" /\ LastMessage(context).stop = "stop"
  /\ hasMoreToolCalls' = (calls > 0)
  /\ prep' = 1 /\ runnable' = <<>> /\ results' = <<>>
  /\ pc' = IF calls > 0 THEN "tools" ELSE "turnEnd"
  /\ UNCHANGED <<context, prompts, pending, skipPoll, messages, aborted, pendingToolCalls,
                 calls, executing, cur, queueVars, bookVars>>

\* turn_end was emitted; steering is polled for the next turn.
PollSteering ==
  /\ pc = "turnEnd"
  /\ TakeSteering
  /\ pc' = "turn"
  /\ UNCHANGED <<context, prompts, hasMoreToolCalls, messages, aborted, pendingToolCalls,
                 toolVars, steeringMode, followUpQueue, followUpMode, bookVars>>

\* The agent would stop: follow-ups become pending and re-enter the loop.
PollFollowUp ==
  /\ pc = "turn" /\ ~hasMoreToolCalls /\ pending = <<>>
  /\ pending' = Drained(followUpQueue, followUpMode)
  /\ followUpQueue' = Remaining(followUpQueue, followUpMode)
  /\ IF followUpQueue = <<>>
     THEN pc' = "agentEnd" /\ UNCHANGED hasMoreToolCalls
     ELSE pc' = "turn" /\ hasMoreToolCalls' = TRUE
  /\ UNCHANGED <<context, prompts, skipPoll, messages, aborted, pendingToolCalls,
                 toolVars, steeringQueue, steeringMode, followUpMode, bookVars>>

----------------------------------------------------------------------------
(* executeToolCalls *)

\* Seeded fault: one call too many is prepared.
ToolStartOffByOne ==
  /\ pc = "tools" /\ prep <= calls + 1
  /\ cur' = <<turns, prep>>
  /\ pendingToolCalls' = pendingToolCalls \cup {cur'}
  /\ prep' = prep + 1
  /\ pc' = "prepare"
  /\ UNCHANGED <<context, prompts, pending, skipPoll, hasMoreToolCalls, messages, aborted,
                 calls, runnable, executing, results, queueVars, bookVars>>

ToolStart ==
  /\ pc = "tools" /\ prep <= calls
  /\ cur' = <<turns, prep>>
  /\ pendingToolCalls' = pendingToolCalls \cup {cur'}
  /\ prep' = prep + 1
  /\ pc' = "prepare"
  /\ UNCHANGED <<context, prompts, pending, skipPoll, hasMoreToolCalls, messages, aborted,
                 calls, runnable, executing, results, queueVars, bookVars>>

\* Seeded fault: a rejected call gets no tool result.
ToolImmediateSilent ==
  /\ pc = "prepare"
  /\ pendingToolCalls' = pendingToolCalls \ {cur}
  /\ pc' = "tools"
  /\ UNCHANGED <<context, prompts, pending, skipPoll, hasMoreToolCalls, messages, aborted,
                 toolVars, queueVars, bookVars>>

\* prepareToolCall returns an immediate outcome (unknown tool, invalid
\* arguments, blocked or failed beforeToolCall): tool_execution_end.
ToolImmediate ==
  /\ pc = "prepare"
  /\ pendingToolCalls' = pendingToolCalls \ {cur}
  /\ pc' = "outcome"
  /\ UNCHANGED <<context, prompts, pending, skipPoll, hasMoreToolCalls, messages, aborted,
                 toolVars, queueVars, bookVars>>

\* Seeded fault: sequential mode starts the tool and does not await it.
ToolPreparedNoAwait ==
  /\ pc = "prepare"
  /\ runnable' = Append(runnable, cur)
  /\ IF ToolExecution = "sequential"
     THEN executing' = executing \cup {cur} /\ pc' = "tools"
     ELSE UNCHANGED executing /\ pc' = "tools"
  /\ UNCHANGED <<context, prompts, pending, skipPoll, hasMoreToolCalls, messages, aborted,
                 pendingToolCalls, calls, prep, cur, results, queueVars, bookVars>>

ToolPrepared ==
  /\ pc = "prepare"
  /\ runnable' = Append(runnable, cur)
  /\ IF ToolExecution = "sequential"
     THEN executing' = executing \cup {cur} /\ pc' = "await"
     ELSE UNCHANGED executing /\ pc' = "tools"
  /\ UNCHANGED <<context, prompts, pending, skipPoll, hasMoreToolCalls, messages, aborted,
                 pendingToolCalls, calls, prep, cur, results, queueVars, bookVars>>

\* Parallel mode: runnableCalls.map(executePreparedToolCall).
LaunchTools ==
  /\ pc = "tools" /\ prep > calls /\ runnable # <<>>
  /\ executing' = executing \cup InSeq(runnable)
  /\ pc' = "await"
  /\ UNCHANGED <<context, prompts, pending, skipPoll, hasMoreToolCalls, messages, aborted,
                 pendingToolCalls, calls, prep, runnable, cur, results, queueVars, bookVars>>

\* tool.execute settles; it may do so after the run that launched it ended.
ToolSettles(c) ==
  /\ c \in executing
  /\ executing' = executing \ {c}
  /\ UNCHANGED <<messages, aborted, pendingToolCalls, loopVars, calls, prep, runnable,
                 cur, results, queueVars, bookVars>>

\* Seeded fault: the execution is not awaited.
NeverWaitsForTool == FALSE

\* await running.execution
WaitingForTool == pc = "await" /\ runnable # <<>> /\ Head(runnable) \in executing

\* finalizeExecutedToolCall of the first prepared call: tool_execution_end.
FinalizeTool ==
  /\ pc = "await" /\ runnable # <<>> /\ ~WaitingForTool
  /\ cur' = Head(runnable)
  /\ runnable' = Tail(runnable)
  /\ pendingToolCalls' = pendingToolCalls \ {cur'}
  /\ pc' = IF ToolExecution = "sequential" THEN "outcome" ELSE "finalized"
  /\ UNCHANGED <<context, prompts, pending, skipPoll, hasMoreToolCalls, messages, aborted,
                 calls, prep, executing, results, queueVars, bookVars>>

\* message_end of the tool result.
ToolOutcome ==
  /\ pc \in {"outcome", "finalized"}
  /\ messages' = Append(messages, ToolResult(cur))
  /\ results' = Append(results, ToolResult(cur))
  /\ pc' = IF pc = "outcome" THEN "tools" ELSE "await"
  /\ UNCHANGED <<context, prompts, pending, skipPoll, hasMoreToolCalls, aborted,
                 pendingToolCalls, calls, prep, runnable, executing, cur, queueVars, bookVars>>

\* Seeded fault: the results do not join the context.
ToolsDoneForgetsResults ==
  /\ pc \in {"tools", "await"} /\ prep > calls /\ runnable = <<>>
  /\ pc' = "turnEnd"
  /\ UNCHANGED <<context, prompts, pending, skipPoll, hasMoreToolCalls, messages, aborted,
                 pendingToolCalls, toolVars, queueVars, bookVars>>

\* All results are in: they join the context, then turn_end.
ToolsDone ==
  /\ pc \in {"tools", "await"} /\ prep > calls /\ runnable = <<>>
  /\ context' = context \o results
  /\ pc' = "turnEnd"
  /\ UNCHANGED <<prompts, pending, skipPoll, hasMoreToolCalls, messages, aborted,
                 pendingToolCalls, toolVars, queueVars, bookVars>>

----------------------------------------------------------------------------
(* The end of a run *)

\* The awaited listener, hook or stream function rejects: what the loop had
\* drained and not yet emitted goes with its local variables.  While the loop
\* waits for a tool nothing else is awaited.
Throw ==
  /\ pc \notin {"idle", "failing", "failed"}
  /\ ~WaitingForTool
  /\ faults < MaxFaults
  /\ faults' = faults + 1
  /\ pc' = "failing"
  /\ prompts' = <<>> /\ pending' = <<>>
  /\ UNCHANGED <<context, skipPoll, hasMoreToolCalls, messages, aborted,
                 pendingToolCalls, toolVars, queueVars, submitted, turns, toolTurns,
                 clears, wasReset>>

\* handleRunFailure: the failure message joins the transcript without a
\* message_end; agent_end carries only that message.
HandleRunFailure ==
  /\ pc = "failing"
  /\ messages' = Append(messages, Assistant(0, "failure", 0))
  /\ pc' = "failed"
  /\ UNCHANGED <<context, prompts, pending, skipPoll, hasMoreToolCalls, aborted, pendingToolCalls, toolVars,
                 queueVars, bookVars>>

\* Seeded fault: finishRun is not in a finally block.
FinishRunOnSuccessOnly ==
  /\ pc = "agentEnd"
  /\ pc' = "idle"
  /\ pendingToolCalls' = {}
  /\ aborted' = FALSE
  /\ context' = <<>> /\ skipPoll' = FALSE
  /\ calls' = 0 /\ prep' = 1 /\ runnable' = <<>> /\ cur' = NoCall /\ results' = <<>>
  /\ hasMoreToolCalls' = FALSE
  /\ UNCHANGED <<messages, prompts, pending, executing, queueVars, bookVars>>

\* finishRun, once the agent_end listeners settled (or rejected).
FinishRun ==
  /\ pc \in {"agentEnd", "failed"}
  /\ pc' = "idle"
  /\ pendingToolCalls' = {}
  /\ aborted' = FALSE
  /\ context' = <<>> /\ skipPoll' = FALSE
  /\ calls' = 0 /\ prep' = 1 /\ runnable' = <<>> /\ cur' = NoCall /\ results' = <<>>
  /\ hasMoreToolCalls' = FALSE
  /\ UNCHANGED <<messages, prompts, pending, executing, queueVars, bookVars>>

----------------------------------------------------------------------------
Batches == UNION {[1 .. n -> Msgs] : n \in 1 .. MaxBatch}
Distinct(s) == \A i, j \in 1 .. Len(s) : i # j => s[i] # s[j]

Caller ==
  \/ \E b \in Batches : Distinct(b) /\ Prompt(b)
  \/ Continue
  \/ \E m \in Msgs : Steer(m) \/ FollowUp(m)
  \/ \E s, f \in Modes : SetModes(s, f)
  \/ ClearSteeringQueue \/ ClearFollowUpQueue \/ Reset \/ DropErrorMessage \/ Abort

Loop ==
  \/ EmitPrompt \/ InitialPoll \/ StartTurn \/ InjectMessage \/ PushInjected
  \/ Request
  \/ \E s \in {"stop", "error", "aborted"}, n \in 0 .. MaxCalls : ResponseEnd(s, n)
  \/ StopOnError \/ StartTools \/ PollSteering \/ PollFollowUp
  \/ ToolStart \/ ToolImmediate \/ ToolPrepared \/ LaunchTools \/ FinalizeTool
  \/ ToolOutcome \/ ToolsDone \/ HandleRunFailure \/ FinishRun

Next ==
  \/ Caller \/ Loop \/ ResponseStart \/ Throw
  \/ \E c \in executing : ToolSettles(c)

\* Every await of the loop settles: streams end and tools return.
Fairness == WF_vars(Loop) /\ WF_vars(\E c \in executing : ToolSettles(c))

Spec == Init /\ [][Next]_vars
FairSpec == Spec /\ Fairness

----------------------------------------------------------------------------
(* Properties *)

Locations ==
  {"idle", "prompts", "turn", "inject", "injected", "request", "streaming",
   "response", "turnEnd", "tools", "prepare", "await", "outcome", "finalized",
   "agentEnd", "failing", "failed"}
ToolPhase == {"tools", "prepare", "await", "outcome", "finalized"}

\* Type invariant of the agent and its loop.
TypeOK ==
  /\ messages \in Seq(Message) /\ context \in Seq(Message)
  /\ prompts \in Seq(UserMessage) /\ pending \in Seq(UserMessage)
  /\ steeringQueue \in Seq(UserMessage) /\ followUpQueue \in Seq(UserMessage)
  /\ steeringMode \in Modes /\ followUpMode \in Modes
  /\ pc \in Locations
  /\ aborted \in BOOLEAN /\ skipPoll \in BOOLEAN /\ hasMoreToolCalls \in BOOLEAN
  /\ wasReset \in BOOLEAN
  /\ pendingToolCalls \subseteq CallId /\ executing \subseteq CallId
  /\ cur \in CallId /\ runnable \in Seq(CallId)
  /\ results \in Seq(ToolResultMessage)
  /\ calls \in Nat /\ prep \in Nat
  /\ pc \in ToolPhase => prep <= calls + 1
  /\ pc = "injected" => pending # <<>>
  /\ submitted \subseteq Msgs
  /\ turns \in Nat /\ toolTurns \in Nat /\ faults \in Nat /\ clears \in Nat

\* The loop keeps its own copy of the conversation and appends to it at other
\* awaits than the reducer of processEvents does (listeners run in between,
\* tool results are pushed in one go).  Whenever a request is built the two
\* agree: the model is sent exactly what the caller sees in state.messages.
RequestShowsTranscript ==
  pc = "request" /\ ~wasReset => context = messages

\* The inductive form: how the two copies differ at each await of the loop.
ContextInv ==
  ~wasReset =>
    /\ pc = "prompts" => context = messages \o prompts
    /\ pc \in {"turn", "inject", "request", "response", "turnEnd", "agentEnd"} =>
         context = messages
    /\ pc = "injected" => messages = Append(context, Head(pending))
    /\ pc = "streaming" => Front(context) = messages
    /\ pc \in ToolPhase => messages = context \o results

\* Tool results that directly follow position k of a conversation.
ResultsAfter(s, k) ==
  {j \in k + 1 .. Len(s) : \A i \in k + 1 .. j : s[i].role = "toolResult"}

\* In every request each tool call of a completed assistant message is
\* answered exactly once, directly after it, in whatever order the calls
\* finished or were rejected; the only exception is a message whose run was
\* broken off by handleRunFailure.
ToolCallsAnswered ==
  pc = "request" =>
    \A k \in 1 .. Len(context) :
      LET msg == context[k]
          answers == ResultsAfter(context, k)
          next == k + Cardinality(answers) + 1
      IN msg.role = "assistant" /\ msg.stop = "stop" =>
           \/ /\ Cardinality(answers) = msg.calls
              /\ {context[j].call : j \in answers} = {<<msg.id, i>> : i \in 1 .. msg.calls}
           \/ /\ next <= Len(context)
              /\ context[next].role = "assistant" /\ context[next].stop = "failure"

\* Mode "one-at-a-time": the model answers before the next steering message
\* is injected (continue() must not poll again for the message it drained).
OneSteeringPerRequest ==
  Modes = {"one-at-a-time"} =>
    \A i, j \in 1 .. Len(messages) :
      /\ i < j
      /\ messages[i].role = "user" /\ messages[i].via = "steer"
      /\ messages[j].role = "user" /\ messages[j].via = "steer"
      => \E k \in i .. j : messages[k].role = "assistant"

\* While tools run, state.pendingToolCalls shows every one that is executing.
PendingCoversExecuting ==
  pc \in ToolPhase /\ ~wasReset =>
    {c \in executing : c[1] = turns} \subseteq pendingToolCalls

\* waitForIdle (agent.ts:289) promises that the run has finished: no tool of
\* it is still executing when the agent is idle.
ToolsSettledWhenIdle == Idle => executing = {}

\* Every run settles: no await of the loop waits for a tool that was never
\* launched or for a queue nobody fills.
RunSettles == ~Idle ~> Idle

----------------------------------------------------------------------------
(* Refinement: what the queues promise (MessageDelivery). *)

\* What the run has drained and not yet put into the transcript, which is of one channel.
Taken == prompts \o (IF pc = "injected" THEN Tail(pending) ELSE pending)
Sent(v) == [role : {"user"}, id : Msgs, via : {v}]
Queued(v) ==
  CASE v = "steer" -> steeringQueue [] v = "followUp" -> followUpQueue [] OTHER -> <<>>
Held(s, v) == IF s \in Seq(Sent(v)) THEN s ELSE <<>>
Undelivered == [v \in Via |-> Held(Taken, v) \o Queued(v)]

Delivery == INSTANCE MessageDelivery
  WITH Channels <- Via, Items <- UserMessage, waiting <- Undelivered,
       conversation <- messages, drops <- faults + clears
DeliverySpec == Delivery!Spec

=============================================================================

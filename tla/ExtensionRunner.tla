--------------------------- MODULE ExtensionRunner ---------------------------
(***************************************************************************)
(* core/extensions/runner.ts: an event goes to the handlers of the         *)
(* extensions in load order, one after the other, each awaited.  What a    *)
(* handler may answer, what its answer changes for the handlers after it,  *)
(* which answer ends the round and what an error does differ per event.    *)
(*                                                                         *)
(* A tool call makes two rounds, tool_call before it runs and tool_result  *)
(* after, through the hooks AgentSession installs in the agent.  The other *)
(* events make one.                                                        *)
(*                                                                         *)
(* A value is abstracted to the handlers whose change it carries.          *)
(***************************************************************************)
EXTENDS Naturals, Sequences

CONSTANT MaxHandlers \* bound: handlers of an event

VARIABLES
  event,    \* what is handled, "none" at first
  phase,    \* "idle", "asking", "running" (the tool), "over"
  handlers, \* of the event, when the round began
  answers,  \* of the handlers asked so far
  carried,  \* the handlers whose change the value has
  ended,    \* how the round was ended early: "no", "stop" or "throw"
  current,  \* tool_result: the handler that last set each field, 0 for the tool
  modified,
  tool,     \* "none", "ok", "failed"
  told,     \* each field of what the model is told
  \* history: the tool_call round
  callAnswers,
  arguments \* the handlers whose edits the tool was run with

roundVars == <<handlers, answers, carried, ended>>
toolVars == <<tool, told, callAnswers, arguments>>
runnerVars == <<event, phase, roundVars, current, modified, toolVars>>

Fields == {"content", "details", "isError"}
Untouched == [f \in Fields |-> 0]

PassedOn == {"input", "context", "before_provider_request"} \* shown the latest value
Collected == {"before_agent_start", "resources_discover"}  \* every answer counts
SessionBefore == {"session_before"}
Events == PassedOn \union Collected \union SessionBefore \union {"tool_call", "user_bash", "notice"}

\* An answer of a handler: what it does, the fields it sets, and whether it has edited
\* the arguments or messages in place first.
Answers(e) ==
  LET plain(does) == [does |-> does, fields |-> {}, edits |-> FALSE]
      edited(does) == {[plain(does) EXCEPT !.edits = b] : b \in BOOLEAN}
      nothing == {plain("nothing"), plain("throw")}
  IN  CASE e = "tool_call" -> UNION {edited(does) : does \in {"nothing", "throw", "stop"}}
        [] e = "tool_result" ->
             nothing \union {[plain("change") EXCEPT !.fields = fs] : fs \in SUBSET Fields}
        [] e \in {"context", "before_provider_request"} ->
             {plain("change")} \union edited("nothing") \union edited("throw")
        [] e = "user_bash" -> nothing \union {plain("stop")}
        [] e \in {"input", "session_before"} -> nothing \union {plain("change"), plain("stop")}
        [] e = "notice" -> nothing
        [] OTHER -> nothing \union {plain("change")}

RunnerInit ==
  /\ event = "none" /\ phase = "idle"
  /\ handlers = 0 /\ answers = <<>> /\ carried = {} /\ ended = "no"
  /\ current = Untouched /\ modified = FALSE
  /\ tool = "none" /\ told = Untouched /\ callAnswers = <<>> /\ arguments = {}

Round(e) ==
  /\ event' = e /\ phase' = "asking"
  /\ handlers' \in 0 .. MaxHandlers
  /\ answers' = <<>> /\ carried' = {} /\ ended' = "no"
  /\ current' = Untouched /\ modified' = FALSE

Emit(e) ==
  /\ phase = "idle"
  /\ Round(e)
  /\ UNCHANGED toolVars

----------------------------------------------------------------------------
(* One handler *)

\* Seeded fault: an error of a tool_call handler is reported and passed over, as those of
\* all others are.
EndsByOthers(a) == IF a.does = "stop" THEN "stop" ELSE "no"

\* Block, cancel, handled, or an answer to user_bash; an error of a tool_call handler.
Ends(a) ==
  IF a.does = "stop" THEN "stop"
  ELSE IF a.does = "throw" /\ event = "tool_call" THEN "throw" ELSE "no"

\* An edit in place stays whatever the handler answers.
Changes(e, a) == a.edits \/ (e # "tool_call" /\ a.does \in {"change", "stop"})

\* Handler i has changed the value; the last answer to session_before_* stands alone.
Carry(i, a) ==
  IF ~Changes(event, a) THEN carried
  ELSE IF event \in SessionBefore THEN {i} ELSE carried \union {i}

\* Seeded fault: the answer replaces the event.
PatchWhole(i, a) ==
  IF a.does = "change" THEN [f \in Fields |-> IF f \in a.fields THEN i ELSE 0] ELSE current

\* Fields the handler leaves out keep their values.
Patch(i, a) == [f \in Fields |-> IF f \in a.fields THEN i ELSE current[f]]

Answer(a) ==
  LET i == Len(answers) + 1
  IN  /\ phase = "asking" /\ ended = "no" /\ i <= handlers
      /\ answers' = Append(answers, a)
      /\ carried' = Carry(i, a)
      /\ ended' = Ends(a)
      /\ current' = Patch(i, a)
      /\ modified' = (modified \/ a.fields # {})
      /\ UNCHANGED <<event, phase, handlers, toolVars>>

----------------------------------------------------------------------------
(* The end of a round *)

RoundOver == phase = "asking" /\ (ended # "no" \/ Len(answers) = handlers)

Return ==
  /\ RoundOver /\ event \notin {"tool_call", "tool_result"}
  /\ phase' = "over"
  /\ UNCHANGED <<event, roundVars, current, modified, toolVars>>

\* prepareToolCall: a block or an error becomes the result, without tool_result.
Refuse ==
  /\ RoundOver /\ event = "tool_call" /\ ended # "no"
  /\ phase' = "over" /\ callAnswers' = answers
  /\ UNCHANGED <<event, roundVars, current, modified, tool, told, arguments>>

\* The arguments are the object the handlers have edited.
Execute ==
  /\ RoundOver /\ event = "tool_call" /\ ended = "no"
  /\ phase' = "running" /\ callAnswers' = answers /\ arguments' = carried
  /\ UNCHANGED <<event, roundVars, current, modified, tool, told>>

\* The extensions may have been reloaded since.
ToolEnds(outcome) ==
  /\ phase = "running"
  /\ tool' = outcome
  /\ Round("tool_result")
  /\ UNCHANGED <<told, callAnswers, arguments>>

\* afterToolCall: only content and details, and only of a call that has not failed.
Tell ==
  /\ RoundOver /\ event = "tool_result"
  /\ phase' = "over"
  /\ told' = IF modified /\ tool = "ok" THEN [current EXCEPT !["isError"] = 0] ELSE told
  /\ UNCHANGED <<event, roundVars, current, modified, tool, callAnswers, arguments>>

RunnerNext ==
  \/ \E e \in Events : Emit(e)
  \/ \E a \in Answers(event) : Answer(a)
  \/ Return \/ Refuse \/ Execute \/ Tell
  \/ \E outcome \in {"ok", "failed"} : ToolEnds(outcome)

RunnerSpec == RunnerInit /\ [][RunnerNext]_runnerVars

----------------------------------------------------------------------------
(* Properties *)

\* Every variable holds a value of its kind.
RunnerTypeOK ==
  /\ event \in Events \union {"none", "tool_result"}
  /\ phase \in {"idle", "asking", "running", "over"}
  /\ handlers \in 0 .. MaxHandlers /\ Len(answers) <= handlers
  /\ answers \in Seq(Answers(event)) /\ carried \subseteq 1 .. MaxHandlers
  /\ ended \in {"no", "stop", "throw"}
  /\ current \in [Fields -> 0 .. MaxHandlers] /\ modified \in BOOLEAN
  /\ tool \in {"none", "ok", "failed"} /\ told \in [Fields -> 0 .. MaxHandlers]
  /\ callAnswers \in Seq(Answers("tool_call")) /\ arguments \subseteq 1 .. MaxHandlers

\* A tool is only run when every handler of tool_call was asked and none has blocked it
\* or failed, with every edit they have made.
OnlyIfAllAgree ==
  phase = "running" \/ tool # "none" =>
    /\ \A i \in DOMAIN callAnswers : callAnswers[i].does = "nothing"
    /\ arguments = {i \in DOMAIN callAnswers : callAnswers[i].edits}

\* What the last handler that set a field has set; 0 when none has.
IsLastPatch(i, f, as) ==
  /\ i = 0 \/ (i \in DOMAIN as /\ f \in as[i].fields)
  /\ \A j \in DOMAIN as : f \in as[j].fields => j <= i

\* The model is told the last patch of the content and of the details of a call that has
\* not failed.
LastPatchTold ==
  event = "tool_result" /\ phase = "over" /\ tool = "ok" =>
    \A f \in {"content", "details"} : IsLastPatch(told[f], f, answers)

\* An error of one handler takes nothing from the others: the value at the end carries
\* every change, and no handler is left out unless one before it has ended the round.
NoHandlerLost ==
  phase = "over" /\ event \in PassedOn \union Collected =>
    /\ carried = {i \in DOMAIN answers : answers[i].edits \/ answers[i].does \in {"change", "stop"}}
    /\ ended = "no" => Len(answers) = handlers

HandlersHeeded == OnlyIfAllAgree /\ LastPatchTold /\ NoHandlerLost

----------------------------------------------------------------------------
(* The inductive form *)

\* Nothing but the last answer has ended the round, the value carries every change, and
\* each field is as the last handler that set it has left it.
RoundInv ==
  /\ answers \in Seq(Answers(event)) /\ Len(answers) <= handlers /\ handlers \in Nat
  /\ event = "tool_call" /\ ended = "no" => \A i \in DOMAIN answers : answers[i].does = "nothing"
  /\ event \notin SessionBefore => carried = {i \in DOMAIN answers : Changes(event, answers[i])}
  /\ \A f \in Fields : IsLastPatch(current[f], f, answers)
  /\ current \in [Fields -> Nat]
  /\ modified \/ \A i \in DOMAIN answers : answers[i].fields = {}

\* How far a tool call is.
CallInv ==
  /\ phase = "running" => event = "tool_call"
  /\ event # "tool_result" => tool = "none"
  /\ event = "tool_result" /\ phase = "asking" => told = Untouched
  /\ event \in {"none", "tool_call"} => told = Untouched
  /\ phase = "idle" <=> event = "none"
  /\ event \notin {"tool_call", "tool_result"} /\ phase = "over" /\ ended = "no"
       => Len(answers) = handlers

RunnerInv == RoundInv /\ CallInv /\ HandlersHeeded
=============================================================================

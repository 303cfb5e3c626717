---------------------------- MODULE AgentSession ----------------------------
(***************************************************************************)
(* packages/coding-agent/src/core/agent-session.ts: what turns runs of the *)
(* agent into a saved conversation.                                        *)
(*                                                                         *)
(* The agent changes its transcript at once and emits events; the session  *)
(* handles the events one after the other, behind the slowest extension    *)
(* handler, and only then saves the message, retries or compacts.  Prompts,*)
(* timers and other compactions run in between.                            *)
(*                                                                         *)
(* The run of the agent (module Agent) is reduced to what the session sees *)
(* of it: injected messages, replies and the end.  The branch of the       *)
(* session tree (module SessionManager) is the list of its entries, and    *)
(* compaction keeps the last message only.  Of the queues there is the one *)
(* for follow-ups, emptied at once.                                        *)
(***************************************************************************)
EXTENDS Integers, Sequences, SequencesExt

CONSTANTS
  MaxPrompts,   \* bound: calls of prompt()
  Outcomes,     \* how a request to the model may fail
  Throws,       \* how the run may fail before the model answers
  Interventions, \* what users and extensions do besides prompt()
  MaxRetries,   \* settings.retry.maxRetries
  MaxTroubles   \* bound: failures, full answers and interventions

\* "silent" is an answer whose usage is over the context window.
Failures == {"error", "overflow", "fatal", "silent"}

ASSUME KindsAssumption ==
  /\ Outcomes \subseteq Failures
  /\ Throws \subseteq {"error", "fatal"}
  /\ Interventions \subseteq {"queue", "bash", "abort", "compact"}
ASSUME BoundsAssumption == MaxPrompts \in Nat /\ MaxRetries \in Nat /\ MaxTroubles \in Nat

VARIABLES
  \* the agent
  transcript,   \* agent.state.messages
  run,          \* "off", "on", "asking" the model, or "ending" with its last message
  inbox,        \* messages the run has yet to inject
  queued,       \* the follow-up queue
  stopping,     \* the run's abort signal
  reply,        \* last assistant message of the run
  \* the session
  entries,      \* the branch sessionManager appends to
  connected,    \* subscribed to the agent
  events,       \* _agentEventQueue, not yet processed
  handling,     \* the event handler at an await: "no", "backoff", "compacting"
  lastAssistant, \* _lastAssistantMessage
  retryPending, \* _retryPromise
  retryAttempt,
  overflowRecoveryAttempted,
  pendingBash,  \* _pendingBashMessages
  timers,       \* setTimeout(() => agent.continue())
  compactions,  \* the compaction each owner runs
  prompts,      \* where each prompt() call is
  \* bookkeeping
  nextId,       \* message ids and time
  troubles,
  derailed,     \* an answer without a message event, or a compaction under a run or a retry
  overtaken     \* the session and the agent changed the conversation at the same time

runVars == <<run, inbox, stopping, reply>>
agentVars == <<transcript, runVars, queued>>
retryVars == <<retryPending, retryAttempt>>
ghostVars == <<derailed, overtaken>>
vars == <<agentVars, entries, connected, events, handling, lastAssistant, retryVars,
          overflowRecoveryAttempted, pendingBash, timers, compactions, prompts,
          nextId, troubles, ghostVars>>

\* The calls of prompt(), in the order they are made.
Callers == 1..MaxPrompts
\* A compaction runs for a prompt() call, for the event handler (0) or for compact().
EventHandler == 0
Manual == MaxPrompts + 1
Owners == 0..Manual

Trouble == troubles < MaxTroubles /\ troubles' = troubles + 1
Intervene(kind) == kind \in Interventions /\ Trouble

-----------------------------------------------------------------------------
(* Messages and entries. *)

\* stop is the stop reason of an assistant message; a "full" answer has a usage
\* over the compaction threshold.  A compaction entry keeps from the entry at "ref" on: a
\* branch only grows.  An id is also the time the message was made.
Msg(role, id, stop, ref) == [role |-> role, id |-> id, stop |-> stop, ref |-> ref]
User(id) == Msg("user", id, "none", 0)
Assistant(id, stop) == Msg("assistant", id, stop, 0)
None == Msg("none", 0, "none", 0)

IsAssistant(m) == m.role = "assistant"
IsError(m) == m.stop \in {"error", "overflow", "fatal"}
IsAborted(m) == m.stop \in {"aborted", "aborted full"}
IsFull(m) == m.stop \in {"full", "aborted full", "silent"}
\* transformMessages skips errored and aborted answers: no request shows them.
IsShown(m) == ~(IsError(m) \/ IsAborted(m))
Retryable(m) == m.stop = "error"

Messages == [role : {"user", "assistant", "bash", "compaction", "none"}, id : Nat,
             stop : {"none", "stop", "full", "aborted", "aborted full"} \union Failures, ref : Nat]

LastOf(s) == IF s = <<>> THEN None ELSE s[Len(s)]
LastWhere(s, P(_)) == LET i == SelectLastInSeq(s, P) IN IF i = 0 THEN None ELSE s[i]

\* The messages of s that are in T, in their order.
Within(s, T) ==
  LET first[n \in 0 .. Len(s)] ==
        IF n = 0 THEN <<>> ELSE first[n - 1] \o IF s[n] \in T THEN <<s[n]>> ELSE <<>>
  IN  first[Len(s)]

\* buildSessionContext of a branch.
Context(es) ==
  LET boundary == SelectLastInSeq(es, LAMBDA e : e.role = "compaction")
      kept == SubSeq(es, es[boundary].ref, Len(es))
  IN  IF boundary = 0 THEN es
      ELSE <<es[boundary]>> \o Within(kept, {m \in Messages : m.role # "compaction"})

Compacted(es) == LastWhere(es, LAMBDA e : e.role = "compaction").id

-----------------------------------------------------------------------------
(* Compaction. *)

NoCompaction == [phase |-> "off", keep |-> 0, retry |-> FALSE]
Compacting(o) == compactions[o].phase # "off"

\* _checkCompaction: "no", "threshold" or "overflow".
Verdict(m, skipAborted) ==
  LET usable(x) == IsAssistant(x) /\ IsShown(x)
      source == IF IsError(m) THEN LastWhere(transcript, usable) ELSE m
  IN  IF m = None \/ (skipAborted /\ IsAborted(m)) \/ m.id <= Compacted(entries) THEN "no"
      ELSE IF m.stop \in {"overflow", "silent"}
           THEN IF overflowRecoveryAttempted THEN "no" ELSE "overflow"
      ELSE IF IsFull(source) /\ source.id > Compacted(entries) THEN "threshold" ELSE "no"

\* Seeded fault: whatever comes last is dropped.
DropLastMessage(s) == IF s # <<>> THEN Front(s) ELSE s

DropLastAssistant(s) == IF s # <<>> /\ IsAssistant(LastOf(s)) THEN Front(s) ELSE s

UnsavedMessages == \E i \in DOMAIN events : events[i].type = "message"
Overtakes == run # "off" \/ UnsavedMessages

\* _runAutoCompaction up to its first await.
Started(owner, verdict, cs) ==
  IF verdict = "no" THEN cs
  ELSE [cs EXCEPT ![owner] = [phase |-> "auth", keep |-> 0, retry |-> verdict = "overflow"]]

\* Seeded fault: nothing remembers that a recovery was tried.
CheckCompactionForgets(owner, verdict, messages) ==
  /\ compactions' = Started(owner, verdict, compactions)
  /\ transcript' = IF verdict = "overflow" THEN DropLastAssistant(messages) ELSE messages
  /\ UNCHANGED overflowRecoveryAttempted

\* The rest of _checkCompaction: an overflow takes the last answer out of the transcript.
CheckCompaction(owner, verdict, messages) ==
  /\ compactions' = Started(owner, verdict, compactions)
  /\ transcript' = IF verdict = "overflow" THEN DropLastAssistant(messages) ELSE messages
  /\ overflowRecoveryAttempted' = (overflowRecoveryAttempted \/ verdict = "overflow")

\* Seeded fault: any compaction that ends frees the event handler.
ReleaseHandler(owner) ==
  /\ handling' = "no"
  /\ prompts' = IF owner \in Callers THEN [prompts EXCEPT ![owner] = "ready"] ELSE prompts
  /\ connected' = (connected \/ owner = Manual)

\* The owner goes on: the event handler is free again, prompt() goes on, and
\* compact() subscribes to the agent again.
Release(owner) ==
  /\ handling' = IF owner = EventHandler THEN "no" ELSE handling
  /\ prompts' = IF owner \in Callers THEN [prompts EXCEPT ![owner] = "ready"] ELSE prompts
  /\ connected' = (connected \/ owner = Manual)

\* Authentication is there: prepareCompaction reads the branch.  There is
\* nothing to do right after a compaction, or without any entry.
Prepare(owner) ==
  LET last == LastOf(entries)
  IN  /\ compactions[owner].phase = "auth"
      /\ \/ /\ last.role \notin {"none", "compaction"}
            /\ compactions' = [compactions EXCEPT ![owner].phase = "summary",
                                                  ![owner].keep = Len(entries)]
            /\ UNCHANGED <<handling, prompts, connected>>
         \/ /\ last.role \in {"none", "compaction"}
            /\ compactions' = [compactions EXCEPT ![owner] = NoCompaction]
            /\ Release(owner)
      /\ UNCHANGED <<agentVars, entries, events, lastAssistant, retryVars,
                     overflowRecoveryAttempted, pendingBash, timers, nextId, troubles, ghostVars>>

\* Seeded fault: no request follows the compaction.
RestartNever(c) == FALSE

\* After a compaction of its own accord the session restarts the agent, to ask
\* again or for the sake of queued messages.
Restart(c) == c.retry \/ queued # <<>>

\* The summary is there: append the entry, replace the transcript by the context
\* (session_compact handlers are taken to return at once).
FinishCompaction(owner) ==
  LET c == compactions[owner]
      es == Append(entries, Msg("compaction", nextId, IF c.retry THEN "overflow" ELSE "none", c.keep))
      context == Context(es)
  IN  /\ c.phase = "summary"
      /\ entries' = es
      /\ nextId' = nextId + 1
      /\ transcript' = IF c.retry /\ IsError(LastOf(context)) THEN Front(context) ELSE context
      /\ timers' = IF owner # Manual /\ Restart(c) THEN timers + 1 ELSE timers
      /\ overtaken' = (overtaken \/ Overtakes)
      /\ derailed' = (derailed \/ retryPending \/ Overtakes)
      /\ compactions' = [compactions EXCEPT ![owner] = NoCompaction]
      /\ Release(owner)
      /\ UNCHANGED <<runVars, queued, events, lastAssistant, retryVars,
                     overflowRecoveryAttempted, pendingBash, troubles>>

\* No credentials, no summary, an extension cancels, or abortCompaction.
FailCompaction(owner) ==
  /\ compactions[owner].phase \in {"auth", "summary"}
  /\ Trouble
  /\ compactions' = [compactions EXCEPT ![owner] = NoCompaction]
  /\ Release(owner)
  /\ UNCHANGED <<agentVars, entries, events, lastAssistant, retryVars, overflowRecoveryAttempted,
                 pendingBash, timers, nextId, ghostVars>>

-----------------------------------------------------------------------------
(* The agent's run, and the listener it calls (_handleAgentEvent). *)

MessageEvent(m) == [type |-> "message", msg |-> m]
AgentEnd(m) == [type |-> "agent_end", msg |-> m]

\* During compact() nobody listens.
Emit(event) ==
  /\ events' = IF connected THEN Append(events, event) ELSE events
  /\ overtaken' = (overtaken \/ (~connected /\ event.type = "message" /\ IsShown(event.msg)))
  /\ derailed' = (derailed \/ (~connected /\ event.type = "message" /\ IsAssistant(event.msg))
               \/ (event.type = "agent_end" /\ run = "on"))

\* _createRetryPromiseForAgentEnd, synchronous with the event.
AwaitRetry(m) == retryPending' = (retryPending \/ (connected /\ Retryable(m)))

Begin(messages) ==
  /\ run = "off"
  /\ run' = "on"
  /\ inbox' = messages
  /\ reply' = None
  /\ stopping' = FALSE
  /\ overtaken' = (overtaken \/ \E o \in Owners : Compacting(o))

RunInject ==
  /\ run = "on"
  /\ inbox # <<>>
  /\ transcript' = Append(transcript, Head(inbox))
  /\ inbox' = Tail(inbox)
  /\ Emit(MessageEvent(Head(inbox)))
  /\ UNCHANGED <<run, queued, stopping, reply, entries, connected, handling, lastAssistant,
                 retryVars, overflowRecoveryAttempted, pendingBash, timers, compactions, prompts,
                 nextId, troubles>>

\* The request goes out; the answer bears the time of its first byte.
RunAsk ==
  /\ run = "on"
  /\ inbox = <<>>
  /\ run' = "asking"
  /\ reply' = Assistant(nextId, "none")
  /\ nextId' = nextId + 1
  /\ UNCHANGED <<transcript, inbox, queued, stopping, entries, connected, events, handling,
                 lastAssistant, retryVars, overflowRecoveryAttempted, pendingBash, timers,
                 compactions, prompts, troubles, ghostVars>>

Stops ==
  IF stopping
  THEN {"aborted", "aborted full"} ELSE {"stop", "full"} \union Outcomes

\* The model answers; a message queued meanwhile continues the run.
RunReply(stop) ==
  LET m == [reply EXCEPT !.stop = stop]
  IN  /\ run = "asking"
      /\ stop \in Stops
      /\ transcript' = Append(transcript, m)
      /\ reply' = m
      /\ Emit(MessageEvent(m))
      /\ \/ /\ queued # <<>> /\ IsShown(m)
            /\ run' = "on" /\ inbox' = queued /\ queued' = <<>>
         \/ /\ ~(queued # <<>> /\ IsShown(m))
            /\ run' = "ending"
            /\ UNCHANGED <<inbox, queued>>
      /\ IF stop \in {"stop", "aborted"} THEN UNCHANGED troubles ELSE Trouble
      /\ UNCHANGED <<stopping, entries, connected, handling, lastAssistant, retryVars,
                     overflowRecoveryAttempted, pendingBash, timers, compactions, prompts,
                     nextId>>

\* prompt() calls that wait for the run see it end.
Ended == [c \in Callers |-> IF prompts[c] = "running" THEN "ended" ELSE prompts[c]]

RunEnd ==
  /\ run = "ending"
  /\ run' = "off"
  /\ Emit(AgentEnd(reply))
  /\ AwaitRetry(reply)
  /\ prompts' = Ended
  /\ UNCHANGED <<transcript, inbox, queued, stopping, reply, entries, connected, handling,
                 lastAssistant, retryAttempt, overflowRecoveryAttempted, pendingBash, timers,
                 compactions, nextId, troubles>>

\* The run throws before any answer (streamFn rejects: expired credentials,
\* "fetch failed"): handleRunFailure adds the error to the transcript and emits
\* agent_end with it, but no message event.
RunThrow(stop) ==
  LET m == Assistant(nextId, IF stopping THEN "aborted" ELSE stop)
  IN  /\ run = "on"
      /\ inbox = <<>>
      /\ Trouble
      /\ transcript' = Append(transcript, m)
      /\ run' = "off"
      /\ reply' = m
      /\ nextId' = nextId + 1
      /\ Emit(AgentEnd(m))
      /\ AwaitRetry(m)
      /\ prompts' = Ended
      /\ UNCHANGED <<inbox, queued, stopping, entries, connected, handling, lastAssistant,
                     retryAttempt, overflowRecoveryAttempted, pendingBash, timers, compactions>>

\* agent.continue() from a timer: it asks again, or delivers the queue after an
\* answer; what it throws is swallowed.
TimerFires ==
  LET answered == transcript # <<>> /\ IsAssistant(LastOf(transcript))
      asks == run = "off" /\ transcript # <<>> /\ ~answered
      delivers == run = "off" /\ answered /\ queued # <<>>
  IN  /\ timers > 0
      /\ timers' = timers - 1
      /\ \/ asks /\ Begin(<<>>) /\ UNCHANGED queued
         \/ delivers /\ Begin(queued) /\ queued' = <<>>
         \/ ~asks /\ ~delivers /\ UNCHANGED <<runVars, queued, overtaken>>
      /\ UNCHANGED <<transcript, entries, connected, events, handling, lastAssistant, retryVars,
                     overflowRecoveryAttempted, pendingBash, compactions, prompts, nextId,
                     troubles, derailed>>

-----------------------------------------------------------------------------
(* _processAgentEvent: one event at a time. *)

\* A message is saved, and resets what its kind resets.
SaveMessage ==
  LET m == Head(events).msg
  IN  /\ handling = "no"
      /\ events # <<>>
      /\ Head(events).type = "message"
      /\ events' = Tail(events)
      /\ entries' = Append(entries, m)
      /\ lastAssistant' = IF IsAssistant(m) THEN m ELSE lastAssistant
      /\ overflowRecoveryAttempted' = (overflowRecoveryAttempted /\ IsError(m))
      /\ retryAttempt' = IF IsAssistant(m) /\ ~IsError(m) THEN 0 ELSE retryAttempt
      /\ UNCHANGED <<agentVars, connected, handling, retryPending, pendingBash, timers, compactions,
                     prompts, nextId, troubles, ghostVars>>

\* _resolveRetry, and the prompt() calls that wait for the promise.
Resolved == [c \in Callers |-> IF prompts[c] = "retry" THEN "settle" ELSE prompts[c]]

\* Seeded fault: a run that needs no retry leaves the promise pending.
ResolveRetryNever == UNCHANGED <<retryPending, prompts>>

ResolveRetry == retryPending' = FALSE /\ prompts' = Resolved

\* agent_end of a run of which no answer was saved: nothing to check.
EndUnanswered ==
  /\ handling = "no"
  /\ events # <<>>
  /\ Head(events).type = "agent_end"
  /\ lastAssistant = None
  /\ events' = Tail(events)
  /\ UNCHANGED <<agentVars, entries, connected, handling, lastAssistant, retryVars,
                 overflowRecoveryAttempted, pendingBash, timers, compactions, prompts, nextId,
                 troubles, ghostVars>>

EndOfRun ==
  /\ handling = "no"
  /\ events # <<>>
  /\ Head(events).type = "agent_end"
  /\ lastAssistant # None
  /\ events' = Tail(events)
  /\ lastAssistant' = None

MayRetry(m) == Retryable(m) /\ retryAttempt < MaxRetries

\* _handleRetryableError, up to the backoff.  The error leaves the transcript
\* and stays in the session.
EndBacksOff ==
  /\ EndOfRun
  /\ MayRetry(lastAssistant)
  /\ retryAttempt' = retryAttempt + 1
  /\ retryPending' = TRUE
  /\ transcript' = DropLastAssistant(transcript)
  /\ overtaken' = (overtaken \/ Overtakes)
  /\ handling' = "backoff"
  /\ UNCHANGED <<runVars, queued, entries, connected, overflowRecoveryAttempted, pendingBash,
                 timers, compactions, prompts, nextId, troubles, derailed>>

\* No retry, or no more: resolve the promise and check for compaction.
CheckAfterRun(m) ==
  LET verdict == Verdict(m, TRUE)
  IN  /\ ResolveRetry
      /\ CheckCompaction(EventHandler, verdict, transcript)
      /\ handling' = IF verdict = "no" THEN "no" ELSE "compacting"
      /\ overtaken' = (overtaken \/ (verdict = "overflow" /\ Overtakes))

EndChecks ==
  /\ EndOfRun
  /\ ~MayRetry(lastAssistant)
  /\ retryAttempt' = IF Retryable(lastAssistant) THEN 0 ELSE retryAttempt
  /\ CheckAfterRun(lastAssistant)
  /\ UNCHANGED <<runVars, queued, entries, connected, pendingBash, timers, nextId, troubles, derailed>>

BackoffEnds ==
  /\ handling = "backoff"
  /\ handling' = "no"
  /\ timers' = timers + 1
  /\ UNCHANGED <<agentVars, entries, connected, events, lastAssistant, retryVars,
                 overflowRecoveryAttempted, pendingBash, compactions, prompts, nextId, troubles,
                 ghostVars>>

-----------------------------------------------------------------------------
(* prompt(). *)

\* The input hook of an extension is awaited before anything is looked at.
PromptCalled(c) ==
  /\ prompts[c] = "idle"
  /\ \A d \in 1..(c - 1) : prompts[d] # "idle"
  /\ prompts' = [prompts EXCEPT ![c] = "input"]
  /\ UNCHANGED <<agentVars, entries, connected, events, handling, lastAssistant, retryVars,
                 overflowRecoveryAttempted, pendingBash, timers, compactions, nextId, troubles,
                 ghostVars>>

\* While the agent streams the message is queued.
PromptQueues(c) ==
  /\ prompts[c] = "input"
  /\ run # "off"
  /\ queued' = Append(queued, User(nextId))
  /\ nextId' = nextId + 1
  /\ prompts' = [prompts EXCEPT ![c] = "done"]
  /\ UNCHANGED <<transcript, runVars, entries, connected, events, handling, lastAssistant,
                 retryVars, overflowRecoveryAttempted, pendingBash, timers, compactions, troubles,
                 ghostVars>>

\* Otherwise deferred bash results are added, and the last answer is checked.
FlushPendingBash ==
  /\ pendingBash' = <<>>
  /\ entries' = entries \o pendingBash
  /\ overtaken' = (overtaken \/ UnsavedMessages)

PromptChecks(c) ==
  LET verdict == Verdict(LastWhere(transcript, IsAssistant), FALSE)
  IN  /\ prompts[c] = "input"
      /\ run = "off"
      /\ FlushPendingBash
      /\ CheckCompaction(c, verdict, transcript \o pendingBash)
      /\ prompts' = [prompts EXCEPT ![c] = IF verdict = "no" THEN "ready" ELSE "checking"]
      /\ UNCHANGED <<runVars, queued, connected, events, handling, lastAssistant, retryVars,
                     timers, nextId, troubles, derailed>>

\* No model or no credentials: prompt() throws, after the flush.
PromptRefused(c) ==
  /\ prompts[c] = "input"
  /\ run = "off"
  /\ Trouble
  /\ FlushPendingBash
  /\ transcript' = transcript \o pendingBash
  /\ prompts' = [prompts EXCEPT ![c] = "done"]
  /\ UNCHANGED <<runVars, queued, connected, events, handling, lastAssistant, retryVars,
                 overflowRecoveryAttempted, timers, compactions, nextId, derailed>>

\* before_agent_start was awaited; agent.prompt() throws if a run began meanwhile.
PromptRuns(c) ==
  /\ prompts[c] = "ready"
  /\ Begin(<<User(nextId)>>)
  /\ nextId' = nextId + 1
  /\ prompts' = [prompts EXCEPT ![c] = "running"]
  /\ UNCHANGED <<transcript, queued, entries, connected, events, handling, lastAssistant, retryVars,
                 overflowRecoveryAttempted, pendingBash, timers, compactions, troubles, derailed>>

PromptRejected(c) ==
  /\ prompts[c] = "ready"
  /\ run # "off"
  /\ prompts' = [prompts EXCEPT ![c] = "done"]
  /\ UNCHANGED <<agentVars, entries, connected, events, handling, lastAssistant, retryVars,
                 overflowRecoveryAttempted, pendingBash, timers, compactions, nextId, troubles,
                 ghostVars>>

\* waitForRetry: wait for the promise, then for the run.
PromptWaits(c) ==
  /\ \/ /\ prompts[c] = "ended"
        /\ prompts' = [prompts EXCEPT ![c] = IF retryPending THEN "retry" ELSE "done"]
     \/ /\ prompts[c] = "settle"
        /\ run = "off"
        /\ prompts' = [prompts EXCEPT ![c] = "done"]
  /\ UNCHANGED <<agentVars, entries, connected, events, handling, lastAssistant, retryVars,
                 overflowRecoveryAttempted, pendingBash, timers, compactions, nextId, troubles,
                 ghostVars>>

-----------------------------------------------------------------------------
(* What else the user and the extensions do. *)

\* followUp() and queued custom messages.
Queue ==
  /\ Intervene("queue")
  /\ queued' = Append(queued, User(nextId))
  /\ nextId' = nextId + 1
  /\ UNCHANGED <<transcript, runVars, entries, connected, events, handling, lastAssistant,
                 retryVars, overflowRecoveryAttempted, pendingBash, timers, compactions, prompts, ghostVars>>

\* recordBashResult: deferred while the agent streams.
RecordBash ==
  LET m == Msg("bash", nextId, "none", 0)
  IN  /\ Intervene("bash")
      /\ nextId' = nextId + 1
      /\ \/ /\ run # "off"
            /\ pendingBash' = Append(pendingBash, m)
            /\ UNCHANGED <<transcript, entries, overtaken>>
         \/ /\ run = "off"
            /\ transcript' = Append(transcript, m)
            /\ entries' = Append(entries, m)
            /\ overtaken' = (overtaken \/ UnsavedMessages)
            /\ UNCHANGED pendingBash
      /\ UNCHANGED <<runVars, queued, connected, events, handling, lastAssistant, retryVars,
                     overflowRecoveryAttempted, timers, compactions, prompts,
                     derailed>>

\* abortRetry: the sleep rejects, the attempt counter is reset, and the handler
\* goes on to the compaction check; outside the backoff only the promise resolves.
AbortRetry ==
  \/ /\ handling = "backoff"
     /\ retryAttempt' = 0
     /\ CheckAfterRun(LastWhere(entries, IsAssistant))
  \/ /\ handling # "backoff"
     /\ ResolveRetry
     /\ UNCHANGED <<retryAttempt, handling, compactions, transcript, overflowRecoveryAttempted,
                    overtaken>>

\* abort().
Abort ==
  /\ Intervene("abort")
  /\ AbortRetry
  /\ stopping' = (run # "off")
  /\ UNCHANGED <<run, inbox, reply, queued, entries, connected, events, lastAssistant, pendingBash,
                 timers, nextId, derailed>>

\* compact(): unsubscribe, abort, and wait until the agent is idle.
ManualCompaction ==
  /\ Intervene("compact")
  /\ connected
  /\ connected' = FALSE
  /\ AbortRetry
  /\ stopping' = (run # "off")
  /\ UNCHANGED <<run, inbox, reply, queued, entries, events, lastAssistant, pendingBash, timers,
                 nextId, derailed>>

ManualReady ==
  /\ ~connected
  /\ ~Compacting(Manual)
  /\ run = "off"
  /\ compactions' = Started(Manual, "manual", compactions)
  /\ UNCHANGED <<agentVars, entries, connected, events, handling, lastAssistant, retryVars,
                 overflowRecoveryAttempted, pendingBash, timers, prompts, nextId, troubles,
                 ghostVars>>

-----------------------------------------------------------------------------
Init ==
  /\ transcript = <<>> /\ run = "off" /\ inbox = <<>> /\ queued = <<>>
  /\ stopping = FALSE /\ reply = None
  /\ entries = <<>> /\ connected = TRUE /\ events = <<>> /\ handling = "no"
  /\ lastAssistant = None /\ retryPending = FALSE /\ retryAttempt = 0
  /\ overflowRecoveryAttempted = FALSE /\ pendingBash = <<>> /\ timers = 0
  /\ compactions = [o \in Owners |-> NoCompaction]
  /\ prompts = [c \in Callers |-> "idle"]
  /\ nextId = 1 /\ troubles = 0
  /\ derailed = FALSE /\ overtaken = FALSE

Running ==
  \/ RunInject
  \/ RunAsk
  \/ \E stop \in Stops : RunReply(stop)
  \/ RunEnd
  \/ \E stop \in Throws : RunThrow(stop)
Handler == SaveMessage \/ EndUnanswered \/ EndBacksOff \/ EndChecks \/ BackoffEnds
Compaction(o) == Prepare(o) \/ FinishCompaction(o) \/ FailCompaction(o)
Prompt(c) ==
  \/ PromptQueues(c)
  \/ PromptChecks(c)
  \/ PromptRefused(c)
  \/ PromptRuns(c)
  \/ PromptRejected(c)
  \/ PromptWaits(c)

Next ==
  \/ Running
  \/ Handler
  \/ TimerFires
  \/ \E o \in Owners : Compaction(o)
  \/ \E c \in Callers : PromptCalled(c) \/ Prompt(c)
  \/ Queue
  \/ RecordBash
  \/ Abort
  \/ ManualCompaction
  \/ ManualReady

Spec == Init /\ [][Next]_vars

\* Requests, timers, extension handlers and summaries come to an end one way or
\* another.  Nobody has to call prompt(), abort() or compact().
FairSpec ==
  /\ Spec
  /\ WF_vars(Running)
  /\ WF_vars(Handler)
  /\ WF_vars(TimerFires)
  /\ \A o \in Owners : WF_vars(Compaction(o))
  /\ \A c \in Callers : WF_vars(Prompt(c))
  /\ WF_vars(ManualReady)

-----------------------------------------------------------------------------
(* Properties. *)

\* Every variable holds a value of its kind.
TypeOK ==
  /\ \A s \in {transcript, inbox, queued, entries, pendingBash} : s \in Seq(Messages)
  /\ run \in {"off", "on", "asking", "ending"}
  /\ stopping \in BOOLEAN /\ connected \in BOOLEAN /\ retryPending \in BOOLEAN
  /\ overflowRecoveryAttempted \in BOOLEAN
  /\ reply \in Messages /\ lastAssistant \in Messages
  /\ handling \in {"no", "backoff", "compacting"}
  /\ retryAttempt \in 0..MaxRetries
  /\ timers \in Nat
  /\ prompts \in [Callers -> {"idle", "input", "checking", "ready", "running", "ended", "retry",
                              "settle", "done"}]
  /\ (handling = "compacting") = Compacting(EventHandler)
  /\ \A c \in Callers : (prompts[c] = "checking") = Compacting(c)

\* The agent does not run, the session has handled every event and no
\* compaction is under way.
AtRest ==
  /\ run = "off" /\ events = <<>> /\ handling = "no"
  /\ connected /\ \A o \in Owners : ~Compacting(o)

Shown(s) == Within(s, {m \in Messages : IsShown(m)})

\* What the next request shows is what the session would show after a reload
\* (agent.state.messages against sessionManager.buildSessionContext), whatever
\* order of retries, compactions, deferred bash results and aborts led there,
\* as long as none of them touched the conversation while the agent was running
\* or while messages were waiting to be saved.
TranscriptIsContext == AtRest /\ ~overtaken => Shown(transcript) = Shown(Context(entries))

\* An overflow is recovered from once: a second overflow compaction comes only
\* after a user message or an answer that is no error
\* (_overflowRecoveryAttempted).
OneOverflowRecovery ==
  ~overtaken =>
    \A i, j \in DOMAIN entries :
      /\ i < j
      /\ entries[i].role = "compaction" /\ entries[i].stop = "overflow"
      /\ entries[j].role = "compaction" /\ entries[j].stop = "overflow"
      => \E k \in i..j : \/ entries[k].role = "user"
                         \/ IsAssistant(entries[k]) /\ ~IsError(entries[k])

Settles(c) == prompts[c] = "done"

\* prompt() returns or throws once the run and its retries are over, unless the
\* session got no message event for an answer or a compaction, replacing the
\* transcript, put back the error the retry had taken out.
PromptSettles == \A c \in Callers : prompts[c] = "input" ~> Settles(c) \/ derailed

\* prompt() always returns or throws: waitForRetry waits only for a retry that
\* is in progress.
PromptAlwaysSettles == \A c \in Callers : prompts[c] = "input" ~> Settles(c)

OverflowJustCompacted ==
  LastOf(entries).role = "compaction" /\ LastOf(entries).stop = "overflow"

\* After a successful overflow compaction the session asks again, so that the
\* compaction does not stay the last entry.
OverflowIsRetried == OverflowJustCompacted ~> ~OverflowJustCompacted

\* The same, unless compact() keeps the session from listening or the session
\* got no message event for an answer.
UndisturbedOverflowIsRetried ==
  OverflowJustCompacted ~> ~OverflowJustCompacted \/ ~connected \/ derailed
=============================================================================

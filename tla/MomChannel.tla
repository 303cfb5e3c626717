----------------------------- MODULE MomChannel -----------------------------
(***************************************************************************)
(* packages/mom, one Slack channel: the messages and events that come in   *)
(* (slack.ts), the queue that runs them one at a time, the handler's state *)
(* (main.ts), and the log that is brought into the model's context before  *)
(* each run (context.ts, agent.ts).                                        *)
(*                                                                         *)
(* What comes in is named by a member of Messages (users) or Events; the   *)
(* text of a message is TextOf[m].  The context is the sequence of the     *)
(* texts it holds, an event standing for its own.                          *)
(***************************************************************************)
EXTENDS Naturals, Sequences, SequencesExt, FiniteSets

CONSTANTS
  Messages, TextOf, \* user messages and their texts
  Events,           \* executions of event files
  Stops,            \* user messages that say stop
  QueueLimit,       \* 5 in enqueueEvent
  None

VARIABLES
  queue, processing,       \* ChannelQueue
  running, stopRequested,  \* ChannelState
  current,   \* what is being worked on, or None
  stage,     \* where the run is
  aborted,   \* session.abort() has reached the run
  log,       \* log.jsonl: the messages logged so far
  context,   \* user messages of context.jsonl
  arrived,   \* what has come in
  synced,    \* history: the messages in the log at the last synchronisation
  refused    \* history: messages answered with "Already working" or "Nothing running", events discarded

vars == <<queue, processing, running, stopRequested, current, stage, aborted,
          log, context, arrived, synced, refused>>
runVars == <<queue, processing, running, stopRequested, current, stage, aborted>>

Init ==
  /\ queue = <<>> /\ processing = FALSE
  /\ running = FALSE /\ stopRequested = FALSE
  /\ current = None /\ stage = "idle" /\ aborted = FALSE
  /\ log = <<>> /\ context = <<>>
  /\ arrived = {} /\ synced = {} /\ refused = {}

Text(w) == IF w \in Events THEN w ELSE TextOf[w]

\* Seeded fault: running is set when the status message has been posted.
BeginLate(w) ==
  /\ processing' = TRUE /\ current' = w /\ stage' = "posting"
  /\ stopRequested' = FALSE /\ aborted' = FALSE
  /\ UNCHANGED running

\* processNext calls handleEvent, which sets its state before its first await.
Begin(w) ==
  /\ processing' = TRUE /\ current' = w /\ stage' = "posting"
  /\ running' = TRUE /\ stopRequested' = FALSE /\ aborted' = FALSE

\* enqueue: the work starts at once if nothing is being processed.
Enqueue(w) ==
  \/ ~processing /\ Begin(w) /\ UNCHANGED queue
  \/ processing /\ queue' = Append(queue, w)
     /\ UNCHANGED <<processing, running, stopRequested, current, stage, aborted>>

\* handler.isRunning.
IsRunning == running

\* A mention or a direct message: always logged, refused while a run goes on.
Mention(m) ==
  /\ m \in Messages \ (Stops \union arrived)
  /\ arrived' = arrived \union {m}
  /\ log' = Append(log, m)
  /\ \/ IsRunning /\ refused' = refused \union {m} /\ UNCHANGED runVars
     \/ ~IsRunning /\ Enqueue(m) /\ UNCHANGED refused
  /\ UNCHANGED <<context, synced>>

\* Other messages of the channel, and those replayed from before the start.
Chatter(m) ==
  /\ m \in Messages \ (Stops \union arrived)
  /\ arrived' = arrived \union {m}
  /\ log' = Append(log, m)
  /\ UNCHANGED <<runVars, context, synced, refused>>

\* stop is logged like any message; abort() reaches only a run that has begun.
Stop(m) ==
  /\ m \in Stops \ arrived
  /\ arrived' = arrived \union {m}
  /\ log' = Append(log, m)
  /\ \/ /\ running
        /\ stopRequested' = TRUE
        /\ aborted' = (aborted \/ stage = "prompting")
        /\ UNCHANGED refused
     \/ ~running /\ refused' = refused \union {m} /\ UNCHANGED <<stopRequested, aborted>>
  /\ UNCHANGED <<queue, processing, running, current, stage, context, synced>>

Full == Len(queue) >= QueueLimit

\* enqueueEvent.
Event(e) ==
  /\ e \in Events \ arrived
  /\ arrived' = arrived \union {e}
  /\ \/ Full /\ refused' = refused \union {e} /\ UNCHANGED runVars
     \/ ~Full /\ Enqueue(e) /\ UNCHANGED refused
  /\ UNCHANGED <<log, context, synced>>

----------------------------------------------------------------------------
(* The run *)

\* Seeded fault: what was logged after the current message is left out with it.
SkippedFromCurrent(m) ==
  \E i, j \in DOMAIN log : log[i] = current /\ log[j] = m /\ i <= j

\* Seeded fault: the current message is synchronised too.
SkipsNothing(m) == FALSE

\* The current message is added by the prompt.
Skipped(m) == m = current

\* A text that the context holds already is not added.
Brought(c, m) == IF Skipped(m) \/ Text(m) \in ToSet(c) THEN c ELSE Append(c, Text(m))

\* syncLogToSessionManager: texts of the log that the context does not hold.
Synchronized ==
  LET first[n \in 0 .. Len(log)] == IF n = 0 THEN context ELSE Brought(first[n - 1], log[n])
  IN  first[Len(log)]

\* setTyping and setWorking have posted; the runner brings the log in and then
\* awaits a debug file.
Synchronize ==
  /\ stage = "posting"
  /\ stage' = "preparing"
  /\ context' = Synchronized
  /\ synced' = ToSet(log)
  /\ UNCHANGED <<queue, processing, running, stopRequested, current, aborted, log, arrived, refused>>

\* session.prompt starts its run and saves the message.
Prompt ==
  /\ stage = "preparing"
  /\ stage' = "prompting"
  /\ context' = Append(context, Text(current))
  /\ UNCHANGED <<queue, processing, running, stopRequested, current, aborted, log, arrived, synced, refused>>

\* session.prompt rejects before the message is saved.
PromptRejects ==
  /\ stage = "preparing"
  /\ stage' = "finishing"
  /\ UNCHANGED <<queue, processing, running, stopRequested, current, aborted, log, context,
                 arrived, synced, refused>>

\* The agent is idle again; posts that are still queued are awaited.
AgentEnds ==
  /\ stage = "prompting"
  /\ stage' = "finishing"
  /\ UNCHANGED <<queue, processing, running, stopRequested, current, aborted, log, context,
                 arrived, synced, refused>>

\* Seeded fault: the queue does not go on after its work.
EndWithoutNext ==
  /\ stage = "finishing"
  /\ processing' = FALSE /\ running' = FALSE /\ current' = None /\ stage' = "idle"
  /\ UNCHANGED <<queue, stopRequested, aborted, log, context, arrived, synced, refused>>

\* handleEvent's finally, and processNext: nothing else comes in between.
End ==
  /\ stage = "finishing"
  /\ \/ queue # <<>> /\ Begin(Head(queue)) /\ queue' = Tail(queue)
     \/ /\ queue = <<>>
        /\ processing' = FALSE /\ running' = FALSE /\ current' = None /\ stage' = "idle"
        /\ UNCHANGED <<queue, stopRequested, aborted>>
  /\ UNCHANGED <<log, context, arrived, synced, refused>>

Run == Synchronize \/ Prompt \/ PromptRejects \/ AgentEnds \/ End

Next ==
  \/ \E m \in Messages : Mention(m) \/ Chatter(m) \/ Stop(m)
  \/ \E e \in Events : Event(e)
  \/ Run

Spec == Init /\ [][Next]_vars

\* Posts return and the agent ends; nobody has to write.
Fairness == WF_vars(Run)

FairSpec == Spec /\ Fairness

----------------------------------------------------------------------------
(* Properties *)

TypeOK ==
  /\ queue \in Seq(Messages \union Events)
  /\ current \in Messages \union Events \union {None}
  /\ stage \in {"idle", "posting", "preparing", "prompting", "finishing"}
  /\ log \in Seq(Messages) /\ arrived \subseteq Messages \union Events

\* The flag that isRunning reads says whether the queue is working: no message
\* slips in behind a run that has begun, none is refused when nothing runs.
BusyWhenWorking == running <=> processing

Times(t) == Cardinality({i \in DOMAIN context : context[i] = t})

\* "This ensures that messages logged while mom wasn't running (channel chatter,
\* backfilled messages, messages while busy) are added to the LLM context": when
\* the agent runs, the text of every message logged before the synchronisation is
\* in its context; and no message is both synchronised and prompted, so a text is
\* there at most as often as it was written.
ContextMatchesLog ==
  /\ stage = "prompting" => \A m \in synced : Text(m) \in ToSet(context)
  /\ \A m \in Messages : Times(Text(m)) <= Cardinality({n \in arrived : Text(n) = Text(m)})

\* The same claim counted: a text that was logged twice is there twice.
EveryMessageInContext ==
  stage = "prompting" =>
    \A m \in synced : Times(Text(m)) >= Cardinality({n \in synced : Text(n) = Text(m)})

\* "Say stop to cancel": a run that was asked to stop does not go on to its end.
StopStops ==
  [][stage = "prompting" /\ stage' = "finishing" /\ stopRequested => aborted]_vars

\* Whatever was queued is worked on.
QueuedRuns == \A e \in Events : e \in ToSet(queue) ~> current = e
=============================================================================

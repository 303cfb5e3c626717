--------------------------- MODULE PendingMessages ---------------------------
(***************************************************************************)
(* Messages that wait for the agent, in core/agent-session.ts.  A message  *)
(* typed while the agent runs goes into one of the agent's queues, and its *)
(* text into a list of the session that front ends show and that           *)
(* clearQueue() gives back to the editor.  The session learns that a       *)
(* message has left the agent's queue from the event that announces it,    *)
(* handled behind other events, and finds it in its lists by its text.     *)
(* Messages for the next turn wait in a third list until a prompt takes    *)
(* them, which may yet be refused.                                         *)
(*                                                                         *)
(* The agent is reduced to its queues and the messages it has drained or   *)
(* was prompted with and has not announced; Agent has it in full.          *)
(***************************************************************************)
EXTENDS Naturals, Sequences, FiniteSets, SequencesExt

CONSTANTS
  Users,     \* messages of the user
  Customs,   \* messages of extensions
  Texts,
  NoText,    \* the text of a message made of images only
  MaxFaults  \* bound: runs that fail

Channels == {"steer", "followUp"}

VARIABLES
  text,        \* of each user message
  queued,      \* per channel the agent's queue
  lists,       \* per channel the session's list: _steeringMessages, _followUpMessages
  nextTurn,    \* _pendingNextTurnMessages
  mode,        \* "one-at-a-time" or "all"
  running,     \* isStreaming
  announcing,  \* what the run will announce before it asks the model
  events,      \* the user messages of the session's event queue
  connection,  \* "on", "aborting" or "off", as compact() leaves it
  prompts,     \* per user message where its prompt() is
  taken,       \* per user message what its prompt() submits
  sent,        \* messages handed to the session
  faults,
  \* history
  announced,   \* messages in the transcript, in order
  shown,       \* user messages with a text in the lists
  restored,    \* texts given back to the editor
  cleared,     \* messages clearQueue took from the agent
  dropped,     \* messages that went with a run that failed
  refused,     \* messages of prompts that found the agent running
  unheard,     \* messages announced while the session was unsubscribed
  mistaken     \* a text was taken from the lists for another message

waitingVars == <<text, queued, lists, nextTurn>>
runVars == <<running, announcing, announced>>
promptVars == <<prompts, taken>>
lossVars == <<restored, cleared, dropped, refused, unheard>>
pendingVars ==
  <<waitingVars, mode, runVars, events, connection, promptVars, sent, faults, shown,
    lossVars, mistaken>>

PendingInit ==
  /\ text \in [Users -> Texts]
  /\ queued = [ch \in Channels |-> <<>>] /\ lists = queued /\ nextTurn = <<>>
  /\ mode \in {"one-at-a-time", "all"}
  /\ running = FALSE /\ announcing = <<>> /\ announced = <<>>
  /\ events = <<>> /\ connection = "on"
  /\ prompts = [u \in Users |-> "none"] /\ taken = [u \in Users |-> <<>>]
  /\ sent = {} /\ faults = 0 /\ shown = {} /\ mistaken = FALSE
  /\ restored = <<>> /\ cleared = {} /\ dropped = {} /\ refused = {} /\ unheard = {}

-----------------------------------------------------------------------------
(* Handing messages over. *)

\* _queueSteer and _queueFollowUp
Queue(u, ch) ==
  /\ lists' = [lists EXCEPT ![ch] = Append(@, text[u])]
  /\ queued' = [queued EXCEPT ![ch] = Append(@, u)]
  /\ shown' = shown \union {u}

\* steer() and followUp(), whether or not the agent runs
Say(u, ch) ==
  /\ u \notin sent /\ sent' = sent \union {u}
  /\ Queue(u, ch)
  /\ UNCHANGED <<text, nextTurn, mode, runVars, events, connection, promptVars, faults,
                 lossVars, mistaken>>

\* prompt(), up to the handlers of "input"
Prompt(u) ==
  /\ u \notin sent /\ sent' = sent \union {u}
  /\ prompts' = [prompts EXCEPT ![u] = "asked"]
  /\ UNCHANGED <<waitingVars, mode, runVars, events, connection, taken, faults, shown,
                 lossVars, mistaken>>

\* After them: queued if the agent runs; handled by an extension, or refused because no
\* queue was named or no model or key is there; or prepared for a run.
Route(u) ==
  /\ prompts[u] = "asked"
  /\ \/ running /\ \E ch \in Channels : Queue(u, ch)
        /\ prompts' = [prompts EXCEPT ![u] = "done"] /\ UNCHANGED refused
     \/ prompts' = [prompts EXCEPT ![u] = "done"] /\ refused' = refused \union {u}
        /\ UNCHANGED <<queued, lists, shown>>
     \/ ~running /\ prompts' = [prompts EXCEPT ![u] = "checking"]
        /\ UNCHANGED <<queued, lists, shown, refused>>
  /\ UNCHANGED <<text, nextTurn, mode, runVars, events, connection, taken, sent, faults,
                 restored,
                 cleared, dropped, unheard, mistaken>>

\* Seeded fault: the list is not emptied.
TakeNextTurnKeeps(u) ==
  taken' = [taken EXCEPT ![u] = <<u>> \o nextTurn] /\ UNCHANGED nextTurn

\* The user's message first, then those that waited for this turn.
TakeNextTurn(u) ==
  taken' = [taken EXCEPT ![u] = <<u>> \o nextTurn] /\ nextTurn' = <<>>

\* After the check for compaction
Assemble(u) ==
  /\ prompts[u] = "checking"
  /\ prompts' = [prompts EXCEPT ![u] = "assembled"]
  /\ TakeNextTurn(u)
  /\ UNCHANGED <<text, queued, lists, mode, runVars, events, connection, sent, faults, shown,
                 lossVars, mistaken>>

\* After the handlers of "before_agent_start": agent.prompt()
Submit(u) ==
  /\ prompts[u] = "assembled"
  /\ prompts' = [prompts EXCEPT ![u] = "done"]
  /\ IF running
     THEN refused' = refused \union ToSet(taken[u]) /\ UNCHANGED <<running, announcing>>
     ELSE running' = TRUE /\ announcing' = taken[u] /\ UNCHANGED refused
  /\ taken' = [taken EXCEPT ![u] = <<>>]
  /\ UNCHANGED <<waitingVars, mode, announced, events, connection, sent, faults, shown,
                 restored, cleared, dropped, unheard, mistaken>>

\* sendCustomMessage()
SendCustom(c) ==
  /\ c \notin sent /\ sent' = sent \union {c}
  /\ \/ nextTurn' = Append(nextTurn, c) /\ UNCHANGED <<queued, running, announcing, announced>>
     \/ running /\ (\E ch \in Channels : queued' = [queued EXCEPT ![ch] = Append(@, c)])
        /\ UNCHANGED <<nextTurn, running, announcing, announced>>
     \/ ~running /\ running' = TRUE /\ announcing' = <<c>>
        /\ UNCHANGED <<queued, nextTurn, announced>>
     \/ ~running /\ announced' = Append(announced, c)
        /\ UNCHANGED <<queued, nextTurn, running, announcing>>
  /\ UNCHANGED <<text, lists, mode, events, connection, promptVars, faults, shown, lossVars,
                 mistaken>>

-----------------------------------------------------------------------------
(* The agent. *)

Drained(q) == IF mode = "all" THEN q ELSE SubSeq(q, 1, 1)
Left(q) == IF mode = "all" THEN <<>> ELSE Tail(q)

\* A poll of the run, or continue() after an answer, which starts one.
Drain(ch) ==
  /\ queued[ch] # <<>> /\ announcing = <<>>
  /\ ~running /\ ch = "followUp" => queued["steer"] = <<>>
  /\ running' = TRUE
  /\ announcing' = Drained(queued[ch])
  /\ queued' = [queued EXCEPT ![ch] = Left(@)]
  /\ UNCHANGED <<text, lists, nextTurn, mode, announced, events, connection, promptVars,
                 sent, faults, shown, lossVars, mistaken>>

\* message_start; the session hears of it when it is subscribed
Announce ==
  /\ announcing # <<>>
  /\ LET m == Head(announcing) IN
       /\ announced' = Append(announced, m)
       /\ events' = IF m \in Users /\ connection = "on" THEN Append(events, m) ELSE events
       /\ unheard' = IF connection = "on" THEN unheard ELSE unheard \union {m}
  /\ announcing' = Tail(announcing)
  /\ UNCHANGED <<waitingVars, mode, running, connection, promptVars, sent, faults, shown,
                 restored, cleared, dropped, refused, mistaken>>

\* The run ends without asking the queues when it was aborted or failed.
RunEnds ==
  /\ running /\ announcing = <<>> /\ running' = FALSE
  /\ UNCHANGED <<waitingVars, mode, announcing, announced, events, connection, promptVars, sent,
                 faults, shown, lossVars, mistaken>>

\* A rejected listener ends it before it has announced everything.
RunFails ==
  /\ faults < MaxFaults /\ faults' = faults + 1
  /\ running /\ announcing # <<>>
  /\ running' = FALSE /\ announcing' = <<>> /\ dropped' = dropped \union ToSet(announcing)
  /\ UNCHANGED <<waitingVars, mode, announced, events, connection, promptVars, sent, shown,
                 restored, cleared, refused, unheard, mistaken>>

-----------------------------------------------------------------------------
(* The session's lists. *)

Without(s, t) ==
  LET i == SelectInSeq(s, LAMBDA x : x = t) IN IF i = 0 THEN s ELSE RemoveAt(s, i)

\* Seeded fault: only the list of steering messages is searched.
HearOfSteering(m, t) ==
  /\ lists' = [lists EXCEPT !["steer"] = Without(@, t)]
  /\ shown' = shown \ {m}
  /\ mistaken' = (mistaken \/ (Contains(lists["steer"], t) /\ m \notin shown))

\* _processAgentEvent on message_start
HearOf(m, t) ==
  LET ch == IF Contains(lists["steer"], t) THEN "steer" ELSE "followUp" IN
    /\ lists' = [lists EXCEPT ![ch] = Without(@, t)]
    /\ shown' = shown \ {m}
    /\ mistaken' = (mistaken \/ (Contains(lists[ch], t) /\ m \notin shown))

HandleStart ==
  /\ events # <<>> /\ events' = Tail(events)
  /\ LET m == Head(events) IN
       IF text[m] = NoText THEN UNCHANGED <<lists, shown, mistaken>> ELSE HearOf(m, text[m])
  /\ UNCHANGED <<text, queued, nextTurn, mode, runVars, connection, promptVars, sent, faults,
                 lossVars>>

InQueues == ToSet(queued["steer"]) \union ToSet(queued["followUp"])

\* Seeded fault: follow-ups are cleared and not given back.
ReturnedSteering == lists["steer"]
Returned == lists["steer"] \o lists["followUp"]

\* clearQueue(), when there is something to clear
ClearQueue ==
  /\ Returned # <<>> \/ InQueues # {}
  /\ restored' = restored \o Returned
  /\ lists' = [ch \in Channels |-> <<>>] /\ shown' = {}
  /\ cleared' = cleared \union InQueues
  /\ queued' = [ch \in Channels |-> <<>>]
  /\ UNCHANGED <<text, nextTurn, mode, runVars, events, connection, promptVars, sent, faults,
                 dropped, refused, unheard, mistaken>>

\* compact() unsubscribes, waits until the run has ended, and subscribes at the end.
Compact ==
  /\ \/ connection = "on" /\ connection' = "aborting"
     \/ connection = "aborting" /\ ~running /\ connection' = "off"
     \/ connection = "off" /\ connection' = "on"
  /\ UNCHANGED <<waitingVars, mode, runVars, events, promptVars, sent, faults, shown,
                 lossVars, mistaken>>

PendingNext ==
  \/ \E u \in Users : \/ \E ch \in Channels : Say(u, ch)
                      \/ Prompt(u) \/ Route(u) \/ Assemble(u) \/ Submit(u)
  \/ \E c \in Customs : SendCustom(c)
  \/ \E ch \in Channels : Drain(ch)
  \/ Announce \/ RunEnds \/ RunFails \/ HandleStart \/ ClearQueue \/ Compact

PendingSpec == PendingInit /\ [][PendingNext]_pendingVars

-----------------------------------------------------------------------------
Count(s, t) == Cardinality({i \in DOMAIN s : s[i] = t})
Listed(t) == Count(lists["steer"], t) + Count(lists["followUp"], t)
Restored(t) == Count(restored, t)

PendingTypeOK ==
  /\ text \in [Users -> Texts]
  /\ queued \in [Channels -> Seq(Users \union Customs)] /\ lists \in [Channels -> Seq(Texts)]
  /\ nextTurn \in Seq(Customs) /\ mode \in {"one-at-a-time", "all"} /\ running \in BOOLEAN
  /\ announcing \in Seq(Users \union Customs) /\ announced \in Seq(Users \union Customs)
  /\ events \in Seq(Users) /\ connection \in {"on", "aborting", "off"}
  /\ prompts \in [Users -> {"none", "asked", "checking", "assembled", "done"}]
  /\ taken \in [Users -> Seq(Users \union Customs)]
  /\ sent \subseteq Users \union Customs /\ faults \in 0 .. MaxFaults

\* Nothing typed is lost by clearQueue(): what it takes from the agent's queues it
\* gives back to the editor, unless another message's text was taken for it.
ClearedGivenBack ==
  ~mistaken =>
    \A t \in Texts : Cardinality({u \in cleared \cap Users : text[u] = t}) <= Restored(t)

\* A text the lists hold when all events are handled is that of a queued message, unless
\* the message went with a run that failed, was announced while the session was
\* unsubscribed, or has no text to be found by.
ListsAreQueues ==
  announcing = <<>> /\ events = <<>> /\ ~mistaken =>
    \A t \in Texts \ {NoText} :
      Listed(t) = Cardinality({u \in InQueues \cap Users : text[u] = t})
                + Cardinality({u \in shown \cap (dropped \union unheard) : text[u] = t})

\* Every message is in one place: waiting, with a prompt, about to be announced or in
\* the transcript, unless it was cleared, dropped or refused.
Places(m) ==
  <<m \in InQueues, m \in ToSet(nextTurn), \E u \in Users : m \in ToSet(taken[u]),
    m \in Users /\ prompts[m] \in {"asked", "checking"}, m \in ToSet(announcing),
    m \in ToSet(announced), m \in cleared, m \in dropped, m \in refused>>
InOnePlace ==
  /\ \A m \in sent : LET places == Places(m) IN Cardinality({i \in 1 .. 9 : places[i]}) = 1
  /\ IsInjective(announced)

\* The three together: nothing that waits for the agent is lost or kept twice.
WaitingKept == ClearedGivenBack /\ ListsAreQueues /\ InOnePlace
=============================================================================

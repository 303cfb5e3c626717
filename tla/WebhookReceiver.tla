--------------------------- MODULE WebhookReceiver ---------------------------
(***************************************************************************)
(* default-extensions/webhook-receiver: events that arrive over HTTP are   *)
(* handed to the agent.  A hook in queue mode puts them into a bounded     *)
(* queue with waiters (_registry.ts); one in trigger mode sends a message, *)
(* which is a prompt when the agent is idle and a follow-up when it is     *)
(* not.  The port is bound while everything else goes on (index.ts).       *)
(***************************************************************************)
EXTENDS Naturals, SequencesExt

CONSTANTS
  Events,       \* the requests that arrive
  Waits,        \* calls of wait_for_webhook_event
  Ports,        \* portRange, from the first port on
  MaxQueue,     \* maxQueue
  MaxInstances  \* bound: servers made

VARIABLES
  \* EventRegistry
  queue, waiters,
  waited,    \* what each wait() came to: "none", "waiting", "nothing" or an event
  cancelled, \* the waits whose signal is aborted
  \* index.ts
  server,    \* the server it knows of, 0 for none
  servers,   \* all it has made
  forced,    \* forcedPort, 0 for none
  session,   \* "none", "up", "down"
  \* requests and what becomes of their messages
  mode,      \* the mode of each event's hook, once it has arrived
  request,   \* "none", "reading", "answered"; then "intercepted", "preparing",
             \* "prompted", "queued" or "refused" in trigger mode
  followUp,  \* the events sent as follow-ups
  streaming, \* the agent runs
  \* history
  accepted, handed, \* events of the queue, in the order they came and left
  dropped,   \* those thrown away, by a full queue or with the session
  crowded,   \* messages during whose preparation a run began
  rushed     \* a server was started or stopped while another was still binding its port

registryVars == <<queue, waiters, waited, cancelled>>
serverVars == <<server, servers, forced, session, rushed>>
messageVars == <<mode, request, followUp, streaming, crowded>>
historyVars == <<accepted, handed, dropped>>
vars == <<registryVars, serverVars, messageVars, historyVars>>

Init ==
  /\ queue = <<>> /\ waiters = <<>> /\ waited = [w \in Waits |-> "none"] /\ cancelled = {}
  /\ server = 0 /\ servers = <<>> /\ forced = 0 /\ session = "none"
  /\ mode = [e \in Events |-> "queue"]
  /\ request = [e \in Events |-> "none"] /\ followUp = {} /\ streaming = FALSE
  /\ accepted = <<>> /\ handed = <<>> /\ dropped = {} /\ crowded = {} /\ rushed = FALSE

----------------------------------------------------------------------------
(* The server *)

Binding == {i \in DOMAIN servers : servers[i].state = "binding"}
Attempt(port, left) == [state |-> "binding", port |-> port, left |-> left]
Rush == rushed' = (rushed \/ Binding # {})

\* closeServer: of the server it knows of.
Closed == IF server = 0 THEN servers ELSE [servers EXCEPT ![server].state = "closed"]

\* startServer does nothing when there is a server, which is only known once it listens.
StartServer ==
  /\ server = 0 /\ Len(servers) < MaxInstances
  /\ servers' = Append(servers, IF forced = 0 THEN Attempt(1, Ports - 1) ELSE Attempt(forced, 0))
  /\ Rush
  /\ UNCHANGED <<server, forced>>

SessionStart ==
  /\ session = "none" /\ session' = "up"
  /\ StartServer
  /\ UNCHANGED <<registryVars, messageVars, historyVars>>

\* register_webhook and /webhook add, when no server is known.
Register ==
  /\ session = "up"
  /\ StartServer
  /\ UNCHANGED <<session, registryVars, messageVars, historyVars>>

\* /webhook port: one attempt, on that port.
NewPort(port) ==
  /\ session = "up" /\ Len(servers) < MaxInstances
  /\ servers' = Append(Closed, Attempt(port, 0))
  /\ server' = 0 /\ forced' = port
  /\ Rush
  /\ UNCHANGED <<session, registryVars, messageVars, historyVars>>

Listening(i) ==
  /\ i \in Binding
  /\ \A j \in DOMAIN servers : servers[j].state = "open" => servers[j].port # servers[i].port
  /\ servers' = [servers EXCEPT ![i].state = "open"]
  /\ server' = i
  /\ UNCHANGED <<forced, session, rushed, registryVars, messageVars, historyVars>>

\* The next port is tried; after the last one, or another error, there is no server.
CannotListen(i, taken) ==
  LET failed == [servers EXCEPT ![i].state = "failed"]
      again == taken /\ servers[i].left > 0
  IN  /\ i \in Binding
      /\ again => Len(servers) < MaxInstances
      /\ servers' = IF again
                    THEN Append(failed, Attempt(servers[i].port + 1, servers[i].left - 1))
                    ELSE failed
      /\ server' = IF again THEN server ELSE 0
      /\ UNCHANGED <<forced, session, rushed, registryVars, messageVars, historyVars>>

\* stopServer: the server and the registry.
SessionShutdown ==
  /\ session = "up" /\ session' = "down"
  /\ servers' = Closed /\ server' = 0
  /\ Rush /\ UNCHANGED forced
  /\ waiters' = <<>> /\ queue' = <<>>
  /\ waited' = [w \in Waits |-> IF waited[w] = "waiting" THEN "nothing" ELSE waited[w]]
  /\ dropped' = dropped \union ToSet(queue)
  /\ UNCHANGED <<cancelled, messageVars, accepted, handed>>

----------------------------------------------------------------------------
(* The registry *)

\* A waiter that has settled already takes the event and does nothing with it.
Enqueue(e) ==
  /\ accepted' = Append(accepted, e)
  /\ IF waiters # <<>>
     THEN LET w == Head(waiters) IN
          /\ waiters' = Tail(waiters)
          /\ IF waited[w] = "waiting"
             THEN waited' = [waited EXCEPT ![w] = e] /\ handed' = Append(handed, e)
             ELSE UNCHANGED <<waited, handed>>
          /\ UNCHANGED <<queue, dropped>>
     ELSE LET longer == Append(queue, e)
              full == Len(longer) > MaxQueue
          IN  /\ queue' = IF full THEN Tail(longer) ELSE longer
              /\ dropped' = IF full THEN dropped \union {Head(longer)} ELSE dropped
              /\ UNCHANGED <<waiters, waited, handed>>
  /\ UNCHANGED cancelled

\* A signal that is aborted already is not heard.
Wait(w) ==
  /\ session = "up" /\ waited[w] = "none"
  /\ IF queue # <<>>
     THEN /\ waited' = [waited EXCEPT ![w] = Head(queue)]
          /\ queue' = Tail(queue)
          /\ handed' = Append(handed, Head(queue))
          /\ UNCHANGED waiters
     ELSE /\ waited' = [waited EXCEPT ![w] = "waiting"]
          /\ waiters' = Append(waiters, w)
          /\ UNCHANGED <<queue, handed>>
  /\ UNCHANGED <<cancelled, serverVars, messageVars, accepted, dropped>>

\* Seeded fault: the waiter stays in the list.
GiveUpStays(w) == waited' = [waited EXCEPT ![w] = "nothing"] /\ UNCHANGED waiters

\* The waiter is taken out of the list, where it is once.
GiveUp(w) ==
  /\ waited' = [waited EXCEPT ![w] = "nothing"]
  /\ waiters' = RemoveAt(waiters, CHOOSE i \in DOMAIN waiters : waiters[i] = w)

TimeOut(w) ==
  /\ waited[w] = "waiting"
  /\ GiveUp(w)
  /\ UNCHANGED <<queue, cancelled, serverVars, messageVars, historyVars>>

Cancel(w) ==
  /\ w \notin cancelled /\ cancelled' = cancelled \union {w}
  /\ IF waited[w] = "waiting" THEN GiveUp(w) ELSE UNCHANGED <<waited, waiters>>
  /\ UNCHANGED <<queue, serverVars, messageVars, historyVars>>

Poll ==
  /\ session = "up" /\ queue # <<>>
  /\ queue' = <<>> /\ handed' = handed \o queue
  /\ UNCHANGED <<waiters, waited, cancelled, serverVars, messageVars, accepted, dropped>>

----------------------------------------------------------------------------
(* Requests *)

\* Any server that is open takes requests, and answers them when it is closed meanwhile.
\* The path names the hook.  Events are alike until they arrive: which is next does not matter.
Arrive(e) ==
  /\ \E i \in DOMAIN servers : servers[i].state = "open"
  /\ request[e] = "none" /\ e = CHOOSE d \in Events : request[d] = "none"
  /\ request' = [request EXCEPT ![e] = "reading"]
  /\ \E m \in {"queue", "trigger"} : mode' = [mode EXCEPT ![e] = m]
  /\ UNCHANGED <<followUp, streaming, crowded, registryVars, serverVars, historyVars>>

\* Too large, or not authenticated.
Reject(e) ==
  /\ request[e] = "reading"
  /\ request' = [request EXCEPT ![e] = "answered"]
  /\ UNCHANGED <<mode, followUp, streaming, crowded, registryVars, serverVars, historyVars>>

Queued(e) ==
  /\ request[e] = "reading" /\ mode[e] = "queue"
  /\ request' = [request EXCEPT ![e] = "answered"]
  /\ Enqueue(e)
  /\ UNCHANGED <<mode, followUp, streaming, crowded, serverVars>>

\* Seeded fault: never as a follow-up.
SentAsFollowUpNever(e) == UNCHANGED followUp

\* handleEvent asks whether the agent is idle.
SentAsFollowUp(e) == followUp' = IF streaming THEN followUp \union {e} ELSE followUp

Triggered(e) ==
  /\ request[e] = "reading" /\ mode[e] = "trigger"
  /\ request' = [request EXCEPT ![e] = "intercepted"]
  /\ SentAsFollowUp(e)
  /\ UNCHANGED <<mode, streaming, crowded, registryVars, serverVars, historyVars>>

----------------------------------------------------------------------------
(* prompt() of AgentSession, with the agent reduced to whether it runs *)

InPreparation == {e \in Events : request[e] \in {"intercepted", "preparing"}}

\* The input handlers have returned.
Checked(e) ==
  /\ request[e] = "intercepted"
  /\ request' = [request EXCEPT ![e] = IF ~streaming THEN "preparing"
                                       ELSE IF e \in followUp THEN "queued" ELSE "refused"]
  /\ UNCHANGED <<mode, followUp, streaming, crowded, registryVars, serverVars, historyVars>>

\* agent.prompt, which rejects while a run is on.
Prompted(e) ==
  /\ request[e] = "preparing"
  /\ request' = [request EXCEPT ![e] = IF streaming THEN "refused" ELSE "prompted"]
  /\ streaming' = TRUE
  /\ crowded' = IF streaming THEN crowded ELSE crowded \union (InPreparation \ {e})
  /\ UNCHANGED <<mode, followUp, registryVars, serverVars, historyVars>>

\* Somebody else's prompt.
RunBegins ==
  /\ ~streaming /\ streaming' = TRUE
  /\ crowded' = crowded \union InPreparation
  /\ UNCHANGED <<mode, request, followUp, registryVars, serverVars, historyVars>>

RunEnds ==
  /\ streaming /\ streaming' = FALSE
  /\ UNCHANGED <<mode, request, followUp, crowded, registryVars, serverVars, historyVars>>

Next ==
  \/ SessionStart \/ Register \/ SessionShutdown \/ Poll \/ RunBegins \/ RunEnds
  \/ \E port \in 1 .. Ports : NewPort(port)
  \/ \E i \in 1 .. MaxInstances : Listening(i) \/ \E taken \in BOOLEAN : CannotListen(i, taken)
  \/ \E w \in Waits : Wait(w) \/ TimeOut(w) \/ Cancel(w)
  \/ \E e \in Events :
       Arrive(e) \/ Reject(e) \/ Queued(e) \/ Triggered(e) \/ Checked(e) \/ Prompted(e)

Spec == Init /\ [][Next]_vars

----------------------------------------------------------------------------
(* Properties *)

\* Every variable holds a value of its kind.
TypeOK ==
  /\ queue \in Seq(Events) /\ Len(queue) <= MaxQueue
  /\ waiters \in Seq(Waits) /\ cancelled \subseteq Waits
  /\ waited \in [Waits -> Events \union {"none", "waiting", "nothing"}]
  /\ server \in 0 .. Len(servers)
  /\ servers \in Seq([state : {"binding", "open", "closed", "failed"}, port : 1 .. Ports,
                      left : 0 .. Ports])
  /\ forced \in 0 .. Ports /\ session \in {"none", "up", "down"} /\ mode \in [Events -> {"queue", "trigger"}]
  /\ request \in [Events -> {"none", "reading", "answered", "intercepted", "preparing",
                             "prompted", "queued", "refused"}]
  /\ followUp \subseteq Events /\ crowded \subseteq Events /\ dropped \subseteq Events
  /\ streaming \in BOOLEAN /\ rushed \in BOOLEAN
  /\ accepted \in Seq(Events) /\ handed \in Seq(Events)

Before(s, d, e) == \E i, j \in DOMAIN s : i < j /\ s[i] = d /\ s[j] = e

\* The queue hands every event it has accepted to one call that has not ended, once and
\* in the order they came, except those it drops; it never holds events while somebody
\* waits.
HandedInOrder ==
  /\ ToSet(handed \o queue) = ToSet(accepted) \ dropped
  /\ \A d, e \in Events : Before(handed \o queue, d, e) => Before(accepted, d, e) /\ d # e
  /\ waiters # <<>> => queue = <<>>

\* A message is refused only if a run began while it was being prepared, which is when
\* two events, or an event and a prompt, find the agent idle at the same time.
BusyAgentIsFollowed == \A e \in Events : request[e] = "refused" => e \in crowded

\* The receiver knows the server that is open, and leaves none behind, unless it was
\* started or stopped while a port was being bound.
ServerKnown ==
  ~rushed => /\ \A i \in DOMAIN servers : servers[i].state = "open" => i = server
             /\ session = "down" => Binding = {}

EventsDelivered == HandedInOrder /\ BusyAgentIsFollowed /\ ServerKnown
=============================================================================

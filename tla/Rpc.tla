--------------------------------- MODULE Rpc ---------------------------------
(***************************************************************************)
(* modes/rpc: RpcClient (rpc-client.ts) and the agent process it starts    *)
(* (rpc-mode.ts), joined by two pipes.  The client sends one request at a  *)
(* time along sendChain and matches the answers by id; everything else it  *)
(* reads goes to the listeners.  The agent handles every line when it      *)
(* arrives: a prompt is answered at once and its run ends later, abort is  *)
(* answered when the run has ended, bash when the command has.             *)
(*                                                                         *)
(* A request is named by its id.  promptAndWait(r) listens under the name  *)
(* of its request, waitForIdle under a name of its own.                    *)
(***************************************************************************)
EXTENDS Naturals, Sequences

CONSTANTS
  Requests,   \* requests, each sent once
  Kinds,      \* subset of {"prompt", "bash", "abort", "abort_bash", "quick"}
  Idlers,     \* calls of waitForIdle
  None,
  MaxStarts,  \* bound: agent processes started
  MaxFaults   \* bound: agent processes that die by themselves

Listeners == Requests \union Idlers

VARIABLES
  process,     \* "none", "up" or "stopping"
  starts,      \* agent processes started so far
  sendChain,   \* the last request of the chain, or None
  before,      \* for each request the one it follows, or None
  chainHead,   \* the first request of its chain
  kind, state, \* "new", "chained", "sent", "answered", "rejected"
  pendingRequests,
  eventListeners, \* sequence of Listeners
  heard,       \* "no", "waiting", or how a listener's wait ended
  stdin, stdout, \* the pipes
  alive,       \* the agent process runs
  streaming,   \* the prompt whose run goes on, or None
  bash,        \* bash requests whose command runs
  aborting,    \* abort requests that wait for the run to end
  faults,
  strays,      \* history: answers that went to the listeners
  lateFor      \* history: requests that timed out, or prompts that were refused

clientVars == <<process, starts, sendChain, before, chainHead, kind, state,
                pendingRequests, eventListeners, heard>>
agentVars == <<alive, streaming, bash, aborting>>
vars ==
  <<process, starts, sendChain, before, chainHead, kind, state, pendingRequests,
    eventListeners, heard, stdin, stdout, alive, streaming, bash, aborting,
    faults, strays, lateFor>>

Response(r) == [type |-> "response", id |-> r]
AgentEnd(r) == [type |-> "agent_end", id |-> r]

Init ==
  /\ process = "none" /\ starts = 0
  /\ sendChain = None
  /\ before = [r \in Requests |-> None]
  /\ chainHead = [r \in Requests |-> r]
  /\ kind = [r \in Requests |-> "quick"]
  /\ state = [r \in Requests |-> "new"]
  /\ pendingRequests = {}
  /\ eventListeners = <<>>
  /\ heard = [l \in Listeners |-> "no"]
  /\ stdin = <<>> /\ stdout = <<>>
  /\ alive = FALSE /\ streaming = None /\ bash = {} /\ aborting = {}
  /\ faults = 0 /\ strays = {} /\ lateFor = {}

----------------------------------------------------------------------------
(* The client *)

Start ==
  /\ process = "none" /\ starts < MaxStarts
  /\ process' = "up" /\ starts' = starts + 1
  /\ stdin' = <<>> /\ stdout' = <<>>
  /\ alive' = TRUE /\ streaming' = None /\ bash' = {} /\ aborting' = {}
  /\ UNCHANGED <<sendChain, before, chainHead, kind, state, pendingRequests, eventListeners,
                 heard, faults, strays, lateFor>>

\* Seeded fault: the request does not follow the one before it.
Unchained(r) == None

Predecessor(r) == sendChain

\* send: the request follows the last one; prompt kinds may listen first.  Requests are
\* alike until they are made, so that it does not matter which comes next.
Send(r) ==
  /\ state[r] = "new" /\ r = CHOOSE q \in Requests : state[q] = "new"
  /\ \E k \in Kinds :
       /\ kind' = [kind EXCEPT ![r] = k]
       /\ \/ UNCHANGED <<eventListeners, heard>>
          \/ /\ k = "prompt" \* promptAndWait
             /\ eventListeners' = Append(eventListeners, r)
             /\ heard' = [heard EXCEPT ![r] = "waiting"]
  /\ before' = [before EXCEPT ![r] = Predecessor(r)]
  /\ sendChain' = r
  /\ chainHead' = [chainHead EXCEPT ![r] = IF sendChain = None THEN r ELSE chainHead[sendChain]]
  /\ state' = [state EXCEPT ![r] = "chained"]
  /\ UNCHANGED <<process, starts, pendingRequests, stdin, stdout, agentVars, faults, strays, lateFor>>

Settled(r) == state[r] \in {"answered", "rejected"}

\* Seeded fault: the line is written before the request is registered, and its
\* registration is forgotten.
Unregistered(r) == pendingRequests

Registered(r) == pendingRequests \union {r}

\* sendSequential: an error without a process, else a line on stdin and a timer.
SendSequential(r) ==
  /\ state[r] = "chained" /\ (before[r] # None => Settled(before[r]))
  /\ IF process = "none"
     THEN /\ state' = [state EXCEPT ![r] = "rejected"]
          /\ UNCHANGED <<pendingRequests, stdin>>
     ELSE /\ state' = [state EXCEPT ![r] = "sent"]
          /\ pendingRequests' = Registered(r)
          /\ stdin' = Append(stdin, r)
  /\ UNCHANGED <<process, starts, sendChain, before, chainHead, kind, eventListeners, heard,
                 stdout, agentVars, faults, strays, lateFor>>

\* Seeded fault: stop() also stops the timers of the requests it forgets.
TimeoutWhenPending(r) ==
  /\ r \in pendingRequests
  /\ state' = [state EXCEPT ![r] = "rejected"]
  /\ pendingRequests' = pendingRequests \ {r}
  /\ lateFor' = lateFor \union {r}
  /\ UNCHANGED <<process, starts, sendChain, before, chainHead, kind, eventListeners, heard,
                 stdin, stdout, agentVars, faults, strays>>

\* 30 s without an answer.
Timeout(r) ==
  /\ state[r] = "sent"
  /\ state' = [state EXCEPT ![r] = "rejected"]
  /\ pendingRequests' = pendingRequests \ {r}
  /\ lateFor' = lateFor \union {r}
  /\ UNCHANGED <<process, starts, sendChain, before, chainHead, kind, eventListeners, heard,
                 stdin, stdout, agentVars, faults, strays>>

\* waitForIdle.
WaitForIdle(l) ==
  /\ heard[l] = "no"
  /\ heard' = [heard EXCEPT ![l] = "waiting"]
  /\ eventListeners' = Append(eventListeners, l)
  /\ UNCHANGED <<process, starts, sendChain, before, chainHead, kind, state, pendingRequests,
                 stdin, stdout, agentVars, faults, strays, lateFor>>

\* Its timer, or that of collectEvents.
WaitTimesOut(l) ==
  /\ heard[l] = "waiting"
  /\ heard' = [heard EXCEPT ![l] = "timed out"]
  /\ eventListeners' = SelectSeq(eventListeners, LAMBDA m : m # l)
  /\ UNCHANGED <<process, starts, sendChain, before, chainHead, kind, state, pendingRequests,
                 stdin, stdout, agentVars, faults, strays, lateFor>>

\* The loop over eventListeners goes by position while each listener that is
\* told removes itself: every second one is passed over.
Told == {eventListeners[i] : i \in {j \in 1..Len(eventListeners) : j % 2 = 1}}

\* handleLine: the answer of a pending request, or an event.
HandleLine ==
  /\ process = "up" /\ stdout # <<>>
  /\ stdout' = Tail(stdout)
  /\ LET m == Head(stdout) IN
     \/ /\ m.type = "response" /\ m.id \in pendingRequests
        /\ state' = [state EXCEPT ![m.id] = "answered"]
        /\ pendingRequests' = pendingRequests \ {m.id}
        /\ UNCHANGED <<eventListeners, heard, strays>>
     \/ /\ m.type = "response" /\ m.id \notin pendingRequests
        /\ strays' = strays \union {m.id}
        /\ UNCHANGED <<state, pendingRequests, eventListeners, heard>>
     \/ /\ m.type = "agent_end"
        /\ heard' = [l \in Listeners |-> IF l \in Told THEN "end" ELSE heard[l]]
        /\ eventListeners' = SelectSeq(eventListeners, LAMBDA l : l \notin Told)
        /\ UNCHANGED <<state, pendingRequests, strays>>
  /\ UNCHANGED <<process, starts, sendChain, before, chainHead, kind, stdin, agentVars, faults, lateFor>>

\* stop(): nothing more is read and the agent is killed.
Stop ==
  /\ process = "up"
  /\ process' = "stopping"
  /\ UNCHANGED <<starts, sendChain, before, chainHead, kind, state, pendingRequests, eventListeners,
                 heard, stdin, stdout, agentVars, faults, strays, lateFor>>

\* Seeded fault: stop() keeps the requests its timers will reject.
StoppedKeepsPending ==
  /\ process = "stopping"
  /\ process' = "none"
  /\ state' = [r \in Requests |-> IF r \in pendingRequests THEN "rejected" ELSE state[r]]
  /\ sendChain' = None
  /\ alive' = FALSE
  /\ UNCHANGED <<starts, before, chainHead, kind, pendingRequests, eventListeners, heard, stdin,
                 stdout, streaming, bash, aborting, faults, strays, lateFor>>

\* The agent has exited, or 1 s has passed.
Stopped ==
  /\ process = "stopping"
  /\ process' = "none"
  /\ pendingRequests' = {}
  /\ sendChain' = None
  /\ alive' = FALSE
  /\ UNCHANGED <<starts, before, chainHead, kind, state, eventListeners, heard, stdin, stdout,
                 streaming, bash, aborting, faults, strays, lateFor>>

----------------------------------------------------------------------------
(* The agent *)

\* handleInputLine.  A prompt during a run without streamingBehavior is refused
\* with a second answer.
HandleInputLine ==
  /\ alive /\ stdin # <<>>
  /\ stdin' = Tail(stdin)
  /\ LET r == Head(stdin) IN
     \/ /\ kind[r] = "prompt" /\ streaming = None
        /\ streaming' = r
        /\ stdout' = Append(stdout, Response(r))
        /\ UNCHANGED <<bash, aborting, lateFor>>
     \/ /\ kind[r] = "prompt" /\ streaming # None
        /\ stdout' = stdout \o <<Response(r), Response(r)>>
        /\ lateFor' = lateFor \union {r}
        /\ UNCHANGED <<streaming, bash, aborting>>
     \/ /\ kind[r] = "bash"
        /\ bash' = bash \union {r}
        /\ UNCHANGED <<stdout, streaming, aborting, lateFor>>
     \/ /\ kind[r] = "abort"
        /\ aborting' = aborting \union {r}
        /\ UNCHANGED <<stdout, streaming, bash, lateFor>>
     \/ /\ kind[r] \in {"quick", "abort_bash"}
        /\ stdout' = Append(stdout, Response(r))
        /\ UNCHANGED <<streaming, bash, aborting, lateFor>>
  /\ UNCHANGED <<clientVars, alive, faults, strays>>

\* A bash command ends, by itself or because of abort_bash.
BashEnds(r) ==
  /\ alive /\ r \in bash
  /\ bash' = bash \ {r}
  /\ stdout' = Append(stdout, Response(r))
  /\ UNCHANGED <<clientVars, stdin, alive, streaming, aborting, faults, strays, lateFor>>

RunEnds ==
  /\ alive /\ streaming # None
  /\ streaming' = None
  /\ stdout' = Append(stdout, AgentEnd(streaming))
  /\ UNCHANGED <<clientVars, stdin, alive, bash, aborting, faults, strays, lateFor>>

\* session.abort() returns when the agent is idle.
Aborted(r) ==
  /\ alive /\ r \in aborting /\ streaming = None
  /\ aborting' = aborting \ {r}
  /\ stdout' = Append(stdout, Response(r))
  /\ UNCHANGED <<clientVars, stdin, alive, streaming, bash, faults, strays, lateFor>>

\* The agent process dies; the client keeps its handle.
Die ==
  /\ alive /\ faults < MaxFaults
  /\ faults' = faults + 1
  /\ alive' = FALSE
  /\ UNCHANGED <<clientVars, stdin, stdout, streaming, bash, aborting, strays, lateFor>>

Next ==
  \/ Start \/ Stop \/ Stopped \/ HandleLine \/ HandleInputLine \/ RunEnds \/ Die
  \/ \E r \in Requests : Send(r) \/ SendSequential(r) \/ Timeout(r) \/ BashEnds(r) \/ Aborted(r)
  \/ \E l \in Listeners : WaitTimesOut(l)
  \/ \E l \in Idlers : WaitForIdle(l)

Spec == Init /\ [][Next]_vars

\* Timers fire and callbacks run; the agent may never answer.
Fairness ==
  /\ \A r \in Requests : WF_vars(SendSequential(r)) /\ WF_vars(Timeout(r))
  /\ \A l \in Listeners : WF_vars(WaitTimesOut(l))

FairSpec == Spec /\ Fairness

----------------------------------------------------------------------------
(* Properties *)

TypeOK ==
  /\ process \in {"none", "up", "stopping"} /\ starts \in 0..MaxStarts
  /\ state \in [Requests -> {"new", "chained", "sent", "answered", "rejected"}]
  /\ heard \in [Listeners -> {"no", "waiting", "end", "timed out"}]
  /\ pendingRequests \subseteq {r \in Requests : state[r] = "sent"}
  /\ stdout \in Seq([type : {"response", "agent_end"}, id : Requests])
  /\ stdin \in Seq(Requests)

\* "Single-flight JSONL requests": of the requests of one chain one at most is
\* pending.  stop() begins a new chain, which the rest of the old one may join.
SingleFlight ==
  \A r, s \in pendingRequests : chainHead[r] = chainHead[s] => r = s

\* Listeners are given an answer as if it were an event only when its request had
\* timed out, or was a prompt refused after it had been answered.
StraysExplained == strays \subseteq lateFor

\* Everybody who waits for the end of a run and is in the list hears the next one:
\* "Resolves when agent_end event is received."
AllHearTheEnd ==
  [][\A l \in Listeners :
       heard[l] = "waiting" /\ heard'[l] = "waiting" =>
         ~\E m \in Listeners : heard[m] = "waiting" /\ heard'[m] = "end"]_vars

\* Every request settles, across stop, restart and the death of the agent.
RequestSettles == \A r \in Requests : state[r] = "chained" ~> Settled(r)
=============================================================================

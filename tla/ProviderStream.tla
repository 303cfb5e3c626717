--------------------------- MODULE ProviderStream ---------------------------
(***************************************************************************)
(* One request to a model: the provider's module is loaded when it is first*)
(* needed (ai/src/providers/register-builtins.ts), its stream is forwarded *)
(* to the one the caller already has, and the agent loop reads that        *)
(* (streamAssistantResponse, agent/src/agent-loop.ts).  The caller's stream*)
(* is that of EventStream; Inner is the provider's own.                    *)
(***************************************************************************)
EXTENDS EventStream

CONSTANTS
  Reader,    \* the agent loop, the one consumer of the outer stream
  Forwarder, \* forwardStream, the one consumer of the inner stream
  MaxEvents  \* bound: events the provider pushes before its last

VARIABLES
  i_queue, i_waiting, i_done, i_result, i_at, i_held, i_accepted, i_given,
  loader,    \* "loading", "forwarding" or "failed"
  provider,  \* "producing" or "ended"
  forwarder, \* "none", "reading" or "ended"
  response   \* what streamAssistantResponse returned, or Unresolved

innerVars == <<i_queue, i_waiting, i_done, i_result, i_at, i_held, i_accepted, i_given>>
lazyVars == <<streamVars, innerVars, loader, provider, forwarder, response>>

Inner == INSTANCE EventStream WITH
  Consumers <- {Forwarder}, queue <- i_queue, waiting <- i_waiting, done <- i_done,
  result <- i_result, at <- i_at, held <- i_held, accepted <- i_accepted, given <- i_given

LazyInit ==
  /\ StreamInit /\ Inner!StreamInit
  /\ loader = "loading" /\ provider = "producing" /\ forwarder = "none"
  /\ response = Unresolved

----------------------------------------------------------------------------
(* register-builtins.ts *)

\* The module is there: its stream is opened and forwarded.
Loaded ==
  /\ loader = "loading"
  /\ loader' = "forwarding" /\ forwarder' = "reading"
  /\ UNCHANGED <<streamVars, innerVars, provider, response>>

\* The import or the module's function throws: an error event.  The end of the stream
\* in the same turn changes nothing: the event was final and nobody waits any more.
LoadFails ==
  /\ loader = "loading"
  /\ loader' = "failed" /\ forwarder' = "ended"
  /\ Push("error")
  /\ UNCHANGED <<innerVars, provider, response>>

\* The provider pushes what it receives and at last done or error; its end() follows
\* in the same turn and changes nothing.
Produce ==
  /\ loader = "forwarding" /\ provider = "producing"
  /\ \/ Len(i_accepted) < MaxEvents /\ \E e \in StreamEvents \ FinalEvents : Inner!Push(e)
        /\ UNCHANGED provider
     \/ \E e \in FinalEvents : Inner!Push(e) /\ provider' = "ended"
  /\ UNCHANGED <<streamVars, loader, forwarder, response>>

\* The loop of forwardStream asks for the next event ...
ForwardAsk ==
  /\ forwarder = "reading" /\ i_at[Forwarder] = "idle"
  /\ Inner!Ask(Forwarder)
  /\ UNCHANGED <<streamVars, loader, provider, forwarder, response>>

\* Seeded fault: an event is passed on when it is final or somebody waits for it.
ForwardHurried ==
  /\ forwarder = "reading" /\ i_at[Forwarder] = "holding"
  /\ IF waiting # <<>> \/ i_held[Forwarder] \in FinalEvents
     THEN Push(i_held[Forwarder]) ELSE UNCHANGED streamVars
  /\ Inner!Ask(Forwarder)
  /\ UNCHANGED <<loader, provider, forwarder, response>>

\* ... pushes it and goes on; both belong to one turn of the event loop ...
Forward ==
  /\ forwarder = "reading" /\ i_at[Forwarder] = "holding"
  /\ Push(i_held[Forwarder])
  /\ Inner!Ask(Forwarder)
  /\ UNCHANGED <<loader, provider, forwarder, response>>

\* ... and ends the outer stream when the inner one is over.
ForwardEnds ==
  /\ forwarder = "reading" /\ i_at[Forwarder] = "returned"
  /\ End(Unresolved)
  /\ forwarder' = "ended"
  /\ UNCHANGED <<innerVars, loader, provider, response>>

----------------------------------------------------------------------------
(* streamAssistantResponse *)

\* The next event: a final one is answered below.
Read ==
  /\ at[Reader] = "idle" \/ (at[Reader] = "holding" /\ held[Reader] \notin FinalEvents)
  /\ Ask(Reader)
  /\ UNCHANGED <<innerVars, loader, provider, forwarder, response>>

\* await response.result() at a final event, or after the loop.
Respond ==
  /\ \/ at[Reader] = "holding" /\ held[Reader] \in FinalEvents
     \/ at[Reader] = "returned"
  /\ response = Unresolved /\ result # Unresolved
  /\ response' = result
  /\ IF at[Reader] = "holding" THEN LeaveLoop(Reader) ELSE UNCHANGED streamVars
  /\ UNCHANGED <<innerVars, loader, provider, forwarder>>

EventLoop ==
  Loaded \/ LoadFails \/ ForwardAsk \/ Forward \/ ForwardEnds \/ Read \/ Respond

LazyNext == EventLoop \/ Produce

LazySpec == LazyInit /\ [][LazyNext]_lazyVars

\* Promises are settled; a request ends, by an answer, an error or an abort.
LazyFairness == WF_lazyVars(EventLoop) /\ WF_lazyVars(Produce /\ provider' = "ended")

LazyFairSpec == LazySpec /\ LazyFairness

----------------------------------------------------------------------------
(* Properties *)

LazyTypeOK ==
  /\ StreamTypeOK /\ Inner!StreamTypeOK
  /\ loader \in {"loading", "forwarding", "failed"}
  /\ provider \in {"producing", "ended"}
  /\ forwarder \in {"none", "reading", "ended"}
  /\ response \in FinalEvents \union {Unresolved}

\* Across both streams nothing is lost, repeated or reordered: when the agent loop
\* has its answer it has seen every event of the provider and the answer is the
\* last of them; when the provider could not be loaded it is an error.
ResponseIsTheProviders ==
  response # Unresolved =>
    LET sent == IF loader = "failed" THEN <<"error">> ELSE i_accepted
    IN  given = sent /\ response = sent[Len(sent)]

\* Every request is answered: neither the events nor the result are waited for in vain.
ResponseArrives == <>(response # Unresolved)
=============================================================================

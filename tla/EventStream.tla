----------------------------- MODULE EventStream -----------------------------
(***************************************************************************)
(* packages/ai/src/utils/event-stream.ts: the queue between the producer   *)
(* of events and those who iterate over them, and the promise of the       *)
(* result.  A consumer is one iteration: it asks for the next event, is    *)
(* given one or waits, and may leave its loop while it has one in hand.    *)
(***************************************************************************)
EXTENDS Sequences, Naturals

CONSTANTS
  StreamEvents, FinalEvents, \* what is pushed; isComplete tells the final ones
  Consumers,
  Unresolved                 \* no result

VARIABLES
  queue,    \* events nobody has asked for
  waiting,  \* consumers in the order in which they began to wait
  done,
  result,   \* the final event, or Unresolved
  at,       \* for each consumer: "idle", "waiting", "holding" or "returned"
  held,     \* the event each consumer was given last
  accepted, \* history: events pushed before the end
  given     \* history: events handed out

streamVars == <<queue, waiting, done, result, at, held, accepted, given>>

StreamInit ==
  /\ queue = <<>> /\ waiting = <<>> /\ done = FALSE /\ result = Unresolved
  /\ at = [c \in Consumers |-> "idle"]
  /\ held = [c \in Consumers |-> Unresolved]
  /\ accepted = <<>> /\ given = <<>>

\* The consumer goes on with the event in hand.
Give(c, e) ==
  /\ at' = [at EXCEPT ![c] = "holding"]
  /\ held' = [held EXCEPT ![c] = e]
  /\ given' = Append(given, e)

\* A promise is resolved once.
Resolve(e) == result' = IF result = Unresolved THEN e ELSE result

\* Seeded fault: an event for a consumer that waits is queued all the same.
PushToBoth(e) ==
  /\ done' = (done \/ e \in FinalEvents)
  /\ IF e \in FinalEvents THEN Resolve(e) ELSE UNCHANGED result
  /\ accepted' = Append(accepted, e)
  /\ queue' = Append(queue, e)
  /\ IF waiting # <<>>
     THEN Give(Head(waiting), e) /\ waiting' = Tail(waiting)
     ELSE UNCHANGED <<waiting, at, held, given>>

\* push: to the first who waits, else into the queue.
PushOpen(e) ==
  /\ done' = (done \/ e \in FinalEvents)
  /\ IF e \in FinalEvents THEN Resolve(e) ELSE UNCHANGED result
  /\ accepted' = Append(accepted, e)
  /\ IF waiting # <<>>
     THEN Give(Head(waiting), e) /\ waiting' = Tail(waiting) /\ UNCHANGED queue
     ELSE queue' = Append(queue, e) /\ UNCHANGED <<waiting, at, held, given>>

Push(e) == IF done THEN UNCHANGED streamVars ELSE PushOpen(e)

\* end: those who wait are told; what is queued stays for those who ask.
End(r) ==
  /\ done' = TRUE
  /\ Resolve(r)
  /\ at' = [c \in Consumers |-> IF at[c] = "waiting" THEN "returned" ELSE at[c]]
  /\ waiting' = <<>>
  /\ UNCHANGED <<queue, held, accepted, given>>

\* The iterator's next().
Ask(c) ==
  /\ at[c] \in {"idle", "holding"}
  /\ \/ /\ queue # <<>>
        /\ Give(c, Head(queue)) /\ queue' = Tail(queue)
        /\ UNCHANGED <<waiting, done, result, accepted>>
     \/ /\ queue = <<>> /\ done
        /\ at' = [at EXCEPT ![c] = "returned"]
        /\ UNCHANGED <<queue, waiting, done, result, held, accepted, given>>
     \/ /\ queue = <<>> /\ ~done
        /\ at' = [at EXCEPT ![c] = "waiting"]
        /\ waiting' = Append(waiting, c)
        /\ UNCHANGED <<queue, done, result, held, accepted, given>>

\* The consumer leaves its loop.
LeaveLoop(c) ==
  /\ at[c] = "holding"
  /\ at' = [at EXCEPT ![c] = "returned"]
  /\ UNCHANGED <<queue, waiting, done, result, held, accepted, given>>

StreamNext ==
  \/ \E e \in StreamEvents : Push(e)
  \/ \E r \in StreamEvents \union {Unresolved} : End(r)
  \/ \E c \in Consumers : Ask(c) \/ LeaveLoop(c)

StreamSpec == StreamInit /\ [][StreamNext]_streamVars

----------------------------------------------------------------------------
(* Properties *)

StreamTypeOK ==
  /\ queue \in Seq(StreamEvents) /\ accepted \in Seq(StreamEvents) /\ given \in Seq(StreamEvents)
  /\ waiting \in Seq(Consumers) /\ done \in BOOLEAN
  /\ result \in StreamEvents \union {Unresolved}
  /\ at \in [Consumers -> {"idle", "waiting", "holding", "returned"}]
  /\ held \in [Consumers -> StreamEvents \union {Unresolved}]

\* "Deliver to waiting consumer or queue it": every event pushed before the end is
\* handed out once and in order, whoever waited when it came.
InOrder == given \o queue = accepted

\* Somebody waits only for an event that has not come.
WaitingForMore == waiting # <<>> => queue = <<>>

DeliveryInv == InOrder /\ WaitingForMore
=============================================================================

--------------------------- MODULE ServicesProofs ---------------------------
(***************************************************************************)
(* Theorems about MCServices for any calls, messages, events and bounds.   *)
(* Each component moves as its own specification says; what is proved of   *)
(* a component in a module of its own is taken from there by INSTANCE,     *)
(* with the substitutions of MCServices.                                   *)
(***************************************************************************)
EXTENDS MCServices, HostServicesProofs

----------------------------------------------------------------------------
(* A request to a model: two streams, one behind the other *)

InnerP == INSTANCE ComponentProofs WITH
  Consumers <- {"forward"}, queue <- i_queue, waiting <- i_waiting, done <- i_done,
  result <- i_result, at <- i_at, held <- i_held, accepted <- i_accepted, given <- i_given

\* The assumptions on the entries of a branch are the same there.
LEMMA InnerAssumed == InnerP!TypesAssumption /\ InnerP!SizesAssumption
  BY TypesAssumption, SizesAssumption
     DEF TypesAssumption, SizesAssumption, InnerP!TypesAssumption, InnerP!SizesAssumption,
         MessageTypes,
         InnerP!MessageTypes, UserLike, InnerP!UserLike, NoteTypes, InnerP!NoteTypes

\* What the constants of the streams are in MCServices' configurations.
StreamConstants ==
  /\ Consumers = {"loop"} /\ Unresolved \notin StreamEvents
  /\ FinalEvents \subseteq StreamEvents /\ "error" \in FinalEvents

\* The events that forwardStream has been given and has not passed on.
Passed ==
  i_given = IF i_at["forward"] = "holding" THEN Append(accepted, i_held["forward"]) ELSE accepted

RequestInv ==
  /\ AloneInv("loop") /\ InnerP!AloneInv("forward")
  /\ loader \in {"loading", "forwarding", "failed"} /\ provider \in {"producing", "ended"}
  /\ forwarder \in {"none", "reading", "ended"}
  /\ loader = "loading" => accepted = <<>> /\ i_at["forward"] = "idle" /\ forwarder = "none"
  /\ loader = "failed" => accepted = <<"error">> /\ forwarder = "ended"
  /\ loader # "failed" => Passed
  /\ response # Unresolved => at["loop"] = "returned" /\ response = result

\* The streams of a request are those of EventStream.
LEMMA RequestStreams ==
  /\ \A e : Request!Push(e) => Push(e)
  /\ \A e : Request!Inner!Push(e) => InnerP!Push(e)
  /\ Request!Ask("loop") => Ask("loop")
  /\ Request!Inner!Ask("forward") => InnerP!Ask("forward")
  /\ Request!End(Unresolved) => End(Unresolved)
  /\ Request!LeaveLoop("loop") => LeaveLoop("loop")
  /\ UNCHANGED Request!streamVars => UNCHANGED streamVars
  /\ UNCHANGED Request!innerVars => UNCHANGED InnerP!streamVars
<1>1. \A e : Request!Push(e) => Push(e)
  BY DEF Request!Push, Push, Request!PushOpen, PushOpen, Request!Give, Give, Request!Resolve,
         Resolve, Request!streamVars, streamVars
<1>2. \A e : Request!Inner!Push(e) => InnerP!Push(e)
  BY DEF Request!Inner!Push, InnerP!Push, Request!Inner!PushOpen, InnerP!PushOpen,
         Request!Inner!Give, InnerP!Give, Request!Inner!Resolve, InnerP!Resolve,
         Request!Inner!streamVars, InnerP!streamVars
<1>3. Request!Ask("loop") => Ask("loop")
  BY DEF Request!Ask, Ask, Request!Give, Give
<1>4. Request!Inner!Ask("forward") => InnerP!Ask("forward")
  BY DEF Request!Inner!Ask, InnerP!Ask, Request!Inner!Give, InnerP!Give
<1>5. Request!End(Unresolved) => End(Unresolved)
  BY DEF Request!End, End, Request!Resolve, Resolve
<1>6. Request!LeaveLoop("loop") => LeaveLoop("loop")
  BY DEF Request!LeaveLoop, LeaveLoop
<1>7. /\ UNCHANGED Request!streamVars => UNCHANGED streamVars
      /\ UNCHANGED Request!innerVars => UNCHANGED InnerP!streamVars
  BY DEF Request!streamVars, streamVars, Request!innerVars, InnerP!streamVars
<1> QED BY <1>1, <1>2, <1>3, <1>4, <1>5, <1>6, <1>7

\* Nothing is in hand behind a final event.
LEMMA NothingBehindFinal ==
  ASSUME StreamConstants, RequestInv, loader = "forwarding", done
  PROVE  i_at["forward"] # "holding" /\ i_given = accepted /\ i_given = i_accepted
<1>1. /\ accepted \in Seq(StreamEvents) /\ accepted # <<>>
      /\ accepted[Len(accepted)] \in FinalEvents
  BY DEF RequestInv, AloneInv, Final, StreamTypeOK
<1>2. /\ InnerP!StreamTypeOK /\ InnerP!DeliveryInv /\ InnerP!Final
      /\ i_given \in Seq(StreamEvents) /\ i_queue \in Seq(StreamEvents)
      /\ i_given \o i_queue = i_accepted
      /\ i_held \in [{"forward"} -> StreamEvents \union {Unresolved}]
  BY DEF RequestInv, InnerP!AloneInv, InnerP!StreamTypeOK, InnerP!DeliveryInv, InnerP!InOrder
<1>3. i_at["forward"] # "holding"
  <2> SUFFICES ASSUME i_at["forward"] = "holding" PROVE FALSE
    OBVIOUS
  <2> DEFINE e == i_held["forward"]
  <2>1. i_given = Append(accepted, e) /\ e \in StreamEvents \union {Unresolved}
    BY <1>2 DEF RequestInv, Passed
  <2>2. /\ Len(i_given) = Len(accepted) + 1 /\ Len(accepted) \in 1 .. Len(i_given)
        /\ i_given[Len(accepted)] = accepted[Len(accepted)]
    <3> HIDE DEF e
    <3> QED BY <1>1, <2>1
  <2>3. /\ Len(i_accepted) = Len(i_given) + Len(i_queue) /\ Len(i_queue) \in Nat
        /\ i_accepted[Len(accepted)] = i_given[Len(accepted)]
        /\ Len(accepted) \in 1 .. Len(i_accepted)
    <3> HIDE DEF e
    <3>1. /\ \A i \in 1 .. Len(i_given) : (i_given \o i_queue)[i] = i_given[i]
          /\ Len(i_given \o i_queue) = Len(i_given) + Len(i_queue)
          /\ Len(i_given) \in Nat /\ Len(i_queue) \in Nat
      BY <1>2
    <3> QED BY <1>2, <2>2, <3>1
  <2>4. Len(accepted) = Len(i_accepted)
    BY <1>1, <1>2, <2>2, <2>3 DEF InnerP!Final
  <2> QED BY <1>1, <2>2, <2>3, <2>4
<1>4. i_given = accepted
  BY <1>3 DEF RequestInv, Passed
<1>5. i_given = i_accepted
  BY <1>1, <1>2, <1>4, InnerAssumed, InnerP!FinalGiven
<1> QED BY <1>3, <1>4, <1>5

\* Every step of a request keeps its invariant.
LEMMA RequestStep ==
  ASSUME StreamConstants PROVE RequestInv /\ [Request!LazyNext]_requestVars => RequestInv'
<1> SUFFICES ASSUME RequestInv, [Request!LazyNext]_requestVars PROVE RequestInv'
  OBVIOUS
<1>a. /\ AloneInv("loop") /\ InnerP!AloneInv("forward")
      /\ Consumers = {"loop"} /\ Unresolved \notin StreamEvents
      /\ FinalEvents \subseteq StreamEvents /\ "error" \in StreamEvents
  BY DEF RequestInv, StreamConstants
<1>b. /\ at \in [{"loop"} -> {"idle", "waiting", "holding", "returned"}]
      /\ i_at \in [{"forward"} -> {"idle", "waiting", "holding", "returned"}]
      /\ i_held \in [{"forward"} -> StreamEvents \union {Unresolved}]
      /\ accepted \in Seq(StreamEvents) /\ i_given \in Seq(StreamEvents)
  BY <1>a DEF AloneInv, StreamTypeOK, InnerP!AloneInv, InnerP!StreamTypeOK
<1>1. CASE Request!Loaded
  <2>1. UNCHANGED streamVars /\ UNCHANGED InnerP!streamVars
    BY <1>1, RequestStreams DEF Request!Loaded
  <2>2. AloneInv("loop")' /\ InnerP!AloneInv("forward")'
    BY <1>a, <2>1, AloneStep, InnerAssumed, InnerP!AloneStep
  <2> QED BY <1>1, <2>1, <2>2 DEF Request!Loaded, RequestInv, Passed, streamVars, InnerP!streamVars
<1>2. CASE Request!LoadFails
  <2>1. Push("error") /\ UNCHANGED InnerP!streamVars
    BY <1>2, RequestStreams DEF Request!LoadFails
  <2>2. AloneInv("loop")' /\ InnerP!AloneInv("forward")'
    BY <1>a, <2>1, AloneStep, InnerAssumed, InnerP!AloneStep
  <2>3. accepted = <<>> /\ ~done
    BY <1>2 DEF Request!LoadFails, RequestInv, AloneInv, Final
  <2>4. accepted' = <<"error">>
    BY <2>1, <2>3 DEF Push, PushOpen
  <2>5. response = Unresolved
    BY <1>a, <2>3 DEF RequestInv, AloneInv, Alone
  <2> QED BY <1>2, <2>2, <2>4, <2>5 DEF Request!LoadFails, RequestInv
<1>3. CASE Request!Produce
  <2>1. PICK e \in StreamEvents : InnerP!Push(e)
    BY <1>3, <1>a, RequestStreams DEF Request!Produce
  <2>2. /\ UNCHANGED streamVars /\ UNCHANGED <<loader, forwarder, response>>
        /\ loader = "forwarding" /\ provider' \in {"producing", "ended"}
    BY <1>3, RequestStreams DEF Request!Produce, RequestInv
  <2>3. AloneInv("loop")' /\ InnerP!AloneInv("forward")'
    BY <1>a, <2>1, <2>2, AloneStep, InnerAssumed, InnerP!AloneStep
  <2>4. \/ UNCHANGED <<i_at, i_held, i_given>>
        \/ /\ i_at'["forward"] = "holding" /\ i_held'["forward"] = e
           /\ i_given' = Append(i_given, e) /\ i_at["forward"] = "waiting"
    BY <1>a, <2>1, InnerAssumed, InnerP!Pushed
  <2>5. Passed'
    BY <2>2, <2>4 DEF RequestInv, Passed, streamVars
  <2> QED BY <2>2, <2>3, <2>5 DEF RequestInv, streamVars
<1>4. CASE Request!ForwardAsk
  <2>1. /\ InnerP!Ask("forward") /\ UNCHANGED streamVars /\ i_at["forward"] = "idle"
        /\ UNCHANGED <<loader, provider, forwarder, response>> /\ forwarder = "reading"
    BY <1>4, RequestStreams DEF Request!ForwardAsk
  <2>2. AloneInv("loop")' /\ InnerP!AloneInv("forward")'
    BY <1>a, <2>1, AloneStep, InnerAssumed, InnerP!AloneStep
  <2>3. \/ /\ i_at'["forward"] = "holding" /\ i_given' = Append(i_given, i_held'["forward"])
        \/ i_at'["forward"] \in {"waiting", "returned"} /\ i_given' = i_given
    BY <1>a, <2>1, InnerAssumed, InnerP!Asked
  <2>4. CASE loader = "forwarding"
    BY <2>1, <2>2, <2>3, <2>4 DEF RequestInv, Passed, streamVars
  <2>5. loader # "failed"
    BY <2>1 DEF RequestInv
  <2> QED BY <2>1, <2>2, <2>3, <2>4, <2>5 DEF RequestInv, Passed, streamVars
<1>5. CASE Request!Forward
  <2> DEFINE e == i_held["forward"]
  <2>1. /\ Push(e) /\ InnerP!Ask("forward") /\ i_at["forward"] = "holding" /\ forwarder = "reading"
        /\ UNCHANGED <<loader, provider, forwarder, response>>
    BY <1>5, RequestStreams DEF Request!Forward
  <2>2. loader = "forwarding" /\ ~done
    BY <2>1, NothingBehindFinal DEF RequestInv, StreamConstants
  <2>3. e \in StreamEvents /\ i_given = Append(accepted, e)
    <3>1. i_given # <<>> /\ e = i_given[Len(i_given)]
      BY <1>a, <2>1 DEF InnerP!AloneInv, InnerP!Alone
    <3>2. i_given = Append(accepted, e)
      BY <2>1, <2>2 DEF RequestInv, Passed
    <3> QED BY <1>b, <3>1, <3>2
  <2>4. AloneInv("loop")' /\ InnerP!AloneInv("forward")'
    BY <1>a, <2>1, <2>3, AloneStep, InnerAssumed, InnerP!AloneStep
  <2>5. accepted' = i_given
    BY <1>a, <2>1, <2>2, <2>3, Pushed
  <2>6. \/ /\ i_at'["forward"] = "holding" /\ i_given' = Append(i_given, i_held'["forward"])
        \/ i_at'["forward"] \in {"waiting", "returned"} /\ i_given' = i_given
    BY <1>a, <2>1, InnerAssumed, InnerP!Asked
  <2>7. Passed'
    BY <2>5, <2>6 DEF Passed
  <2>8. response = Unresolved
    BY <1>a, <2>2 DEF RequestInv, AloneInv, Alone
  <2> QED BY <2>1, <2>2, <2>4, <2>7, <2>8 DEF RequestInv
<1>6. CASE Request!ForwardEnds
  <2>1. /\ End(Unresolved) /\ UNCHANGED InnerP!streamVars /\ i_at["forward"] = "returned"
        /\ UNCHANGED <<loader, provider, response>> /\ forwarder' = "ended" /\ forwarder = "reading"
    BY <1>6, RequestStreams DEF Request!ForwardEnds
  <2>2. loader = "forwarding" /\ i_given = accepted /\ i_done /\ i_queue = <<>>
    BY <1>a, <2>1 DEF RequestInv, Passed, InnerP!AloneInv, InnerP!Alone
  <2>3. i_accepted = i_given
    BY <1>b, <2>2, ConcatEmptySeq
       DEF RequestInv, InnerP!AloneInv, InnerP!DeliveryInv, InnerP!InOrder
  <2>4. done
    BY <1>a, <2>2, <2>3 DEF InnerP!AloneInv, InnerP!Final, AloneInv, Final
  <2>5. AloneInv("loop")' /\ InnerP!AloneInv("forward")'
    BY <1>a, <2>1, <2>4, AloneStep, InnerAssumed, InnerP!AloneStep
  <2>6. UNCHANGED <<accepted, result>>
    BY <1>b, <1>a, <2>1, <2>4 DEF End, Resolve, AloneInv, Final, StreamTypeOK
  <2>7. at["loop"] = "returned" => at'["loop"] = "returned"
    BY <1>a, <1>b, <2>1 DEF End
  <2> QED BY <2>1, <2>2, <2>5, <2>6, <2>7 DEF RequestInv, Passed, InnerP!streamVars
<1>7. CASE Request!Read
  <2>1. /\ Ask("loop") /\ UNCHANGED InnerP!streamVars
        /\ UNCHANGED <<loader, provider, forwarder, response>>
    BY <1>7, RequestStreams DEF Request!Read
  <2>2. AloneInv("loop")' /\ InnerP!AloneInv("forward")'
    BY <1>a, <2>1, AloneStep, InnerAssumed, InnerP!AloneStep
  <2>3. accepted' = accepted /\ result' = result
    BY <1>a, <2>1, Asked
  <2>4. response = Unresolved
    BY <2>1 DEF RequestInv, Ask
  <2> QED BY <2>1, <2>2, <2>3, <2>4 DEF RequestInv, Passed, InnerP!streamVars
<1>8. CASE Request!Respond
  <2>1. /\ UNCHANGED InnerP!streamVars /\ UNCHANGED <<loader, provider, forwarder>>
        /\ response' = result
        /\ \/ LeaveLoop("loop") /\ held["loop"] \in FinalEvents
           \/ at["loop"] = "returned" /\ UNCHANGED streamVars
    BY <1>8, RequestStreams DEF Request!Respond
  <2>2. AloneInv("loop")' /\ InnerP!AloneInv("forward")'
    BY <1>a, <2>1, AloneStep, InnerAssumed, InnerP!AloneStep
  <2>3. at'["loop"] = "returned" /\ UNCHANGED <<accepted, result>>
    BY <1>a, <1>b, <2>1 DEF LeaveLoop, streamVars
  <2> QED BY <2>1, <2>2, <2>3 DEF RequestInv, Passed, InnerP!streamVars
<1>9. CASE UNCHANGED requestVars
  <2>1. /\ UNCHANGED streamVars /\ UNCHANGED InnerP!streamVars
        /\ UNCHANGED <<loader, provider, forwarder, response>>
    BY <1>9 DEF requestVars, streamVars, InnerP!streamVars
  <2>2. AloneInv("loop")' /\ InnerP!AloneInv("forward")'
    BY <1>a, <2>1, AloneStep, InnerAssumed, InnerP!AloneStep
  <2> QED BY <2>1, <2>2 DEF RequestInv, Passed, streamVars, InnerP!streamVars
<1> QED
  BY <1>1, <1>2, <1>3, <1>4, <1>5, <1>6, <1>7, <1>8, <1>9 DEF Request!LazyNext, Request!EventLoop

\* The request's invariant holds in every state of the services.
LEMMA RequestCorrect == ASSUME StreamConstants PROVE ServicesSpec => []RequestInv
<1>1. ServicesInit => RequestInv
  <2> SUFFICES ASSUME ServicesInit PROVE RequestInv
    OBVIOUS
  <2>1. StreamInit /\ InnerP!StreamInit /\ Request!LazyInit
    BY DEF ServicesInit, Request!LazyInit, StreamInit, Request!StreamInit, Request!Inner!StreamInit,
           InnerP!StreamInit
  <2>2. AloneInv("loop") /\ InnerP!AloneInv("forward")
    BY <2>1, AloneInit, InnerAssumed, InnerP!AloneInit DEF StreamConstants
  <2> QED BY <2>1, <2>2 DEF Request!LazyInit, RequestInv, Passed, StreamInit, InnerP!StreamInit
<1>2. [ServicesNext]_servicesVars => [Request!LazyNext]_requestVars
  BY DEF ServicesNext, servicesVars, secondVars
<1> QED BY <1>1, <1>2, RequestStep, PTL DEF ServicesSpec

\* The agent loop's answer is the last event of the provider, and it comes after every
\* event of it; an error when the provider could not be loaded: ResponseIsTheProviders.
THEOREM ResponseTheorem ==
  ASSUME StreamConstants PROVE ServicesSpec => []ResponseIsTheProviders
<1>1. RequestInv => ResponseIsTheProviders
  <2> SUFFICES ASSUME RequestInv, response # Unresolved
               PROVE  Request!ResponseIsTheProviders
    BY DEF ResponseIsTheProviders, Request!ResponseIsTheProviders
  <2>1. done /\ queue = <<>> /\ given = accepted /\ response = accepted[Len(accepted)]
    <3>1. done /\ queue = <<>> /\ given \in Seq(StreamEvents) /\ given \o queue = accepted
      BY DEF RequestInv, AloneInv, Alone, StreamTypeOK, DeliveryInv, InOrder
    <3>2. response = accepted[Len(accepted)]
      BY <3>1 DEF RequestInv, AloneInv, Final
    <3> QED BY <3>1, <3>2, ConcatEmptySeq
  <2>2. CASE loader = "failed"
    BY <2>1, <2>2 DEF RequestInv, Request!ResponseIsTheProviders
  <2>3. CASE loader = "forwarding"
    BY <2>1, <2>3, NothingBehindFinal DEF Request!ResponseIsTheProviders
  <2>4. loader # "loading"
    BY <2>1 DEF RequestInv, AloneInv, Final
  <2> QED BY <2>2, <2>3, <2>4 DEF RequestInv
<1> QED BY <1>1, RequestCorrect, PTL

----------------------------------------------------------------------------
(* The edit and write tools *)

QueueP == INSTANCE ComponentProofs WITH
  Callers <- Editors \union Writers, Keys <- {"real", "link"}

\* The assumptions on the entries of a branch are the same there.
LEMMA QueueAssumed == QueueP!TypesAssumption /\ QueueP!SizesAssumption
  BY TypesAssumption, SizesAssumption
     DEF TypesAssumption, SizesAssumption, QueueP!TypesAssumption, QueueP!SizesAssumption,
         MessageTypes,
         QueueP!MessageTypes, UserLike, QueueP!UserLike, NoteTypes, QueueP!NoteTypes

FileSteps == {"none", "access", "read", "mkdir", "write", "flush", "done"}

\* A call's body runs inside the queue until its promise has settled.
BodiesInside ==
  \A c \in Files!Calls :
    /\ stage[c] \in {"new", "waiting"} => f_step[c] = "none" /\ f_outcome[c] = "none"
    /\ Files!Working(c) /\ f_outcome[c] = "none" => stage[c] = "inside"
    /\ c \notin f_early /\ stage[c] # "new" => key[c] = "real"
    /\ f_step[c] = "mkdir" => c \in Writers

\* An edit that works beside another body has been noted.
CrowdsNoted ==
  \A e \in Editors : \A c \in Files!Calls \ {e} :
    Files!Working(e) /\ Files!Working(c) => e \in f_crowded

FilesInv ==
  /\ QueueP!IInv
  /\ f_step \in [Files!Calls -> FileSteps] /\ DOMAIN f_outcome = Files!Calls
  /\ DOMAIN f_base = Files!Calls
  /\ BodiesInside /\ CrowdsNoted /\ Files!NoLostEdit

\* The queue of the tools is that of FileMutationQueue.
LEMMA QueueSteps ==
  /\ \A c, k : Files!Queue!Call(c, k) => QueueP!Call(c, k)
  /\ \A c : Files!Queue!Enter(c) => QueueP!Enter(c)
  /\ \A c : Files!Queue!Leave(c) => QueueP!Leave(c)
  /\ UNCHANGED Files!queueVars => UNCHANGED QueueP!vars
  BY DEF Files!Queue!Call, QueueP!Call, Files!Queue!Enter, QueueP!Enter, Files!Queue!MayEnter,
         QueueP!MayEnter, Files!Queue!Leave, QueueP!Leave, Files!queueVars, QueueP!vars

\* What the queue's invariant says of the callers inside.
LEMMA TurnsKept == QueueP!IInv => QueueP!InTurn
  BY QueueAssumed, QueueP!ChainInTurn

\* Where two bodies work at once, one is a straggler or was queued under another name.
LEMMA CrowdNotes ==
  ASSUME None \notin Files!Calls, QueueP!IInv', BodiesInside', CrowdsNoted, Files!Crowd,
         f_step' \in [Files!Calls -> FileSteps], UNCHANGED <<key, f_early>>
  PROVE  CrowdsNoted'
<1> SUFFICES ASSUME NEW e \in Editors, NEW c \in Files!Calls \ {e}, e \in Files!Calls,
                    Files!Working(e)', Files!Working(c)', e \notin f_crowded'
             PROVE  FALSE
  BY DEF CrowdsNoted, Files!Calls
<1>1. Files!Apart(c, e)
  BY DEF Files!Crowd, Files!Working
<1>2. stage'[c] = "inside" /\ stage'[e] = "inside"
  BY <1>1 DEF BodiesInside, Files!Apart
<1>3. key'[c] = key'[e]
  BY <1>1, <1>2 DEF BodiesInside, Files!Apart
<1>4. QueueP!InTurn'
  BY TurnsKept, PTL
<1> QED BY <1>2, <1>3, <1>4 DEF QueueP!InTurn, QueueP!Present, Files!Calls

\* A step that changes neither the steps of the bodies nor the text.
LEMMA EditRests ==
  ASSUME CrowdsNoted, Files!NoLostEdit, UNCHANGED <<f_step, f_base, f_content, f_crowded>>
  PROVE  CrowdsNoted' /\ Files!NoLostEdit'
  BY DEF CrowdsNoted, Files!NoLostEdit, Files!Working

\* Every step of the tools keeps their invariant.
LEMMA FilesStep ==
  ASSUME None \notin Files!Calls, Editors \intersect Writers = {}
  PROVE  FilesInv /\ [Files!Next]_filesVars => FilesInv'
<1> SUFFICES ASSUME FilesInv, [Files!Next]_filesVars PROVE FilesInv'
  OBVIOUS
<1>a. /\ stage \in [Files!Calls -> {"new", "waiting", "inside", "left"}]
      /\ key \in [Files!Calls -> {"real", "link", None}]
      /\ f_step \in [Files!Calls -> FileSteps] /\ DOMAIN f_outcome = Files!Calls
      /\ DOMAIN f_base = Files!Calls /\ BodiesInside /\ CrowdsNoted /\ Files!NoLostEdit
  BY DEF FilesInv, QueueP!IInv, QueueP!TypeOK, Files!Calls
<1>q. ASSUME \/ \E c \in Files!Calls, k \in {"real", "link"} : QueueP!Call(c, k)
             \/ \E c \in Files!Calls : QueueP!Enter(c) \/ QueueP!Leave(c)
             \/ UNCHANGED QueueP!vars
      PROVE  QueueP!IInv'
  BY <1>q, QueueAssumed, QueueP!ChainStep DEF FilesInv, QueueP!Next, Files!Calls
<1>1. ASSUME NEW c \in Files!Calls, Files!Execute(c) PROVE FilesInv'
  <2>1. PICK n \in {"real", "link"} : QueueP!Call(c, Files!KeyOf(n))
    BY <1>1, QueueSteps DEF Files!Execute
  <2>2. Files!KeyOf(n) \in {"real", "link"} /\ (f_exists => Files!KeyOf(n) = "real")
    BY DEF Files!KeyOf
  <2>3. QueueP!IInv'
    BY <1>q, <2>1, <2>2
  <2>4. /\ stage[c] = "new" /\ stage' = [stage EXCEPT ![c] = "waiting"]
        /\ key' = [key EXCEPT ![c] = Files!KeyOf(n)]
        /\ f_early' = IF f_exists THEN f_early ELSE f_early \union {c}
        /\ UNCHANGED <<f_content, f_step, f_base, f_outcome, f_crowded>>
    BY <1>1, <2>1 DEF QueueP!Call, Files!Execute
  <2>5. BodiesInside'
    BY <1>a, <2>2, <2>4 DEF BodiesInside, Files!Working
  <2> QED BY <1>a, <2>3, <2>4, <2>5, EditRests DEF FilesInv
<1>2. ASSUME NEW c \in Files!Calls, Files!Begin(c) PROVE FilesInv'
  <2>1. QueueP!Enter(c) /\ QueueP!IInv'
    BY <1>2, <1>q, QueueSteps DEF Files!Begin
  <2>2. /\ stage[c] = "waiting" /\ stage' = [stage EXCEPT ![c] = "inside"] /\ UNCHANGED key
        /\ Files!Crowd /\ UNCHANGED <<f_content, f_base, f_early>>
    BY <1>2, <2>1 DEF QueueP!Enter, QueueP!MayEnter, Files!Begin, Files!Crowd
  <2>3. /\ f_step' \in [Files!Calls -> FileSteps] /\ DOMAIN f_outcome' = Files!Calls
        /\ f_step'[c] \notin {"write", "mkdir"}
        /\ \A d \in Files!Calls \ {c} : f_step'[d] = f_step[d] /\ f_outcome'[d] = f_outcome[d]
    BY <1>2, <1>a DEF Files!Begin, FileSteps
  <2>4. BodiesInside'
    BY <1>a, <2>2, <2>3 DEF BodiesInside, Files!Working
  <2>5. CrowdsNoted'
    BY <1>a, <2>1, <2>2, <2>3, <2>4, CrowdNotes
  <2>6. Files!NoLostEdit'
    BY <1>a, <2>2, <2>3 DEF Files!NoLostEdit, Files!Crowd, Files!Calls
  <2> QED BY <1>a, <2>1, <2>2, <2>3, <2>4, <2>5, <2>6 DEF FilesInv
<1>3. ASSUME NEW c \in Files!Calls, Files!Working(c), UNCHANGED Files!queueVars, Files!Crowd,
             \A d \in Files!Calls \ {c} :
               f_step'[d] = f_step[d] /\ f_outcome'[d] = f_outcome[d] /\ f_base'[d] = f_base[d],
             f_step' \in [Files!Calls -> FileSteps], DOMAIN f_outcome' = Files!Calls,
             DOMAIN f_base' = Files!Calls,
             f_outcome'[c] = "none" => f_outcome[c] = "none",
             c \in Editors /\ f_step'[c] = "write" => f_base'[c] = f_content',
             f_step'[c] = "mkdir" => c \in Writers
      PROVE  FilesInv'
  <2>1. UNCHANGED <<stage, key, f_early>> /\ f_crowded \subseteq f_crowded' /\ QueueP!IInv'
    BY <1>3, <1>q, QueueSteps DEF Files!Crowd, Files!queueVars
  <2>2. BodiesInside'
    BY <1>3, <1>a, <2>1 DEF BodiesInside, Files!Working
  <2>3. CrowdsNoted'
    BY <1>3, <1>a, <2>1, <2>2, CrowdNotes
  <2>4. ASSUME NEW e \in Editors, f_step'[e] = "write", e \notin f_crowded'
        PROVE  f_base'[e] = f_content'
    <3>1. e \in Files!Calls
      BY DEF Files!Calls
    <3>2. CASE e = c
      BY <1>3, <2>4, <3>2
    <3>3. CASE e # c
      <4>1. Files!Working(e) /\ f_step[e] = "write" /\ e \notin f_crowded
        BY <1>3, <2>1, <2>4, <3>1, <3>3 DEF Files!Working
      <4>2. e \in f_crowded
        BY <1>3, <1>a, <3>3, <4>1 DEF CrowdsNoted
      <4> QED BY <4>1, <4>2
    <3> QED BY <3>2, <3>3
  <2>5. Files!NoLostEdit'
    BY <2>4 DEF Files!NoLostEdit
  <2> QED BY <1>3, <2>1, <2>2, <2>3, <2>5 DEF FilesInv
<1>4. ASSUME NEW c \in Files!Calls, Files!FileSystem(c) PROVE FilesInv'
  <2>1. f_step[c] \in FileSteps
    BY <1>a
  <2>2. CASE Files!Access(c)
    BY <1>3, <1>a, <2>2 DEF Files!Access, Files!Proceed, Files!Reject, Files!Working, FileSteps
  <2>3. CASE Files!ReadToEdit(c)
    BY <1>3, <1>a, <2>3 DEF Files!ReadToEdit, Files!Proceed, Files!Reject, Files!Working, FileSteps
  <2>4. CASE Files!ReadToWrite(c)
    BY <1>3, <1>a, <2>4 DEF Files!ReadToWrite, Files!Proceed, Files!Working, FileSteps
  <2>5. CASE Files!Mkdir(c)
    <3>1. c \notin Editors
      BY <1>a, <2>5 DEF Files!Mkdir, BodiesInside
    <3> QED BY <1>3, <1>a, <2>5, <3>1 DEF Files!Mkdir, Files!Proceed, Files!Working, FileSteps
  <2>6. CASE Files!Truncate(c)
    BY <1>3, <1>a, <2>6 DEF Files!Truncate, Files!Working, FileSteps
  <2>7. CASE Files!Flush(c)
    BY <1>3, <1>a, <2>7 DEF Files!Flush, Files!Working, FileSteps
  <2> QED BY <1>4, <2>2, <2>3, <2>4, <2>5, <2>6, <2>7 DEF Files!FileSystem
<1>5. ASSUME NEW c \in Files!Calls, Files!Fail(c) PROVE FilesInv'
  BY <1>3, <1>a, <1>5 DEF Files!Fail, Files!Reject, FileSteps
<1>6. ASSUME NEW c \in Files!Calls, Files!Return(c) PROVE FilesInv'
  <2>1. QueueP!Leave(c) /\ QueueP!IInv'
    BY <1>6, <1>q, QueueSteps DEF Files!Return
  <2>2. /\ stage[c] = "inside" /\ stage' = [stage EXCEPT ![c] = "left"] /\ UNCHANGED key
        /\ f_outcome[c] # "none"
        /\ UNCHANGED <<f_content, f_step, f_base, f_outcome, f_early, f_crowded>>
    BY <1>6, <2>1 DEF QueueP!Leave, Files!Return
  <2>3. BodiesInside'
    BY <1>a, <2>2 DEF BodiesInside, Files!Working
  <2> QED BY <1>a, <2>1, <2>2, <2>3, EditRests DEF FilesInv
<1>7. ASSUME NEW r, Files!Abort(r) PROVE FilesInv'
  <2>1. /\ UNCHANGED <<stage, key, f_content, f_step, f_base, f_early, f_crowded>>
        /\ DOMAIN f_outcome' = Files!Calls /\ QueueP!IInv'
        /\ \A c \in Files!Calls :
             f_outcome'[c] = f_outcome[c] \/ (Files!Working(c) /\ f_outcome'[c] = "aborted")
    BY <1>7, <1>q, QueueSteps DEF Files!Abort, Files!queueVars
  <2>2. BodiesInside'
    BY <1>a, <2>1 DEF BodiesInside, Files!Working
  <2> QED BY <1>a, <2>1, <2>2, EditRests DEF FilesInv
<1>8. CASE UNCHANGED filesVars
  <2>1. /\ UNCHANGED QueueP!vars
        /\ UNCHANGED <<f_content, f_step, f_base, f_outcome, f_early, f_crowded>>
    BY <1>8 DEF filesVars, QueueP!vars
  <2>2. BodiesInside'
    BY <1>a, <2>1 DEF BodiesInside, Files!Working, QueueP!vars
  <2> QED BY <1>a, <1>q, <2>1, <2>2, EditRests DEF FilesInv
<1> QED
  BY <1>1, <1>2, <1>4, <1>5, <1>6, <1>7, <1>8 DEF Files!Next, Files!Owed

LEMMA FilesKept ==
  ASSUME Editors \intersect Writers = {}, None \notin Editors \union Writers
  PROVE  ServicesSpec => []FilesInv
<1>1. ServicesInit => FilesInv
  <2> SUFFICES ASSUME ServicesInit PROVE FilesInv
    OBVIOUS
  <2>1. Files!Init
    BY DEF ServicesInit
  <2>2. QueueP!Init
    BY <2>1 DEF Files!Init, Files!Queue!Init, QueueP!Init, Files!Calls
  <2>3. QueueP!IInv
    BY <2>2, QueueAssumed, QueueP!InitChain
  <2> QED BY <2>1, <2>2, <2>3 DEF Files!Init, FilesInv, QueueP!Init, FileSteps, BodiesInside,
                                  CrowdsNoted, Files!NoLostEdit, Files!Working, Files!Calls
<1>2. [ServicesNext]_servicesVars => [Files!Next]_filesVars
  BY DEF ServicesNext, servicesVars, firstVars
<1>3. FilesInv /\ [Files!Next]_filesVars => FilesInv'
  BY FilesStep DEF Files!Calls
<1> QED BY <1>1, <1>2, <1>3, PTL DEF ServicesSpec

\* An edit replaces the text it has read, whatever calls, runs and failures there are:
\* NoLostEdit of the services.
THEOREM EditTheorem ==
  ASSUME Editors \intersect Writers = {}, None \notin Editors \union Writers
  PROVE  ServicesSpec => []NoLostEdit
<1>1. FilesInv => NoLostEdit
  BY DEF FilesInv, NoLostEdit
<1> QED BY <1>1, FilesKept, PTL

----------------------------------------------------------------------------
(* The RPC client: chains of requests, and their answers *)

RpcStates == {"new", "chained", "sent", "answered", "rejected"}
InChain(r) == r_state[r] # "new"
Begun(r) == r_state[r] \in {"sent", "answered", "rejected"}
SameChain(r, s) == InChain(r) /\ InChain(s) /\ r_chainHead[r] = r_chainHead[s]

Lines == [type : {"response", "agent_end"}, id : RpcRequests]

RpcTypes ==
  /\ r_state \in [RpcRequests -> RpcStates] /\ r_pending \subseteq RpcRequests
  /\ r_before \in [RpcRequests -> RpcRequests \union {None}]
  /\ r_chainHead \in [RpcRequests -> RpcRequests] /\ r_sendChain \in RpcRequests \union {None}
  /\ r_stdin \in Seq(RpcRequests)
  /\ r_stdout \in Seq(Lines)
  /\ r_streaming \in RpcRequests \union {None}
  /\ \A r \in r_pending : r_state[r] = "sent"

\* A chain in the order of its requests: each follows its predecessor, and whatever comes
\* before one that has begun is settled.
InOrderOf(rank) ==
  /\ \A r \in RpcRequests : InChain(r) =>
       /\ InChain(r_chainHead[r])
       /\ r_before[r] # None => SameChain(r_before[r], r) /\ rank[r_before[r]] < rank[r]
  /\ \A r, s \in RpcRequests : SameChain(r, s) =>
       /\ rank[r] = rank[s] => r = s
       /\ r_before[s] = None => rank[s] <= rank[r]
       /\ r_before[s] # None /\ rank[r] < rank[s] => rank[r] <= rank[r_before[s]]
       /\ rank[r] < rank[s] /\ Begun(s) => Client!Settled(r)
  /\ r_sendChain # None =>
       /\ InChain(r_sendChain)
       /\ \A r \in RpcRequests : SameChain(r, r_sendChain) => rank[r] <= rank[r_sendChain]

\* x is in the sequence q, and at most once.
In(q, x) == \E i \in 1 .. Len(q) : q[i] = x
Once(q, x) == \A i, j \in 1 .. Len(q) : q[i] = x /\ q[j] = x => i = j

\* A request that has not timed out, and is no refused prompt, is in one place on its way to
\* the agent and back, and pending as long as it is there.
OnItsWay(r) == In(r_stdin, r) \/ r \in r_bash \/ r \in r_aborting \/ In(r_stdout, Client!Response(r))

OneAnswer ==
  \A r \in RpcRequests \ r_lateFor :
    /\ OnItsWay(r) => r \in r_pending
    /\ In(r_stdin, r) => r \notin r_bash /\ r \notin r_aborting /\ ~In(r_stdout, Client!Response(r))
    /\ r \in r_bash => r \notin r_aborting /\ ~In(r_stdout, Client!Response(r))
    /\ r \in r_aborting => ~In(r_stdout, Client!Response(r))
    /\ Once(r_stdin, r) /\ Once(r_stdout, Client!Response(r))

AnswersInv ==
  /\ r_alive => r_process # "none"
  /\ r_process # "none" => OneAnswer
  /\ Client!StraysExplained

\* No request is called None.
RpcNames == None \notin RpcRequests

\* Calls, sends, answers, timeouts and the stop of the server keep the types.
LEMMA RpcTypesStep == ASSUME RpcNames PROVE RpcTypes /\ [Client!Next]_rpcVars => RpcTypes'
<1> SUFFICES ASSUME RpcTypes, [Client!Next]_rpcVars PROVE RpcTypes'
  OBVIOUS
<1> USE DEF RpcTypes, RpcStates
<1>1. CASE Client!Start
  BY <1>1, RpcNames DEF Client!Start
<1>2. CASE Client!Stop \/ UNCHANGED rpcVars
  BY <1>2 DEF Client!Stop, Client!agentVars, rpcVars
<1>x. CASE Client!Die
  BY <1>x DEF Client!Die, Client!clientVars
<1>3. CASE Client!Stopped
  BY <1>3 DEF Client!Stopped
<1>4. CASE Client!HandleLine
  <2>1. r_stdout' \in Seq(Lines)
    BY <1>4 DEF Client!HandleLine
  <2> QED BY <1>4, <2>1 DEF Client!HandleLine, Client!agentVars
<1>a. \A r \in RpcRequests : Client!Response(r) \in Lines /\ Client!AgentEnd(r) \in Lines
  BY DEF Client!Response, Client!AgentEnd, Lines
<1>b. ASSUME NEW q \in Seq(Lines), NEW m \in Lines
      PROVE  Append(q, m) \in Seq(Lines) /\ q \o <<m, m>> \in Seq(Lines)
  OBVIOUS
<1>5. CASE Client!HandleInputLine
  <2>1. Head(r_stdin) \in RpcRequests /\ Tail(r_stdin) \in Seq(RpcRequests)
    BY <1>5 DEF Client!HandleInputLine
  <2>2. r_stdout' \in Seq(Lines)
    <3> DEFINE m == Client!Response(Head(r_stdin))
    <3>1. m \in Lines
      BY <1>a, <2>1
    <3>2. r_stdout' \in {r_stdout, Append(r_stdout, m), r_stdout \o <<m, m>>}
      BY <1>5 DEF Client!HandleInputLine
    <3> HIDE DEF m
    <3> QED BY <1>b, <3>1, <3>2
  <2>3. r_streaming' \in RpcRequests \union {None}
    BY <1>5, <2>1 DEF Client!HandleInputLine
  <2> QED BY <1>5, <2>1, <2>2, <2>3 DEF Client!HandleInputLine, Client!clientVars
<1>6. CASE Client!RunEnds
  BY <1>6, <1>a DEF Client!RunEnds, Client!clientVars
<1>7. ASSUME NEW r \in RpcRequests, Client!Send(r) PROVE RpcTypes'
  BY <1>7 DEF Client!Send, Client!Predecessor, Client!agentVars
<1>8. ASSUME NEW r \in RpcRequests, Client!SendSequential(r) PROVE RpcTypes'
  <2>1. r_stdin' \in Seq(RpcRequests)
    BY <1>8 DEF Client!SendSequential
  <2> QED BY <1>8, <2>1 DEF Client!SendSequential, Client!Registered, Client!agentVars
<1>9. ASSUME NEW r \in RpcRequests, Client!Timeout(r) PROVE RpcTypes'
  BY <1>9 DEF Client!Timeout, Client!agentVars
<1>10. ASSUME NEW r \in RpcRequests, Client!BashEnds(r) \/ Client!Aborted(r) PROVE RpcTypes'
  <2>1. r_stdout' \in Seq(Lines)
    BY <1>10, <1>a, <1>b DEF Client!BashEnds, Client!Aborted, Client!clientVars
  <2> QED BY <1>10, <2>1 DEF Client!BashEnds, Client!Aborted, Client!clientVars
<1>11. ASSUME NEW l, Client!WaitTimesOut(l) \/ Client!WaitForIdle(l) PROVE RpcTypes'
  BY <1>11 DEF Client!WaitTimesOut, Client!WaitForIdle, Client!agentVars
<1> QED
  BY <1>1, <1>2, <1>x, <1>3, <1>4, <1>5, <1>6, <1>7, <1>8, <1>9, <1>10, <1>11 DEF Client!Next

\* A request that settles lets the next of its chain begin, and no other.
LEMMA SendChainStep ==
  ASSUME RpcNames, RpcTypes, RpcTypes', NEW rank \in [RpcRequests -> Nat], InOrderOf(rank),
         [Client!Next]_rpcVars
  PROVE  \E next \in [RpcRequests -> Nat] : InOrderOf(next)'
<1> USE DEF RpcTypes, RpcStates, InChain, SameChain, Begun, Client!Settled
<1>1. ASSUME UNCHANGED <<r_state, r_before, r_chainHead>>, r_sendChain' \in {r_sendChain, None}
      PROVE  InOrderOf(rank)'
  BY <1>1 DEF InOrderOf
<1>2. ASSUME NEW r \in RpcRequests, NEW s \in {"answered", "rejected"},
             r_state[r] = "sent", r_state' = [r_state EXCEPT ![r] = s],
             UNCHANGED <<r_before, r_chainHead, r_sendChain>>
      PROVE  InOrderOf(rank)'
  BY <1>2 DEF InOrderOf
<1>3. CASE \/ Client!Start \/ Client!Stop \/ Client!Stopped \/ Client!HandleInputLine
           \/ Client!RunEnds \/ Client!Die \/ UNCHANGED rpcVars
  BY <1>1, <1>3 DEF Client!Start, Client!Stop, Client!Stopped, Client!HandleInputLine,
                    Client!RunEnds, Client!Die, Client!clientVars, rpcVars
<1>4. CASE Client!HandleLine
  BY <1>1, <1>2, <1>4 DEF Client!HandleLine
<1>5. ASSUME NEW r \in RpcRequests, Client!Timeout(r) PROVE InOrderOf(rank)'
  BY <1>2, <1>5 DEF Client!Timeout
<1>6. ASSUME NEW r \in RpcRequests, Client!BashEnds(r) \/ Client!Aborted(r)
      PROVE  InOrderOf(rank)'
  BY <1>1, <1>6 DEF Client!BashEnds, Client!Aborted, Client!clientVars
<1>7. ASSUME NEW l, Client!WaitTimesOut(l) \/ Client!WaitForIdle(l) PROVE InOrderOf(rank)'
  BY <1>1, <1>7 DEF Client!WaitTimesOut, Client!WaitForIdle
<1>8. ASSUME NEW r \in RpcRequests, Client!SendSequential(r) PROVE InOrderOf(rank)'
  <2>1. /\ r_state[r] = "chained" /\ (r_before[r] # None => Client!Settled(r_before[r]))
        /\ UNCHANGED <<r_before, r_chainHead, r_sendChain>>
        /\ \E s \in {"sent", "rejected"} : r_state' = [r_state EXCEPT ![r] = s]
    BY <1>8 DEF Client!SendSequential
  <2>2. ASSUME NEW s \in RpcRequests, SameChain(s, r), rank[s] < rank[r]
        PROVE  Client!Settled(s)
    <3> DEFINE b == r_before[r]
    <3>0. InChain(r) /\ (b = None => rank[r] <= rank[s])
      BY <2>1, <2>2 DEF InOrderOf
    <3>1. b # None /\ SameChain(b, r) /\ b \in RpcRequests
      <4>1. b # None
        BY <2>2, <3>0
      <4> QED BY <3>0, <4>1 DEF InOrderOf
    <3>2. Client!Settled(b) /\ rank[s] <= rank[b] /\ SameChain(s, b)
      BY <2>1, <2>2, <3>1 DEF InOrderOf
    <3>3. rank[s] = rank[b] => s = b
      BY <3>1, <3>2 DEF InOrderOf
    <3>4. rank[s] < rank[b] => Client!Settled(s)
      BY <3>1, <3>2 DEF InOrderOf
    <3> QED BY <3>1, <3>2, <3>3, <3>4
  <2> QED BY <2>1, <2>2 DEF InOrderOf
<1>9. ASSUME NEW r \in RpcRequests, Client!Send(r)
      PROVE  \E next \in [RpcRequests -> Nat] : InOrderOf(next)'
  <2>1. /\ r_state[r] = "new" /\ r_state' = [r_state EXCEPT ![r] = "chained"]
        /\ r_before' = [r_before EXCEPT ![r] = r_sendChain] /\ r_sendChain' = r
        /\ r_chainHead' = [r_chainHead EXCEPT ![r] =
                             IF r_sendChain = None THEN r ELSE r_chainHead[r_sendChain]]
    BY <1>9 DEF Client!Send, Client!Predecessor
  <2>2. PICK next \in [RpcRequests -> Nat] :
          /\ \A s \in RpcRequests \ {r} : next[s] = rank[s]
          /\ next[r] = IF r_sendChain = None THEN 0 ELSE rank[r_sendChain] + 1
    <3> DEFINE last == IF r_sendChain = None THEN 0 ELSE rank[r_sendChain] + 1
    <3>1. last \in Nat
      OBVIOUS
    <3> HIDE DEF last
    <3>2. [rank EXCEPT ![r] = last] \in [RpcRequests -> Nat]
      BY <3>1
    <3>3. /\ \A s \in RpcRequests \ {r} : [rank EXCEPT ![r] = last][s] = rank[s]
          /\ [rank EXCEPT ![r] = last][r] = last
      OBVIOUS
    <3> QED BY <3>2, <3>3 DEF last
  <2>3. /\ \A s \in RpcRequests \ {r} :
             /\ r_state'[s] = r_state[s] /\ r_before'[s] = r_before[s]
             /\ r_chainHead'[s] = r_chainHead[s] /\ next[s] = rank[s]
        /\ \A s \in RpcRequests : InChain(s) => s # r /\ r_chainHead[s] # r
    BY <2>1, <2>2 DEF InOrderOf
  <2>4. CASE r_sendChain = None
    <3>1. r_before'[r] = None /\ r_chainHead'[r] = r /\ next[r] = 0 /\ r_state'[r] = "chained"
      BY <2>1, <2>2, <2>4
    <3>2. \A s \in RpcRequests : SameChain(s, r)' \/ SameChain(r, s)' => s = r
      BY <2>1, <2>3, <3>1
    <3>3. \A s \in RpcRequests : InChain(s)' =>
            /\ InChain(r_chainHead[s])'
            /\ r_before'[s] # None =>
                 SameChain(r_before[s], s)' /\ next[r_before'[s]] < next[s]
      <4>1. ASSUME NEW s \in RpcRequests \ {r}, InChain(s)
            PROVE  /\ r_chainHead[s] \in RpcRequests \ {r} /\ InChain(r_chainHead[s])
                   /\ r_before[s] # None =>
                        /\ r_before[s] \in RpcRequests \ {r}
                        /\ SameChain(r_before[s], s) /\ rank[r_before[s]] < rank[s]
        BY <2>1, <2>3, <4>1 DEF InOrderOf
      <4> QED BY <2>1, <2>3, <3>1, <4>1
    <3>4. ASSUME NEW x \in RpcRequests, NEW s \in RpcRequests, SameChain(x, s)'
          PROVE  /\ next[x] = next[s] => x = s
                 /\ r_before'[s] = None => next[s] <= next[x]
                 /\ r_before'[s] # None /\ next[x] < next[s] => next[x] <= next[r_before'[s]]
                 /\ next[x] < next[s] /\ Begun(s)' => Client!Settled(x)'
      <4>1. CASE s = r \/ x = r
        BY <2>2, <3>1, <3>2, <3>4, <4>1
      <4>2. CASE s # r /\ x # r
        <5>1. SameChain(x, s) /\ (r_before[s] # None => r_before[s] \in RpcRequests \ {r})
          BY <2>1, <2>3, <3>4, <4>2 DEF InOrderOf
        <5> QED BY <2>2, <2>3, <4>2, <5>1 DEF InOrderOf
      <4> QED BY <4>1, <4>2
    <3>5. \A s \in RpcRequests : SameChain(s, r)' => next[s] <= next[r]
      BY <3>1, <3>2
    <3>6. InOrderOf(next)'
      BY <2>1, <3>1, <3>3, <3>4, <3>5 DEF InOrderOf
    <3> QED BY <2>2, <3>6
  <2>5. CASE r_sendChain # None
    <3> DEFINE b == r_sendChain
    <3>1. /\ r_before'[r] = b /\ r_chainHead'[r] = r_chainHead[b] /\ next[r] = rank[b] + 1
          /\ r_state'[r] = "chained" /\ b \in RpcRequests \ {r} /\ InChain(b)
      BY <2>1, <2>2, <2>5 DEF InOrderOf
    <3>2. \A s \in RpcRequests \ {r} : SameChain(s, r)' => SameChain(s, b) /\ next[s] < next[r]
      BY <2>1, <2>2, <2>3, <3>1 DEF InOrderOf
    <3>3. \A s \in RpcRequests : InChain(s)' =>
            /\ InChain(r_chainHead[s])'
            /\ r_before'[s] # None =>
                 SameChain(r_before[s], s)' /\ next[r_before'[s]] < next[s]
      <4>1. ASSUME NEW s \in RpcRequests \ {r}, InChain(s)
            PROVE  /\ r_chainHead[s] \in RpcRequests \ {r} /\ InChain(r_chainHead[s])
                   /\ r_before[s] # None =>
                        /\ r_before[s] \in RpcRequests \ {r}
                        /\ SameChain(r_before[s], s) /\ rank[r_before[s]] < rank[s]
        BY <2>1, <2>3, <4>1 DEF InOrderOf
      <4>2. /\ InChain(r_chainHead[b]) /\ r_chainHead[b] \in RpcRequests \ {r}
            /\ r_chainHead'[b] = r_chainHead[b] /\ next[b] < next[r]
        BY <2>2, <2>3, <3>1, <4>1
      <4> QED BY <2>1, <2>3, <3>1, <4>1, <4>2
    <3>4. ASSUME NEW x \in RpcRequests, NEW s \in RpcRequests, SameChain(x, s)'
          PROVE  /\ next[x] = next[s] => x = s
                 /\ r_before'[s] = None => next[s] <= next[x]
                 /\ r_before'[s] # None /\ next[x] < next[s] => next[x] <= next[r_before'[s]]
                 /\ next[x] < next[s] /\ Begun(s)' => Client!Settled(x)'
      <4>1. CASE s = r
        <5>1. CASE x = r
          BY <2>2, <3>1, <4>1, <5>1
        <5>2. CASE x # r
          <6>1. SameChain(x, b) /\ next[x] < next[r]
            BY <3>2, <3>4, <4>1, <5>2
          <6>2. rank[x] <= rank[b]
            BY <2>5, <6>1 DEF InOrderOf
          <6>3. next[b] = rank[b] /\ next[x] = rank[x] /\ rank[b] \in Nat /\ rank[x] \in Nat
            BY <2>3, <3>1, <5>2
          <6> QED BY <2>5, <3>1, <4>1, <5>2, <6>1, <6>2, <6>3
        <5> QED BY <5>1, <5>2
      <4>2. CASE s # r /\ x = r
        <5>1. SameChain(s, r)' /\ SameChain(s, b) /\ next[s] < next[r]
          BY <2>2, <3>2, <3>4, <4>2
        <5> QED BY <2>1, <2>2, <2>3, <3>1, <4>2, <5>1 DEF InOrderOf
      <4>3. CASE s # r /\ x # r
        <5>1. SameChain(x, s) /\ (r_before[s] # None => r_before[s] \in RpcRequests \ {r})
          BY <2>1, <2>3, <3>4, <4>3 DEF InOrderOf
        <5> QED BY <2>1, <2>2, <2>3, <4>3, <5>1 DEF InOrderOf
      <4> QED BY <4>1, <4>2, <4>3
    <3>5. \A s \in RpcRequests : SameChain(s, r)' => next[s] <= next[r]
      <4> SUFFICES ASSUME NEW s \in RpcRequests, SameChain(s, r)' PROVE next[s] <= next[r]
        OBVIOUS
      <4>1. next[s] \in Nat /\ next[r] \in Nat
        BY <2>2
      <4>2. s = r \/ next[s] < next[r]
        BY <3>2
      <4> QED BY <4>1, <4>2
    <3>6. r_sendChain' = r /\ InChain(r)'
      BY <2>1, <3>1
    <3>7. InOrderOf(next)'
      BY <3>3, <3>4, <3>5, <3>6 DEF InOrderOf
    <3> QED BY <2>2, <3>7
  <2> QED BY <2>2, <2>4, <2>5
<1> QED
  BY <1>3, <1>4, <1>5, <1>6, <1>7, <1>8, <1>9 DEF Client!Next

\* What the ends of a pipe do to what is in it.
LEMMA PipeEnds ==
  ASSUME NEW S, NEW q \in Seq(S)
  PROVE  /\ ~In(<<>>, q) /\ Once(<<>>, q)
         /\ q # <<>> => In(q, Head(q)) /\ \A x : In(Tail(q), x) => In(q, x)
         /\ q # <<>> => \A x : Once(q, x) => Once(Tail(q), x) /\ (x = Head(q) => ~In(Tail(q), x))
         /\ \A y \in S : \A x : In(Append(q, y), x) <=> In(q, x) \/ x = y
         /\ \A y \in S : \A x : Once(q, x) /\ (x = y => ~In(q, x)) => Once(Append(q, y), x)
<1>1. q # <<>> => /\ Len(q) \in Nat \ {0} /\ Len(Tail(q)) = Len(q) - 1
                  /\ \A i \in 1 .. Len(Tail(q)) : Tail(q)[i] = q[i + 1] /\ i + 1 \in 2 .. Len(q)
                  /\ Head(q) = q[1]
  OBVIOUS
<1>2. q # <<>> => In(q, Head(q)) /\ \A x : In(Tail(q), x) => In(q, x)
  BY <1>1 DEF In
<1>3. q # <<>> => \A x : Once(q, x) => Once(Tail(q), x) /\ (x = Head(q) => ~In(Tail(q), x))
  <2> SUFFICES ASSUME q # <<>>, NEW x, Once(q, x)
               PROVE  Once(Tail(q), x) /\ (x = Head(q) => ~In(Tail(q), x))
    OBVIOUS
  <2>1. ASSUME NEW i \in 1 .. Len(Tail(q)), NEW j \in 1 .. Len(Tail(q)),
               Tail(q)[i] = x, Tail(q)[j] = x
        PROVE  i = j
    <3>1. i + 1 = j + 1
      BY <1>1, <2>1 DEF Once
    <3> QED BY <3>1
  <2>2. ASSUME x = Head(q), NEW i \in 1 .. Len(Tail(q)), Tail(q)[i] = x PROVE FALSE
    <3>1. i + 1 = 1
      BY <1>1, <2>2 DEF Once
    <3> QED BY <3>1
  <2> QED BY <2>1, <2>2 DEF Once, In
<1>4. ASSUME NEW y \in S
      PROVE  /\ Len(Append(q, y)) = Len(q) + 1 /\ Len(q) \in Nat /\ Append(q, y)[Len(q) + 1] = y
             /\ \A i \in 1 .. Len(q) : Append(q, y)[i] = q[i]
  OBVIOUS
<1>5. ASSUME NEW y \in S, NEW x PROVE In(Append(q, y), x) <=> In(q, x) \/ x = y
  <2>1. Len(q) + 1 \in 1 .. Len(Append(q, y))
    BY <1>4
  <2>2. \A i \in 1 .. Len(q) : i \in 1 .. Len(Append(q, y))
    BY <1>4
  <2>3. \A i \in 1 .. Len(Append(q, y)) : i \in 1 .. Len(q) \/ i = Len(q) + 1
    BY <1>4
  <2> QED BY <1>4, <2>1, <2>2, <2>3 DEF In
<1>6. ASSUME NEW y \in S, NEW x, Once(q, x), x = y => ~In(q, x) PROVE Once(Append(q, y), x)
  <2>1. \A i \in 1 .. Len(Append(q, y)) : i \in 1 .. Len(q) \/ i = Len(q) + 1
    BY <1>4
  <2> QED BY <1>4, <1>6, <2>1 DEF In, Once
<1>7. ~In(<<>>, q) /\ Once(<<>>, q)
  BY DEF In, Once
<1> QED BY <1>2, <1>3, <1>5, <1>6, <1>7

\* A line goes one place further, once, and what is pending is pending until it is back.
LEMMA AnswersStep ==
  ASSUME RpcTypes, RpcTypes', AnswersInv, [Client!Next]_rpcVars PROVE AnswersInv'
<1> USE DEF Client!StraysExplained
<1>a. /\ r_stdin \in Seq(RpcRequests) /\ r_stdout \in Seq(Lines)
      /\ \A r \in r_pending : r_state[r] = "sent"
  BY DEF RpcTypes
<1>b. \A r \in RpcRequests : Client!Response(r) \in Lines /\ Client!AgentEnd(r) \in Lines
  BY DEF Client!Response, Client!AgentEnd, Lines
<1>c. /\ \A r, s \in RpcRequests : Client!Response(r) = Client!Response(s) => r = s
      /\ \A r, s \in RpcRequests : Client!Response(r) # Client!AgentEnd(s)
  BY DEF Client!Response, Client!AgentEnd
<1>1. CASE Client!Start
  <2>1. \A x : ~In(<<>>, x) /\ Once(<<>>, x)
    BY DEF In, Once
  <2> QED BY <1>1, <2>1 DEF Client!Start, AnswersInv, OneAnswer, OnItsWay
<1>2. ASSUME UNCHANGED <<r_pending, r_stdin, r_stdout, r_bash, r_aborting, r_lateFor, r_strays>>,
             r_alive' => r_alive, r_process' # "none", r_process # "none"
      PROVE  AnswersInv'
  BY <1>2 DEF AnswersInv, OneAnswer, OnItsWay
<1>3. ASSUME UNCHANGED <<r_process, r_pending, r_stdin, r_stdout, r_bash, r_aborting, r_lateFor,
                         r_strays>>,
             r_alive' => r_alive
      PROVE  AnswersInv'
  BY <1>3 DEF AnswersInv, OneAnswer, OnItsWay
<1>4. CASE Client!Stop
  BY <1>2, <1>4 DEF Client!Stop, Client!agentVars
<1>5. CASE Client!Stopped
  BY <1>5 DEF Client!Stopped, AnswersInv
<1>6. CASE Client!Die \/ UNCHANGED rpcVars
  BY <1>3, <1>6 DEF Client!Die, Client!clientVars, rpcVars
<1>7. ASSUME NEW r \in RpcRequests, Client!Send(r) PROVE AnswersInv'
  BY <1>3, <1>7 DEF Client!Send, Client!agentVars
<1>8. ASSUME NEW l, Client!WaitTimesOut(l) \/ Client!WaitForIdle(l) PROVE AnswersInv'
  BY <1>3, <1>8 DEF Client!WaitTimesOut, Client!WaitForIdle, Client!agentVars
<1>9. ASSUME NEW r \in RpcRequests, Client!Timeout(r) PROVE AnswersInv'
  BY <1>9 DEF Client!Timeout, Client!agentVars, AnswersInv, OneAnswer, OnItsWay
<1>10. ASSUME NEW r \in RpcRequests, Client!SendSequential(r) PROVE AnswersInv'
  <2>1. CASE r_process = "none"
    BY <1>3, <1>10, <2>1 DEF Client!SendSequential, Client!agentVars
  <2>2. CASE r_process # "none"
    <3>1. /\ r_state[r] = "chained" /\ r_pending' = r_pending \union {r}
          /\ r_stdin' = Append(r_stdin, r)
          /\ UNCHANGED <<r_process, r_stdout, r_bash, r_aborting, r_lateFor, r_strays, r_alive>>
      BY <1>10, <2>2 DEF Client!SendSequential, Client!Registered, Client!agentVars
    <3>2. /\ \A x : In(r_stdin', x) <=> In(r_stdin, x) \/ x = r
          /\ \A x : Once(r_stdin, x) /\ (x = r => ~In(r_stdin, x)) => Once(r_stdin', x)
      BY <1>a, <3>1, PipeEnds
    <3>3. r \notin r_pending
      BY <1>a, <3>1
    <3> QED BY <2>2, <3>1, <3>2, <3>3 DEF AnswersInv, OneAnswer, OnItsWay
  <2> QED BY <2>1, <2>2
<1>11. CASE Client!HandleLine
  <2> DEFINE m == Head(r_stdout)
  <2>1. /\ r_process = "up" /\ r_stdout # <<>> /\ r_stdout' = Tail(r_stdout) /\ m \in Lines
        /\ UNCHANGED <<r_process, r_stdin, r_alive, r_bash, r_aborting, r_lateFor>>
    BY <1>a, <1>11 DEF Client!HandleLine, Client!agentVars
  <2>2. /\ In(r_stdout, m) /\ \A x : In(r_stdout', x) => In(r_stdout, x)
        /\ \A x : Once(r_stdout, x) => Once(r_stdout', x) /\ (x = m => ~In(r_stdout', x))
    BY <1>a, <2>1, PipeEnds
  <2>3. CASE m.type = "response"
    <3>1. m.id \in RpcRequests /\ m = Client!Response(m.id)
      BY <2>1, <2>3 DEF Lines, Client!Response
    <3>2. m.id \notin r_lateFor => m.id \in r_pending
      BY <2>1, <2>2, <3>1 DEF AnswersInv, OneAnswer, OnItsWay
    <3>3. r_pending' = r_pending \ {m.id}
          /\ r_strays' \in {r_strays, r_strays \union {m.id}}
          /\ (m.id \in r_pending => r_strays' = r_strays)
      BY <1>11, <2>3 DEF Client!HandleLine
    <3> HIDE DEF m
    <3> QED BY <2>1, <2>2, <3>1, <3>2, <3>3 DEF AnswersInv, OneAnswer, OnItsWay
  <2>4. CASE m.type # "response"
    <3>1. UNCHANGED <<r_pending, r_strays>>
      BY <1>11, <2>4 DEF Client!HandleLine
    <3> QED BY <2>1, <2>2, <3>1 DEF AnswersInv, OneAnswer, OnItsWay
  <2> QED BY <2>3, <2>4
<1>12. ASSUME NEW m \in Lines, r_stdout' = Append(r_stdout, m), r_alive,
              UNCHANGED <<r_process, r_pending, r_alive, r_strays>>,
              \/ /\ \A r \in RpcRequests : m # Client!Response(r)
                 /\ UNCHANGED <<r_stdin, r_bash, r_aborting, r_lateFor>>
              \/ \E r \in RpcRequests :
                   /\ m = Client!Response(r)
                   /\ \/ /\ r \in r_bash /\ r_bash' = r_bash \ {r}
                         /\ UNCHANGED <<r_stdin, r_aborting, r_lateFor>>
                      \/ /\ r \in r_aborting /\ r_aborting' = r_aborting \ {r}
                         /\ UNCHANGED <<r_stdin, r_bash, r_lateFor>>
                      \/ /\ r_stdin # <<>> /\ r = Head(r_stdin) /\ r_stdin' = Tail(r_stdin)
                         /\ UNCHANGED <<r_bash, r_aborting, r_lateFor>>
       PROVE  AnswersInv'
  <2>1. /\ \A x : In(r_stdout', x) <=> In(r_stdout, x) \/ x = m
        /\ \A x : Once(r_stdout, x) /\ (x = m => ~In(r_stdout, x)) => Once(r_stdout', x)
    BY <1>a, <1>12, PipeEnds
  <2>2. r_stdin # <<>> =>
          /\ In(r_stdin, Head(r_stdin)) /\ \A x : In(Tail(r_stdin), x) => In(r_stdin, x)
          /\ \A x : Once(r_stdin, x) =>
               Once(Tail(r_stdin), x) /\ (x = Head(r_stdin) => ~In(Tail(r_stdin), x))
    BY <1>a, PipeEnds
  <2>3. r_process # "none" /\ OneAnswer
    BY <1>12 DEF AnswersInv
  <2>4. CASE /\ \A r \in RpcRequests : m # Client!Response(r)
             /\ UNCHANGED <<r_stdin, r_bash, r_aborting, r_lateFor>>
    BY <1>12, <2>1, <2>3, <2>4 DEF AnswersInv, OneAnswer, OnItsWay
  <2>5. ASSUME NEW r \in RpcRequests, m = Client!Response(r), r_lateFor' = r_lateFor,
               r_bash' \in {r_bash, r_bash \ {r}}, r_aborting' \in {r_aborting, r_aborting \ {r}},
               \A x : In(r_stdin', x) => In(r_stdin, x),
               \A x : Once(r_stdin, x) => Once(r_stdin', x),
               r \notin r_lateFor =>
                 /\ OnItsWay(r) /\ ~In(r_stdout, m)
                 /\ ~In(r_stdin', r) /\ r \notin r_bash' /\ r \notin r_aborting'
        PROVE  AnswersInv'
    <3>1. ASSUME NEW s \in RpcRequests \ r_lateFor
          PROVE  /\ OnItsWay(s)' => s \in r_pending
                 /\ In(r_stdin, s)' =>
                      s \notin r_bash' /\ s \notin r_aborting' /\ ~In(r_stdout, Client!Response(s))'
                 /\ s \in r_bash' => s \notin r_aborting' /\ ~In(r_stdout, Client!Response(s))'
                 /\ s \in r_aborting' => ~In(r_stdout, Client!Response(s))'
                 /\ Once(r_stdin, s)' /\ Once(r_stdout, Client!Response(s))'
      <4>1. CASE s = r
        BY <1>c, <2>1, <2>3, <2>5, <3>1, <4>1 DEF OneAnswer, OnItsWay
      <4>2. CASE s # r
        BY <1>c, <2>1, <2>3, <2>5, <3>1, <4>2 DEF OneAnswer, OnItsWay
      <4> QED BY <4>1, <4>2
    <3> QED BY <1>12, <2>3, <2>5, <3>1 DEF AnswersInv, OneAnswer
  <2>6. CASE \E r \in RpcRequests :
               /\ m = Client!Response(r)
               /\ \/ /\ r \in r_bash /\ r_bash' = r_bash \ {r}
                     /\ UNCHANGED <<r_stdin, r_aborting, r_lateFor>>
                  \/ /\ r \in r_aborting /\ r_aborting' = r_aborting \ {r}
                     /\ UNCHANGED <<r_stdin, r_bash, r_lateFor>>
                  \/ /\ r_stdin # <<>> /\ r = Head(r_stdin) /\ r_stdin' = Tail(r_stdin)
                     /\ UNCHANGED <<r_bash, r_aborting, r_lateFor>>
    BY <2>2, <2>3, <2>5, <2>6 DEF OneAnswer, OnItsWay
  <2> QED BY <1>12, <2>4, <2>6
<1>13. CASE Client!RunEnds
  BY <1>12, <1>13, <1>b, <1>c DEF Client!RunEnds, Client!clientVars, RpcTypes
<1>14. ASSUME NEW r \in RpcRequests, Client!BashEnds(r) \/ Client!Aborted(r) PROVE AnswersInv'
  BY <1>12, <1>14, <1>b DEF Client!BashEnds, Client!Aborted, Client!clientVars
<1>15. CASE Client!HandleInputLine
  <2> DEFINE r == Head(r_stdin)
  <2>1. /\ r_alive /\ r_stdin # <<>> /\ r_stdin' = Tail(r_stdin) /\ r \in RpcRequests
        /\ UNCHANGED <<r_process, r_pending, r_alive, r_strays>>
    BY <1>a, <1>15 DEF Client!HandleInputLine, Client!clientVars
  <2>2. /\ In(r_stdin, r) /\ \A x : In(r_stdin', x) => In(r_stdin, x)
        /\ \A x : Once(r_stdin, x) => Once(r_stdin', x) /\ (x = r => ~In(r_stdin', x))
    BY <1>a, <2>1, PipeEnds
  <2>3. \/ r_stdout' = Append(r_stdout, Client!Response(r))
           /\ UNCHANGED <<r_bash, r_aborting, r_lateFor>>
        \/ r_stdout' = r_stdout \o <<Client!Response(r), Client!Response(r)>>
           /\ r_lateFor' = r_lateFor \union {r} /\ UNCHANGED <<r_bash, r_aborting>>
        \/ r_bash' = r_bash \union {r} /\ UNCHANGED <<r_stdout, r_aborting, r_lateFor>>
        \/ r_aborting' = r_aborting \union {r} /\ UNCHANGED <<r_stdout, r_bash, r_lateFor>>
    BY <1>15 DEF Client!HandleInputLine
  <2> HIDE DEF r
  <2>4. CASE r_stdout' = Append(r_stdout, Client!Response(r))
             /\ UNCHANGED <<r_bash, r_aborting, r_lateFor>>
    BY <1>12, <1>b, <2>1, <2>4 DEF r
  <2>5. CASE r_stdout' = r_stdout \o <<Client!Response(r), Client!Response(r)>>
             /\ r_lateFor' = r_lateFor \union {r} /\ UNCHANGED <<r_bash, r_aborting>>
    <3> DEFINE m == Client!Response(r)
    <3>1. m \in Lines /\ Append(r_stdout, m) \in Seq(Lines)
      BY <1>a, <1>b, <2>1
    <3>2. r_stdout' = Append(Append(r_stdout, m), m)
      <4> HIDE DEF m
      <4>1. r_stdout \o <<m, m>> = Append(Append(r_stdout, m), m)
        BY <1>a, <3>1
      <4> QED BY <2>5, <4>1 DEF m
    <3>3. /\ \A x : In(r_stdout', x) <=> In(r_stdout, x) \/ x = m
          /\ \A x : Once(r_stdout, x) /\ x # m => Once(r_stdout', x)
      <4> HIDE DEF m
      <4>1. /\ \A x : In(Append(r_stdout, m), x) <=> In(r_stdout, x) \/ x = m
            /\ \A x : Once(r_stdout, x) /\ x # m => Once(Append(r_stdout, m), x)
        BY <1>a, <3>1, PipeEnds
      <4>2. /\ \A x : In(r_stdout', x) <=> In(Append(r_stdout, m), x) \/ x = m
            /\ \A x : Once(Append(r_stdout, m), x) /\ x # m => Once(r_stdout', x)
        <5> DEFINE q == Append(r_stdout, m)
        <5>1. q \in Seq(Lines) /\ r_stdout' = Append(q, m)
          BY <3>1, <3>2
        <5> HIDE DEF q
        <5>2. /\ \A x : In(Append(q, m), x) <=> In(q, x) \/ x = m
              /\ \A x : Once(q, x) /\ x # m => Once(Append(q, m), x)
          BY <3>1, <5>1, PipeEnds
        <5> QED BY <5>1, <5>2 DEF q
      <4> QED BY <4>1, <4>2
    <3> QED BY <1>c, <2>1, <2>2, <2>5, <3>3 DEF AnswersInv, OneAnswer, OnItsWay
  <2>6. CASE \/ r_bash' = r_bash \union {r} /\ UNCHANGED <<r_stdout, r_aborting, r_lateFor>>
             \/ r_aborting' = r_aborting \union {r} /\ UNCHANGED <<r_stdout, r_bash, r_lateFor>>
    BY <2>1, <2>2, <2>6 DEF AnswersInv, OneAnswer, OnItsWay
  <2> QED BY <2>3, <2>4, <2>5, <2>6
<1> QED
  BY <1>1, <1>4, <1>5, <1>6, <1>7, <1>8, <1>9, <1>10, <1>11, <1>13, <1>14, <1>15 DEF Client!Next

LEMMA RequestsKept ==
  ASSUME RpcNames
  PROVE  ServicesSpec => [](RpcTypes /\ AnswersInv /\ \E rank \in [RpcRequests -> Nat] : InOrderOf(rank))
<1> DEFINE Inv == RpcTypes /\ AnswersInv /\ \E rank \in [RpcRequests -> Nat] : InOrderOf(rank)
<1>1. ServicesInit => Inv
  <2> SUFFICES ASSUME Client!Init PROVE Inv
    BY DEF ServicesInit
  <2>1. RpcTypes /\ AnswersInv
    BY DEF Client!Init, RpcTypes, RpcStates, AnswersInv, Client!StraysExplained
  <2>2. [r \in RpcRequests |-> 0] \in [RpcRequests -> Nat]
    OBVIOUS
  <2>3. \A rank \in [RpcRequests -> Nat] : InOrderOf(rank)
    BY DEF Client!Init, InOrderOf, InChain, SameChain
  <2> QED BY <2>1, <2>2, <2>3
<1>2. [ServicesNext]_servicesVars => [Client!Next]_rpcVars
  BY DEF ServicesNext, servicesVars, firstVars
<1>3. Inv /\ [Client!Next]_rpcVars => Inv'
  <2> SUFFICES ASSUME Inv, [Client!Next]_rpcVars PROVE Inv'
    OBVIOUS
  <2>1. RpcTypes'
    BY RpcTypesStep
  <2>2. AnswersInv'
    BY <2>1, AnswersStep
  <2>3. PICK rank \in [RpcRequests -> Nat] : InOrderOf(rank)
    OBVIOUS
  <2>4. \E next \in [RpcRequests -> Nat] : InOrderOf(next)'
    BY <2>1, <2>3, SendChainStep
  <2> QED BY <2>1, <2>2, <2>4
<1> QED BY <1>1, <1>2, <1>3, PTL DEF ServicesSpec

\* Whatever the requests, their kinds and the deaths of the agent: the requests of a chain are
\* pending one at a time, and no answer is taken for an event without a reason
\* (AnswersMatched of the services).
THEOREM MatchTheorem == ASSUME RpcNames PROVE ServicesSpec => []AnswersMatched
<1> DEFINE Inv == RpcTypes /\ AnswersInv /\ \E rank \in [RpcRequests -> Nat] : InOrderOf(rank)
<1>1. Inv => AnswersMatched
  <2> SUFFICES ASSUME RpcTypes, AnswersInv, NEW rank \in [RpcRequests -> Nat], InOrderOf(rank)
               PROVE  AnswersMatched
    OBVIOUS
  <2>1. ASSUME NEW r \in r_pending, NEW s \in r_pending, r_chainHead[r] = r_chainHead[s]
        PROVE  r = s
    <3>1. /\ SameChain(r, s) /\ SameChain(s, r) /\ Begun(r) /\ Begun(s)
          /\ ~Client!Settled(r) /\ ~Client!Settled(s) /\ r \in RpcRequests /\ s \in RpcRequests
      BY <2>1 DEF RpcTypes, SameChain, InChain, Begun, Client!Settled
    <3>2. ~(rank[r] < rank[s]) /\ ~(rank[s] < rank[r]) /\ (rank[r] = rank[s] => r = s)
      BY <3>1 DEF InOrderOf
    <3> QED BY <3>1, <3>2
  <2> QED BY <2>1 DEF AnswersInv, AnswersMatched, Client!SingleFlight
<1> QED BY <1>1, RequestsKept, PTL

----------------------------------------------------------------------------
(* Shell commands *)

\* What Total computes.
IsSum(g, t) == g = [n \in 0 .. Len(t) |-> IF n = 0 THEN 0 ELSE g[n - 1] + t[n]]
SumOf(t) == CHOOSE g : IsSum(g, t)

\* The sums up to an index, when there are such.
Sums(g, t, n) == g \in [0 .. n -> Int] /\ g[0] = 0 /\ \A i \in 1 .. n : g[i] = g[i - 1] + t[i]

LEMMA SumsExist == ASSUME NEW t \in Seq(Int) PROVE \E g : Sums(g, t, Len(t))
<1> DEFINE T == {n \in Nat : n <= Len(t) => \E g : Sums(g, t, n)}
<1>0. Len(t) \in Nat /\ \A i \in 1 .. Len(t) : t[i] \in Int
  OBVIOUS
<1>1. 0 \in T
  <2>1. Sums([i \in 0 .. 0 |-> 0], t, 0)
    BY DEF Sums
  <2> QED BY <2>1
<1>2. ASSUME NEW n \in Nat, n \in T PROVE n + 1 \in T
  <2> SUFFICES ASSUME n + 1 <= Len(t) PROVE \E g : Sums(g, t, n + 1)
    OBVIOUS
  <2>1. PICK g : Sums(g, t, n)
    BY <1>0, <1>2
  <2> DEFINE h == [i \in 0 .. n + 1 |-> IF i <= n THEN g[i] ELSE g[i - 1] + t[i]]
  <2>2. t[n + 1] \in Int /\ g[n] \in Int
    BY <1>0, <2>1 DEF Sums
  <2>3. Sums(h, t, n + 1)
    BY <2>1, <2>2 DEF Sums
  <2> QED BY <2>3
<1>3. Len(t) \in T
  <2> HIDE DEF T
  <2> QED BY <1>0, <1>1, <1>2, Induct
<1> QED BY <1>0, <1>3

LEMMA TotalIsInt == ASSUME NEW t \in Seq(Int) PROVE Bash!Total(t) \in Int
<1>0. Len(t) \in Nat
  OBVIOUS
<1>1. PICK g : Sums(g, t, Len(t))
  BY SumsExist
<1>2. IsSum(g, t)
  <2> DEFINE r == [n \in 0 .. Len(t) |-> IF n = 0 THEN 0 ELSE g[n - 1] + t[n]]
  <2>1. \A n \in 0 .. Len(t) : n = 0 \/ n \in 1 .. Len(t)
    BY <1>0
  <2>2. \A n \in 0 .. Len(t) : r[n] = g[n]
    BY <1>1, <2>1, Zenon DEF Sums
  <2>3. r = [n \in 0 .. Len(t) |-> r[n]] /\ g = [n \in 0 .. Len(t) |-> g[n]]
    BY <1>1 DEF Sums
  <2> HIDE DEF r
  <2>4. r = g
    BY <2>2, <2>3
  <2> QED BY <2>4 DEF r, IsSum
<1> DEFINE f == SumOf(t)
<1>3. IsSum(f, t)
  BY <1>2 DEF SumOf
<1> HIDE DEF f
<1>4. /\ f[0] = 0
      /\ \A n \in 1 .. Len(t) : f[n] = f[n - 1] + t[n]
  BY <1>0, <1>3 DEF IsSum
<1> DEFINE D == {n \in Nat : n <= Len(t) => f[n] \in Int}
<1>5. 0 \in D
  BY <1>4
<1>6. ASSUME NEW n \in Nat, n \in D PROVE n + 1 \in D
  <2> SUFFICES ASSUME n + 1 <= Len(t) PROVE f[n + 1] \in Int
    OBVIOUS
  <2>1. f[n] \in Int /\ n + 1 \in 1 .. Len(t) /\ t[n + 1] \in Int /\ (n + 1) - 1 = n
    BY <1>0, <1>6
  <2>2. f[n + 1] = f[n] + t[n + 1]
    BY <1>4, <2>1
  <2> QED BY <2>1, <2>2
<1>7. Len(t) \in D
  <2> HIDE DEF D
  <2> QED BY <1>0, <1>5, <1>6, Induct
<1>8. f[Len(t)] \in Int
  BY <1>0, <1>7
<1> QED BY <1>8 DEF f, SumOf, IsSum, Bash!Total
SizesOK == OutputSizes \subseteq Nat /\ ByteLimit \in Nat /\ LineLimit \in Nat

\* The first piece of the buffer is one that has arrived or the next, and the file begins
\* with the first piece of all as soon as the buffer or the answer holds less.
OutputInv ==
  /\ b_pieces \in Seq(Bash!Pieces)
  /\ b_first \in 1 .. Len(b_pieces) + 1
  /\ b_file \in {0, 1}
  /\ b_first > 1 => b_file = 1
  /\ b_cut => b_file = 1

\* The group is killed for a reason, at once, and nothing joins it afterwards.
ProcessInv ==
  /\ b_child \in {"none", "running", "exited"}
  /\ b_child = "none" => ~b_killed /\ ~b_timedOut
  /\ b_aborted /\ b_child # "none" /\ b_outcome = "none" => b_killed
  /\ b_timedOut => b_killed
  /\ b_killed => (b_aborted \/ b_timedOut) /\ b_descendants # "group"
  /\ b_outcome # "none" => b_child # "running"
  /\ b_outcome \in {"aborted", "timeout"} /\ b_child = "exited" => b_killed
  /\ b_outcome \in {"ok", "failed"} => ~b_killed

\* What is left in the buffer begins where it began or later, and later only when it held
\* more than its limit.
LEMMA TrimmedFrom ==
  ASSUME SizesOK, NEW s \in Seq(Bash!Pieces), s # <<>>, NEW from \in 1 .. Len(s)
  PROVE  /\ Bash!Trimmed(from, s) \in from .. Len(s)
         /\ Bash!Trimmed(from, s) > from => Bash!Bytes(from, s) > ByteLimit
<1> DEFINE T == {i \in from .. Len(s) : i = Len(s) \/ Bash!Bytes(i, s) <= 2 * ByteLimit}
           t == [i \in 1 .. Len(s) |-> IF i < from THEN 0 ELSE s[i].bytes]
<1>1. Len(s) \in Nat /\ T \subseteq from .. Len(s) /\ Len(s) \in T
  OBVIOUS
<1>2. Bash!Trimmed(from, s) \in T /\ \A i \in T : Bash!Trimmed(from, s) <= i
  <2>1. \E x \in T : \A y \in T : x <= y
    <3> SUFFICES ASSUME ~ \E x \in T : \A y \in T : x <= y PROVE FALSE
      OBVIOUS
    <3> DEFINE E == {n \in Nat : \A x \in T : x > from + n}
    <3>1. 0 \in E
      BY <1>1
    <3>2. ASSUME NEW n \in Nat, n \in E PROVE n + 1 \in E
      BY <1>1, <3>2
    <3>3. Len(s) \in E
      <4> HIDE DEF E
      <4> QED BY <1>1, <3>1, <3>2, Induct
    <3> QED BY <1>1, <3>3
  <2> QED BY <2>1 DEF Bash!Trimmed, Bash!Min, Min
<1>3. Bash!Bytes(from, s) \in Int
  <2>1. \A i \in 1 .. Len(s) : s[i].bytes \in Int
    <3> SUFFICES ASSUME NEW i \in 1 .. Len(s) PROVE s[i].bytes \in Int
      OBVIOUS
    <3>1. s[i] \in Bash!Pieces
      OBVIOUS
    <3>2. s[i].bytes \in OutputSizes
      BY <3>1 DEF Bash!Pieces
    <3>3. \A b \in OutputSizes : b \in Int
      BY DEF SizesOK
    <3> QED BY <3>2, <3>3, Zenon
  <2>2. t \in Seq(Int)
    BY <1>1, <2>1
  <2> QED BY <2>2, TotalIsInt DEF Bash!Bytes
<1>4. ASSUME Bash!Trimmed(from, s) > from PROVE Bash!Bytes(from, s) > ByteLimit
  <2>1. from \notin T
    BY <1>1, <1>2, <1>4
  <2> QED BY <1>1, <1>3, <2>1 DEF SizesOK
<1> QED BY <1>1, <1>2, <1>4

LEMMA ReceiveStep ==
  ASSUME SizesOK, OutputInv, NEW piece \in Bash!Pieces, Bash!Receive(piece), b_cut' = b_cut
  PROVE  OutputInv'
<1> DEFINE s == Append(b_pieces, piece)
           from == Bash!Trimmed(b_first, s)
           early == IF Bash!Bytes(1, s) > ByteLimit THEN Bash!Ensured(b_first) ELSE b_file
<1>1. /\ s \in Seq(Bash!Pieces) /\ Len(s) = Len(b_pieces) + 1 /\ s # <<>>
      /\ b_first \in 1 .. Len(s) /\ Len(s) \in Nat
  BY DEF OutputInv
<1>2. from \in b_first .. Len(s) /\ (from > b_first => Bash!Bytes(b_first, s) > ByteLimit)
  <2> HIDE DEF s
  <2> QED BY <1>1, TrimmedFrom
<1>3. /\ b_pieces' = s /\ b_first' = from
      /\ b_file' = IF early = 0 /\ b_updates /\ Bash!Truncated(from, s) THEN from ELSE early
  BY DEF Bash!Receive
<1> HIDE DEF s, from
<1>4. early \in {0, 1} /\ (b_file = 1 => early = 1)
  BY <1>1 DEF OutputInv, Bash!Ensured
<1>5. from > 1 => early = 1
  BY <1>1, <1>2, <1>4 DEF OutputInv, Bash!Ensured
<1> HIDE DEF early
<1>6. b_first' \in 1 .. Len(s) + 1 /\ b_file' \in {0, 1} /\ (b_first' > 1 => b_file' = 1)
  BY <1>1, <1>2, <1>3, <1>4, <1>5
<1>7. b_cut => b_file' = 1
  BY <1>3, <1>4 DEF OutputInv
<1> QED BY <1>1, <1>3, <1>6, <1>7 DEF OutputInv

LEMMA AnswerOutput == ASSUME OutputInv, NEW r, Bash!Answer(r) PROVE OutputInv'
<1>1. b_first \in Nat /\ (b_first = 1 \/ b_file = 1) /\ b_file \in {0, 1}
  BY DEF OutputInv
<1>2. b_pieces' = b_pieces /\ b_first' = b_first /\ b_file' \in {0, 1}
  BY <1>1 DEF Bash!Answer, Bash!Ensured
<1>3. \E now \in BOOLEAN : b_cut' = now /\ b_file' = IF now THEN Bash!Ensured(b_first) ELSE b_file
  BY DEF Bash!Answer
<1>4. (b_file = 1 => b_file' = 1) /\ (b_cut' => b_file' = 1)
  BY <1>1, <1>3 DEF Bash!Ensured
<1> QED BY <1>2, <1>4 DEF OutputInv

LEMMA OutputStep == ASSUME SizesOK PROVE OutputInv /\ [Bash!Next]_bashVars => OutputInv'
<1> SUFFICES ASSUME OutputInv, [Bash!Next]_bashVars PROVE OutputInv'
  OBVIOUS
<1>1. CASE UNCHANGED <<Bash!outputVars, Bash!answerVars>>
  BY <1>1 DEF OutputInv, Bash!outputVars, Bash!answerVars
<1>2. ASSUME NEW piece \in Bash!Pieces, Bash!Data(piece) PROVE OutputInv'
  BY <1>2, ReceiveStep DEF Bash!Data, Bash!answerVars
<1>3. ASSUME NEW r, Bash!Answer(r) PROVE OutputInv'
  BY <1>3, AnswerOutput
<1>4. ASSUME NEW c, Bash!Finalize(c) PROVE OutputInv'
  BY <1>3, <1>4 DEF Bash!Finalize
<1>5. ASSUME NEW c \in {0, 1}, Bash!Exit(c) PROVE OutputInv'
  BY <1>1, <1>4, <1>5 DEF Bash!Exit
<1>6. CASE Bash!PipesEnd
  BY <1>1, <1>4, <1>6 DEF Bash!PipesEnd
<1>7. CASE Bash!GraceEnds
  BY <1>4, <1>7 DEF Bash!GraceEnds
<1>8. CASE Bash!SpawnFails
  BY <1>3, <1>8 DEF Bash!SpawnFails
<1>9. CASE Bash!Spawn \/ Bash!Abort \/ Bash!TimeoutFires \/ Bash!DescendantEnds
  BY <1>1, <1>9 DEF Bash!Spawn, Bash!Abort, Bash!TimeoutFires, Bash!DescendantEnds
<1>10. ASSUME NEW kind, Bash!LeaveBehind(kind) PROVE OutputInv'
  BY <1>1, <1>10 DEF Bash!LeaveBehind
<1>11. CASE UNCHANGED bashVars
  BY <1>1, <1>11 DEF bashVars, Bash!outputVars, Bash!answerVars
<1> QED BY <1>2, <1>5, <1>6, <1>7, <1>8, <1>9, <1>10, <1>11 DEF Bash!Next

LEMMA FinalizeProcess ==
  ASSUME ProcessInv, NEW c, Bash!Finalize(c), b_child # "none", b_child' = "exited",
         b_outcome = "none",
         UNCHANGED <<b_killed, b_descendants, b_timedOut, b_aborted>>
  PROVE  ProcessInv'
BY DEF ProcessInv, Bash!Finalize, Bash!Answer

LEMMA ProcessStep == ProcessInv /\ [Bash!Next]_bashVars => ProcessInv'
<1> SUFFICES ASSUME ProcessInv, [Bash!Next]_bashVars PROVE ProcessInv'
  OBVIOUS
<1> USE DEF Bash!callVars, Bash!processVars, Bash!outputVars, Bash!answerVars, Bash!Started
<1>1. ASSUME NEW piece, Bash!Data(piece) PROVE ProcessInv'
  BY <1>1 DEF Bash!Data, ProcessInv
<1>2. CASE Bash!Spawn
  BY <1>2 DEF Bash!Spawn, Bash!Kill, ProcessInv
<1>3. CASE Bash!SpawnFails
  BY <1>3 DEF Bash!SpawnFails, Bash!Answer, ProcessInv
<1>4. CASE Bash!Abort
  BY <1>4 DEF Bash!Abort, Bash!Kill, ProcessInv
<1>5. CASE Bash!TimeoutFires
  BY <1>5 DEF Bash!TimeoutFires, Bash!Kill, ProcessInv
<1>6. ASSUME NEW kind, Bash!LeaveBehind(kind) PROVE ProcessInv'
  BY <1>6 DEF Bash!LeaveBehind, ProcessInv
<1>7. CASE Bash!DescendantEnds
  BY <1>7 DEF Bash!DescendantEnds, ProcessInv
<1>8. ASSUME NEW c, Bash!Exit(c) PROVE ProcessInv'
  <2>1. CASE b_open
    BY <1>8, <2>1 DEF Bash!Exit, ProcessInv
  <2>2. CASE ~b_open
    BY <1>8, <2>2, FinalizeProcess DEF Bash!Exit
  <2> QED BY <2>1, <2>2
<1>9. CASE Bash!PipesEnd
  <2>1. CASE b_child = "exited"
    BY <1>9, <2>1, FinalizeProcess DEF Bash!PipesEnd
  <2>2. CASE b_child # "exited"
    BY <1>9, <2>2 DEF Bash!PipesEnd, ProcessInv
  <2> QED BY <2>1, <2>2
<1>10. CASE Bash!GraceEnds
  BY <1>10, FinalizeProcess DEF Bash!GraceEnds
<1>11. CASE UNCHANGED bashVars
  BY <1>11 DEF bashVars, ProcessInv
<1> QED BY <1>1, <1>2, <1>3, <1>4, <1>5, <1>6, <1>7, <1>8, <1>9, <1>10, <1>11 DEF Bash!Next

LEMMA CommandKept ==
  ASSUME SizesOK
  PROVE  ServicesSpec => [](OutputInv /\ ProcessInv)
<1>1. ServicesInit => OutputInv /\ ProcessInv
  <2> SUFFICES ASSUME Bash!Init PROVE OutputInv /\ ProcessInv
    BY DEF ServicesInit
  <2>1. \A S : <<>> \in Seq(S)
    OBVIOUS
  <2>2. OutputInv
    BY <2>1 DEF Bash!Init, OutputInv
  <2>3. ProcessInv
    BY DEF Bash!Init, ProcessInv
  <2> QED BY <2>2, <2>3
<1>2. [ServicesNext]_servicesVars => [Bash!Next]_bashVars
  BY DEF ServicesNext, servicesVars, thirdVars
<1> QED BY <1>1, <1>2, OutputStep, ProcessStep, PTL DEF ServicesSpec

\* The temporary file of a command holds all its output whenever something else does not,
\* and its answer is given when the shell is gone, killed with its group exactly when it was
\* stopped (CommandReported), for any pieces of output and any limits.
THEOREM CommandTheorem == ASSUME SizesOK PROVE ServicesSpec => []CommandReported
<1>1. OutputInv /\ ProcessInv => CommandReported
  BY DEF OutputInv, ProcessInv, CommandReported, Bash!CommandReported, Bash!FullOutputSaved,
         Bash!AnswerIsHonest
<1> QED BY <1>1, CommandKept, PTL

----------------------------------------------------------------------------
(* The components of HostServices, and compaction *)

LEMMA RuntimeKept ==
  ASSUME RuntimeAssumption
  PROVE  ServicesSpec => [](RuntimeTypes /\ CurrentInv /\ AloneCommandInv)
<1> DEFINE Inv == RuntimeTypes /\ CurrentInv /\ AloneCommandInv
<1>1. ServicesInit => Inv
  <2> SUFFICES ASSUME Runtime!Init PROVE Inv
    BY DEF ServicesInit
  <2>0. /\ 1 \in Runtime!Sessions /\ 1 \in 1 .. ReplacedSessions /\ "new" \in Runtime!Kinds
        /\ 0 \in 0 .. ReplacedSessions /\ "none" \in Stages
    BY DEF RuntimeAssumption, Runtime!Sessions, Runtime!Kinds, Stages
  <2>1. \A c \in Replacements :
          n_job[c] = [stage |-> "none", kind |-> "new", target |-> 0, last |-> 0, next |-> 0]
    BY DEF Runtime!Init, Runtime!Job, Runtime!Nobody
  <2>2. JobsTyped
    BY <2>0, <2>1 DEF Runtime!Init, Runtime!Job, Runtime!Nobody, JobsTyped, JobRecords, Made
  <2>3. NamesTyped
    <3>1. 1 \in 1 .. 1 /\ 1 \in 0 .. 1 /\ {1} \subseteq 1 .. 1
      OBVIOUS
    <3>2. n_current = 1 /\ n_created = 1 /\ n_session = 1 /\ n_heard = 1 /\ n_connected = {1} /\ n_torn = {}
      BY DEF Runtime!Init
    <3>3. n_process \in {"up", "closing", "gone"} /\ n_overlapped \in BOOLEAN
      BY DEF Runtime!Init
    <3> QED BY <2>0, <3>1, <3>2, <3>3 DEF NamesTyped
  <2>4. CountsTyped
    BY DEF Runtime!Init, CountsTyped
  <2>5. CurrentInv
    BY <2>1 DEF Runtime!Init, CurrentInv
  <2>6. Runtime!Busy = {}
    BY <2>1 DEF Runtime!Busy, Runtime!UnderWay
  <2>7. Rest
    BY <2>0 DEF Runtime!Init, Rest, Connects, Told, Shows, Runtime!Sessions
  <2>8. AloneCommandInv
    BY <2>6, <2>7 DEF Runtime!Init, AloneCommandInv, Runtime!Sessions
  <2> QED BY <2>2, <2>3, <2>4, <2>5, <2>8 DEF RuntimeTypes
<1>2. [ServicesNext]_servicesVars => [Runtime!Next]_runtimeVars
  BY DEF ServicesNext, servicesVars, thirdVars
<1> QED BY <1>1, <1>2, RuntimeTypesStep, CurrentStep, AloneCommandStep, PTL DEF ServicesSpec

\* However replacements of the session overlap, when they are over everything is on the
\* current session, and one at a time leave no other behind (ReplacementsSettle), for any
\* commands, sessions and failures.
THEOREM ReplacementTheorem ==
  ASSUME RuntimeAssumption PROVE ServicesSpec => []ReplacementsSettle
<1> DEFINE Inv == RuntimeTypes /\ CurrentInv /\ AloneCommandInv
<1>1. Inv => ReplacementsSettle
  <2> SUFFICES ASSUME Inv PROVE Runtime!ReplacementsSettle
    BY DEF ReplacementsSettle
  <2>1. Runtime!Busy = {} => \A c \in Replacements : n_job[c].stage \notin Runtime!UnderWay
    BY DEF Runtime!Busy
  <2>2. Runtime!SettledOnCurrent
    BY <2>1 DEF CurrentInv, Disposing, Installing, Runtime!SettledOnCurrent, Runtime!UnderWay
  <2>3. Runtime!OneSessionAtATime
    <3> SUFFICES ASSUME ~n_overlapped, n_process = "up", Runtime!Busy = {} PROVE Rest
      BY DEF Runtime!OneSessionAtATime, Rest, Connects, Told, Shows
    <3> QED BY DEF AloneCommandInv, Ending
  <2>4. Runtime!EndsClean
    BY DEF AloneCommandInv, Ending, Runtime!EndsClean
  <2> QED BY <2>2, <2>3, <2>4 DEF Runtime!ReplacementsSettle
<1> QED BY <1>1, RuntimeKept, PTL

LEMMA WatchKept ==
  ASSUME EventVersions \in Nat
  PROVE  ServicesSpec => [](WatchTypes /\ WatchInv)
<1>1. ServicesInit => WatchTypes /\ WatchInv
  <2> SUFFICES ASSUME Watcher!Init PROVE WatchTypes /\ WatchInv
    BY DEF ServicesInit
  <2>1. WatchTypes
    <3>1. e_executions \in [1 .. EventVersions -> Nat]
      BY DEF Watcher!Init
    <3>2. e_handlers = [h \in EventHandlers |-> e_handlers[h]]
      BY DEF Watcher!Init, Watcher!NoHandlers
    <3>3. e_versions \in 0 .. EventVersions /\ e_starts \in Nat \ {0}
      BY DEF Watcher!Init
    <3> QED BY <3>1, <3>2, <3>3 DEF Watcher!Init, WatchTypes
  <2>2. \A h \in EventHandlers : ~Watcher!Busy(h)
    BY DEF Watcher!Init, Watcher!NoHandlers, Watcher!Busy
  <2>3. WatchInv
    BY <2>2 DEF Watcher!Init, WatchInv
  <2> QED BY <2>1, <2>3
<1>2. [ServicesNext]_servicesVars => [Watcher!Next]_eventVars
  BY DEF ServicesNext, servicesVars, secondVars
<1> QED BY <1>1, <1>2, WatchStep, PTL DEF ServicesSpec

\* An event file is executed at most once, whatever writes, retries, crashes and restarts
\* come between, and what will execute is what the maps can cancel and the file says
\* (ExecutedOnce), for any number of versions, handlers and starts.
THEOREM ExecutionTheorem == ASSUME EventVersions \in Nat PROVE ServicesSpec => []ExecutedOnce
<1>1. WatchTypes /\ WatchInv => ExecutedOnce
  BY DEF WatchTypes, WatchInv, ExecutedOnce, Watcher!ExecutedOnce
<1> QED BY <1>1, WatchKept, PTL

LEMMA WebhookKept ==
  ASSUME WebhookAssumption
  PROVE  ServicesSpec => [](WebTypes /\ QueueInv /\ MessageInv /\ ServerInv)
<1> DEFINE Inv == WebTypes /\ QueueInv /\ MessageInv /\ ServerInv
<1>1. ServicesInit => Inv
  <2> SUFFICES ASSUME Webhook!Init PROVE Inv
    BY DEF ServicesInit
  <2>1. WebTypes
    <3>1. /\ \A S : <<>> \in Seq(S)
          /\ Len(<<>>) = 0 /\ 0 <= WebhookQueue /\ 0 \in 0 .. 0 /\ 0 \in 0 .. WebhookPorts
      BY DEF WebhookAssumption
    <3>2. /\ w_queue \in Seq(WebhookEvents) /\ Len(w_queue) <= WebhookQueue
          /\ w_waiters \in Seq(WebhookWaits) /\ w_cancelled \subseteq WebhookWaits
          /\ w_server \in 0 .. Len(w_servers) /\ w_servers \in Seq(WebServers)
          /\ w_forced \in 0 .. WebhookPorts /\ w_session \in {"none", "up", "down"}
      BY <3>1 DEF Webhook!Init
    <3>3. /\ w_waited \in [WebhookWaits -> WebhookEvents \union {"none", "waiting", "nothing"}]
          /\ w_mode \in [WebhookEvents -> {"queue", "trigger"}]
          /\ w_request \in [WebhookEvents -> WebRequests]
      BY DEF Webhook!Init, WebRequests
    <3>4. /\ w_followUp \subseteq WebhookEvents /\ w_crowded \subseteq WebhookEvents
          /\ w_dropped \subseteq WebhookEvents
          /\ w_streaming \in BOOLEAN /\ w_rushed \in BOOLEAN
          /\ w_accepted \in Seq(WebhookEvents) /\ w_handed \in Seq(WebhookEvents)
      BY <3>1 DEF Webhook!Init
    <3> QED BY <3>2, <3>3, <3>4 DEF WebTypes
  <2>2. QueueInv
    <3>1. Len(<<>>) = 0 /\ <<>> \o <<>> = <<>> /\ \A S : <<>> \in Seq(S)
      OBVIOUS
    <3> DEFINE empty == <<>>
    <3> HIDE DEF empty
    <3>2. empty \in Seq({}) /\ \A i \in 1 .. Len(empty) : FALSE
      BY <3>1 DEF empty
    <3>3. \A x : x \notin Webhook!ToSet(empty)
      BY <3>2, SequencePlaces
    <3>5. \A d, e : ~Webhook!Before(empty, d, e)
      BY <3>2, SequencePlaces
    <3>4. OrderOf(WebhookEvents, empty, empty, {}) /\ \A x : x \notin Webhook!ToSet(empty)
      BY <3>3, <3>5 DEF OrderOf
    <3>6. w_handed \o w_queue = empty /\ w_accepted = empty /\ w_dropped = {}
      BY <3>1 DEF Webhook!Init, empty
    <3>7. w_waiters = <<>> /\ \A w \in WebhookWaits : w_waited[w] # "waiting"
      BY DEF Webhook!Init
    <3> QED BY <3>1, <3>4, <3>6, <3>7 DEF QueueInv
  <2>3. MessageInv /\ ServerInv
    BY DEF Webhook!Init, MessageInv, ServerInv
  <2> QED BY <2>1, <2>2, <2>3
<1>2. [ServicesNext]_servicesVars => [Webhook!Next]_webhookVars
  BY DEF ServicesNext, servicesVars, fourthVars
<1>3. Inv /\ [Webhook!Next]_webhookVars => Inv'
  BY WebTypesStep, QueueStep, MessageStep, ServerStep
<1> QED BY <1>1, <1>2, <1>3, PTL DEF ServicesSpec

\* The webhook receiver's queue hands over each event once and in order, a message that finds
\* the agent busy is sent as a follow-up, and the server that is open is the one that is
\* known (EventsDelivered), for any events, waits, ports and queue.
THEOREM EventsTheorem == ASSUME WebhookAssumption PROVE ServicesSpec => []EventsDelivered
<1> DEFINE Inv == WebTypes /\ QueueInv /\ MessageInv /\ ServerInv
<1>1. Inv => EventsDelivered
  <2> SUFFICES ASSUME Inv PROVE Webhook!EventsDelivered
    BY DEF EventsDelivered
  <2>1. Webhook!HandedInOrder
    BY DEF QueueInv, OrderOf, Webhook!HandedInOrder
  <2>2. Webhook!BusyAgentIsFollowed
    BY DEF MessageInv, Webhook!BusyAgentIsFollowed
  <2>3. Webhook!ServerKnown
    <3>1. DOMAIN w_servers = 1 .. Len(w_servers)
      BY DEF WebTypes
    <3> QED BY <3>1 DEF ServerInv, Webhook!ServerKnown, Webhook!Binding
  <2> QED BY <2>1, <2>2, <2>3 DEF Webhook!EventsDelivered
<1> QED BY <1>1, WebhookKept, PTL

LEMMA MomKept ==
  ASSUME MomAssumption
  PROVE  ServicesSpec => [](MomTypes /\ ChannelInv /\ ContextInv)
<1> DEFINE Inv == MomTypes /\ ChannelInv /\ ContextInv
<1>1. ServicesInit => Inv
  <2> SUFFICES ASSUME Channel!Init PROVE Inv
    BY DEF ServicesInit
  <2>1. MomTypes
    <3>1. (\A S : <<>> \in Seq(S)) /\ IsFiniteSet({})
      BY FS_EmptySet
    <3> QED BY <3>1 DEF Channel!Init, MomTypes
  <2>2. /\ m_queue = <<>> /\ m_log = <<>> /\ m_context = <<>>
        /\ ~m_running /\ ~m_processing /\ m_stage = "idle"
    BY DEF Channel!Init
  <2>3. /\ \A i \in 1 .. Len(m_queue) : FALSE
        /\ \A i \in 1 .. Len(m_log) : FALSE
        /\ \A i \in 1 .. Len(m_context) : FALSE
    BY <2>2
  <2>4. m_running \in BOOLEAN /\ m_processing \in BOOLEAN
    BY <2>1 DEF MomTypes
  <2>5. ChannelInv
    BY <2>2, <2>3, <2>4 DEF ChannelInv
  <2>6. Owned(m_context, m_arrived, Prompted)
    <3>1. [i \in 1 .. Len(m_context) |-> None] \in [1 .. Len(m_context) -> m_arrived]
      BY <2>3
    <3> QED BY <2>3, <3>1 DEF Owned
  <2> QED BY <2>1, <2>2, <2>5, <2>6 DEF ContextInv
<1>2. [ServicesNext]_servicesVars => [Channel!Next]_momVars
  BY DEF ServicesNext, servicesVars, secondVars
<1>3. MomAssumption /\ Inv /\ [Channel!Next]_momVars => Inv'
  BY MomTypesStep, ChannelStep, ContextStep
<1> QED BY <1>1, <1>2, <1>3, PTL DEF ServicesSpec

\* The flag that main.ts reads says whether the queue of the channel works; when the agent
\* runs, its context has the text of every message that was logged before the
\* synchronisation, and none more often than it was written: whatever is mentioned, only
\* written, stopped or scheduled, in whatever order (syncLogToSessionManager, processNext).
THEOREM ChannelTheorem ==
  ASSUME MomAssumption PROVE ServicesSpec => []ChannelInStep
<1> DEFINE Inv == MomTypes /\ ChannelInv /\ ContextInv
<1>1. Inv => ChannelInStep
  <2> SUFFICES ASSUME Inv PROVE Channel!BusyWhenWorking /\ Channel!ContextMatchesLog
    BY DEF ChannelInStep
  <2>1. Channel!BusyWhenWorking
    BY DEF ChannelInv, Channel!BusyWhenWorking
  <2>2. \A m \in MomMessages :
          Channel!Times(Channel!Text(m)) <=
            Cardinality({n \in m_arrived : Channel!Text(n) = Channel!Text(m)})
    BY TimesBound DEF ContextInv
  <2>3. m_stage = "prompting" => \A m \in m_synced : Channel!Text(m) \in Channel!ToSet(m_context)
    BY DEF ContextInv
  <2>4. Channel!ContextMatchesLog
    BY <2>2, <2>3, SameCount DEF Channel!ContextMatchesLog, MomMessages
  <2> QED BY <2>1, <2>4
<1> QED BY <1>1, MomKept, PTL

LEMMA WaitKept ==
  ASSUME PendingAssumption
  PROVE  ServicesSpec => [](PendingTypes /\ SpotInv /\ ShownInv)
<1> DEFINE Inv == PendingTypes /\ SpotInv /\ ShownInv
<1>1. ServicesInit => Inv
  <2> SUFFICES ASSUME Waiting!PendingInit PROVE Inv
    BY DEF ServicesInit
  <2>1. /\ p_queued = [ch \in {"steer", "followUp"} |-> <<>>] /\ p_lists = p_queued
        /\ p_nextTurn = <<>> /\ p_announcing = <<>> /\ p_announced = <<>> /\ p_events = <<>>
        /\ p_taken = [u \in Typed |-> <<>>] /\ p_prompts = [u \in Typed |-> "none"]
        /\ p_restored = <<>> /\ p_running = FALSE /\ p_mistaken = FALSE /\ p_faults = 0
        /\ p_sent = {} /\ p_shown = {} /\ p_cleared = {} /\ p_dropped = {} /\ p_refused = {}
        /\ p_unheard = {} /\ p_text \in [Typed -> {"a", "b", ""}]
        /\ p_mode \in {"one-at-a-time", "all"} /\ p_connection = "on"
    BY DEF Waiting!PendingInit, Waiting!Channels
  <2>2. PendingTypes
    <3>1. \A S : <<>> \in Seq(S)
      BY NoneIn
    <3>2. /\ p_queued \in [{"steer", "followUp"} -> Seq(PendingWork)]
          /\ p_lists \in [{"steer", "followUp"} -> Seq(PendingTexts)]
          /\ p_taken \in [Typed -> Seq(PendingWork)]
      BY <2>1, <3>1
    <3>3. 0 \in 0 .. RunFaults
      BY DEF PendingAssumption
    <3> QED BY <2>1, <3>1, <3>2, <3>3 DEF PendingTypes, PendingTexts
  <2>3. SetIn(<<>>) = {} /\ OnceIn(<<>>)
    BY NoneIn
  <2>4. Waiting!InQueues = {} /\ QueuesOnce
    <3>1. p_queued["steer"] = <<>> /\ p_queued["followUp"] = <<>>
      BY <2>1
    <3> QED BY <2>3, <3>1, QueuesHold DEF QueuesAre, QueuesOnce
  <2>5. Apart(Spots, p_sent)
    <3>1. Taking = {}
      BY <2>1, <2>3 DEF Taking
    <3>2. Asking = {}
      BY <2>1 DEF Asking
    <3>3. \A i \in 1 .. 9 : Spots[i] = {}
      BY <2>1, <2>3, <2>4, <3>1, <3>2, SpotsAre, NineAre DEF Nine
    <3> QED BY <2>1, <3>3 DEF Apart
  <2>6. PendingOnce
    <3>1. \A u \in Typed : p_taken[u] = <<>> /\ p_prompts[u] = "none"
      BY <2>1
    <3> QED BY <2>1, <2>3, <2>4, <3>1 DEF PendingOnce
  <2>7. ShownInv
    <3> SUFFICES ASSUME NEW t \in PendingTexts
                 PROVE  /\ ListedIs(p_lists, t) = Cardinality(WithText(p_text, p_shown, t))
                        /\ Cardinality(WithText(p_text, p_cleared \cap Typed, t)) <=
                             Waiting!Count(p_restored, t)
      BY <2>1, <2>4 DEF ShownInv
    <3>1. WithText(p_text, p_shown, t) = {} /\ WithText(p_text, p_cleared \cap Typed, t) = {}
      BY <2>1 DEF WithText
    <3>2. Cardinality({}) = 0
      BY FS_EmptySet
    <3>3. PICK empty \in Seq(PendingTexts) : empty = <<>> /\ \A i \in 1 .. Len(empty) : FALSE
      <4>1. <<>> \in Seq(PendingTexts) /\ \A i \in 1 .. Len(<<>>) : FALSE
        OBVIOUS
      <4> QED BY <4>1, Zenon
    <3>4. Waiting!Count(empty, t) = 0
      BY <3>3, CountType
    <3>5. p_lists["steer"] = empty /\ p_lists["followUp"] = empty /\ p_restored = empty
      BY <2>1, <3>3
    <3>6. ListedIs(p_lists, t) = 0 /\ Waiting!Count(p_restored, t) = 0
      BY <3>4, <3>5 DEF ListedIs
    <3>7. Cardinality(WithText(p_text, p_shown, t)) = 0
      BY <3>1, <3>2, Zenon
    <3>8. Cardinality(WithText(p_text, p_cleared \cap Typed, t)) = 0
      BY <3>1, <3>2, Zenon
    <3> QED BY <3>6, <3>7, <3>8
  <2> QED BY <2>2, <2>5, <2>6, <2>7 DEF SpotInv
<1>2. [ServicesNext]_servicesVars => [Waiting!PendingNext]_pendingMessageVars
  BY DEF ServicesNext, servicesVars, fourthVars
<1>3. PendingAssumption /\ Inv /\ [Waiting!PendingNext]_pendingMessageVars => Inv'
  BY PendingTypesStep, SpotStep, ShownStep
<1> QED BY <1>1, <1>2, <1>3, PTL DEF ServicesSpec

\* Whatever is typed, queued, prompted, cleared or sent by extensions, however runs end and
\* whenever the session stops listening: every message that was handed over is in exactly
\* one place and none is announced twice; what clearQueue takes from the agent it gives
\* back, and the lists the front ends show are the queues, unless one text was taken for
\* another (_queueSteer, _queueFollowUp, prompt, sendCustomMessage, clearQueue and
\* _processAgentEvent).
THEOREM WaitingTheorem ==
  ASSUME PendingAssumption PROVE ServicesSpec => []WaitingKept
<1> DEFINE Inv == PendingTypes /\ SpotInv /\ ShownInv
<1>1. PendingAssumption /\ Inv => WaitingKept
  <2> SUFFICES ASSUME PendingAssumption, Inv
               PROVE  Waiting!ClearedGivenBack /\ Waiting!ListsAreQueues /\ Waiting!InOnePlace
    BY DEF WaitingKept, Waiting!WaitingKept
  <2>1. ASSUME ~p_mistaken, NEW t \in PendingTexts
        PROVE  Waiting!Cardinality({u \in p_cleared \cap Typed : p_text[u] = t}) <=
                 Waiting!Restored(t)
    BY <2>1, WaitingCounts DEF ShownInv, WithText, Waiting!Restored
  <2>2. Waiting!ClearedGivenBack
    BY <2>1 DEF Waiting!ClearedGivenBack, PendingTexts
  <2>3. ASSUME ~p_mistaken, p_announcing = <<>>, p_events = <<>>, NEW t \in PendingTexts, t # ""
        PROVE  Waiting!Listed(t) =
                 Waiting!Cardinality({u \in Waiting!InQueues \cap Typed : p_text[u] = t})
                 + Waiting!Cardinality({u \in p_shown \cap (p_dropped \union p_unheard) :
                                          p_text[u] = t})
    <3>1. Waiting!Listed(t) = ListedIs(p_lists, t)
      BY DEF Waiting!Listed, ListedIs
    <3>2. SetIn(p_announcing) = {} /\ SetIn(p_events) = {}
      BY <2>3, NoneIn
    <3>3. ListedIs(p_lists, t) =
            Cardinality(WithText(p_text, Waiting!InQueues \cap Typed, t))
            + Cardinality(WithText(p_text, p_shown \cap (p_dropped \union p_unheard), t))
      BY <2>3, <3>2, ListsShow DEF HasText
    <3> QED BY <3>1, <3>3, WaitingCounts, Zenon DEF WithText
  <2>4. Waiting!ListsAreQueues
    BY <2>3 DEF Waiting!ListsAreQueues, PendingTexts
  <2>5. Waiting!IsInjective(p_announced)
    <3>1. OnceIn(p_announced) /\ DOMAIN p_announced = 1 .. Len(p_announced)
      BY DEF SpotInv, PendingOnce, PendingTypes
    <3> QED BY <3>1 DEF OnceIn, Waiting!IsInjective
  <2>6. Waiting!InOnePlace
    BY <2>5, OnePlace DEF Waiting!InOnePlace, SpotInv
  <2> QED BY <2>2, <2>4, <2>6
<1> QED BY <1>1, WaitKept, PTL

\* Whatever the branch and however often it is compacted: what the model is not shown has
\* been summarised, or forgotten by "No prior history."; results stay with their answer;
\* and a compaction leaves no more than the budget and a message, unless the branch ends
\* in results that use it up (findCutPoint, prepareCompaction and compact).
THEOREM KeepsTheorem ==
  ASSUME CompactionAssumption
  PROVE  ServicesSpec => []CompactionKeeps
<1>1. ServicesInit => KeepsInv
  BY KeepsInit DEF ServicesInit
<1>2. KeepsInv /\ [ServicesNext]_servicesVars => KeepsInv'
  <2>1. [ServicesNext]_servicesVars => [CompactionNext]_compactionVars
    BY DEF ServicesNext, servicesVars, thirdVars
  <2> QED BY <2>1, KeepsStep
<1>3. KeepsInv => CompactionKeeps
  BY KeepsImplies
<1> QED BY <1>1, <1>2, <1>3, PTL DEF ServicesSpec

----------------------------------------------------------------------------
(* auth.json and settings.json *)

AuthP == INSTANCE AuthStorageProofs WITH
  Processes <- {"p", "q"}, Callers <- AuthCalls,
  ProcessOf <- [c \in AuthCalls |-> IF c = "a" THEN "p" ELSE "q"],
  MaxTokens <- AuthTokens, MaxChanges <- AuthChanges, MaxFaults <- AuthFaults,
  file <- a_file, lock <- a_lock, data <- a_data, loadError <- a_loadError, job <- a_job,
  phase <- a_phase, base <- a_base, fresh <- a_fresh, compromised <- a_compromised,
  key <- a_key, live <- a_live, expired <- a_expired, issued <- a_issued,
  changes <- a_changes, faults <- a_faults, crashed <- a_crashed, reused <- a_reused,
  disturbed <- a_disturbed, dropped <- a_dropped, recreated <- a_recreated

\* The processes and calls of auth.json move as in AuthStorage.
LEMMA AuthMoves == ServicesSpec => AuthP!Spec
<1>1. ServicesInit => AuthP!Init
  BY DEF ServicesInit, Auth!Init, AuthP!Init, Auth!Job, AuthP!Job, Auth!Empty, AuthP!Empty,
         Auth!Stored, AuthP!Stored, Auth!Free, AuthP!Free
<1>2. Auth!Next => AuthP!Next
  BY DEF Auth!callerVars, AuthP!callerVars, Auth!providerVars, AuthP!providerVars,
         Auth!history, AuthP!history, Auth!bounds, AuthP!bounds, Auth!Empty, AuthP!Empty, Auth!Stored,
         AuthP!Stored, Auth!Free, AuthP!Free, Auth!Job, AuthP!Job, Auth!ProcessOfOwner,
         AuthP!ProcessOfOwner, Auth!OwnerLives, AuthP!OwnerLives, Auth!Running, AuthP!Running,
         Auth!Usable, AuthP!Usable, Auth!Stale, AuthP!Stale, Auth!EnsureFile, AuthP!EnsureFile,
         Auth!SyncLock, AuthP!SyncLock, Auth!AfterReload, AuthP!AfterReload, Auth!SyncLocked,
         AuthP!SyncLocked, Auth!Saved, AuthP!Saved, Auth!SyncWrite, AuthP!SyncWrite, Auth!Persist,
         AuthP!Persist, Auth!Set, AuthP!Set, Auth!Login, AuthP!Login, Auth!Logout, AuthP!Logout,
         Auth!Ask, AuthP!Ask, Auth!UnderLock, AuthP!UnderLock, Auth!AsyncLock, AuthP!AsyncLock,
         Auth!Catch, AuthP!Catch, Auth!AsyncLocked, AuthP!AsyncLocked, Auth!Refuse, AuthP!Refuse,
         Auth!Rotate, AuthP!Rotate, Auth!Lose, AuthP!Lose, Auth!Merged, AuthP!Merged, Auth!Answer,
         AuthP!Answer, Auth!Unlock, AuthP!Unlock, Auth!Release, AuthP!Release, Auth!ReleaseAndCatch,
         AuthP!ReleaseAndCatch, Auth!GrowStale, AuthP!GrowStale, Auth!GrowDead, AuthP!GrowDead,
         Auth!Renew, AuthP!Renew, Auth!Expire, AuthP!Expire, Auth!Crash, AuthP!Crash,
         Auth!Synchronous, AuthP!Synchronous, Auth!Refreshing, AuthP!Refreshing, Auth!Next, AuthP!Next
<1>3. [ServicesNext]_servicesVars => Auth!Next \/ UNCHANGED Auth!vars
  BY DEF ServicesNext, servicesVars, firstVars, authVars, Auth!vars
<1>4. UNCHANGED Auth!vars => UNCHANGED AuthP!vars
  BY DEF Auth!vars, AuthP!vars
<1>5. [ServicesNext]_servicesVars => [AuthP!Next]_(AuthP!vars)
  BY <1>2, <1>3, <1>4
<1> QED BY <1>1, <1>5, PTL DEF ServicesSpec, AuthP!Spec

\* The processes of settings.json move as in Settings.
LEMMA SettingsMove == ServicesSpec => SettingsFile!Spec
<1>1. ServicesInit => SettingsFile!Init
  BY DEF ServicesInit
<1>2. [ServicesNext]_servicesVars => [SettingsFile!Next]_(SettingsFile!settingsVars)
  BY DEF ServicesNext, servicesVars, secondVars, settingVars, SettingsFile!settingsVars
<1> QED BY <1>1, <1>2, PTL DEF ServicesSpec, SettingsFile!Spec

\* A refresh token is presented once, whatever the calls, the changes and the faults:
\* RefreshTokenSpentOnce of the services.
THEOREM TokenTheorem == ASSUME AuthP!Names PROVE ServicesSpec => []RefreshTokenSpentOnce
<1>1. AuthP!RefreshTokenSpentOnce => RefreshTokenSpentOnce
  BY DEF AuthP!RefreshTokenSpentOnce, RefreshTokenSpentOnce, Auth!RefreshTokenSpentOnce
<1> QED BY <1>1, AuthMoves, AuthP!SpentOnceTheorem, PTL

\* No change of a setting is lost without a record: NoSilentLoss of the services.
THEOREM LossTheorem == ASSUME SettingNames PROVE ServicesSpec => []NoSilentLoss
<1>1. SettingsFile!NoSilentLoss => NoSilentLoss
  BY DEF NoSilentLoss
<1> QED BY <1>1, SettingsMove, NoLossTheorem, PTL

\* A write of auth.json or settings.json keeps what others have saved:
\* SavedByOthersKept of the services.
THEOREM OthersTheorem ==
  ASSUME AuthP!Names, SettingNames PROVE ServicesSpec => SavedByOthersKept
<1>1. AuthP!OtherCredentialKept => Auth!OtherCredentialKept
  BY DEF AuthP!OtherCredentialKept, Auth!OtherCredentialKept, Auth!vars, AuthP!vars
<1> QED BY <1>1, AuthMoves, SettingsMove, AuthP!OtherKeptTheorem, OtherFieldsTheorem,
           PTL DEF SavedByOthersKept


----------------------------------------------------------------------------
(* What the variables hold *)

\* A text is the calls that have written it, after what was there before.
FileTexts == Seq(Files!Calls \union {None})
FileTypes ==
  /\ f_exists \in BOOLEAN /\ f_content \in FileTexts /\ f_base \in [Files!Calls -> FileTexts]
  /\ f_outcome \in [Files!Calls -> {"none", "ok", "error", "aborted"}]
  /\ f_early \subseteq Files!Calls /\ f_crowded \subseteq Editors

LEMMA FileTypesStep == FileTypes /\ [Files!Next]_filesVars => FileTypes'
<1> SUFFICES ASSUME FileTypes, [Files!Next]_filesVars PROVE FileTypes'
  OBVIOUS
<1>1. /\ <<>> \in FileTexts
      /\ \A t \in FileTexts, c \in Files!Calls : Append(t, c) \in FileTexts /\ <<c>> \in FileTexts
  BY DEF FileTexts
<1>2. Files!Crowd => f_crowded' \subseteq Editors /\ UNCHANGED f_early
  BY DEF FileTypes, Files!Crowd
<1> DEFINE Outcomes == {"none", "ok", "error", "aborted"}
<1>3. ASSUME NEW c \in Files!Calls, NEW next, Files!Proceed(c, next) PROVE UNCHANGED f_outcome
  BY <1>3 DEF Files!Proceed
<1>4. ASSUME NEW c \in Files!Calls, Files!Reject(c) PROVE f_outcome' \in [Files!Calls -> Outcomes]
  BY <1>4 DEF Files!Reject, FileTypes
<1>5. ASSUME NEW c \in Files!Calls, Files!Execute(c) PROVE FileTypes'
  BY <1>5 DEF Files!Execute, FileTypes
<1>6. ASSUME NEW c \in Files!Calls, Files!Begin(c) PROVE FileTypes'
  BY <1>2, <1>6 DEF Files!Begin, FileTypes
<1>7. ASSUME NEW c \in Files!Calls, Files!FileSystem(c) PROVE FileTypes'
  <2>1. CASE Files!Access(c)
    <3>1. f_outcome' \in [Files!Calls -> Outcomes]
      BY <1>3, <1>4, <2>1 DEF Files!Access, FileTypes
    <3> QED BY <1>2, <2>1, <3>1 DEF Files!Access, FileTypes
  <2>2. CASE Files!ReadToEdit(c)
    <3>1. f_outcome' \in [Files!Calls -> Outcomes]
      BY <1>3, <1>4, <2>2 DEF Files!ReadToEdit, FileTypes
    <3> QED BY <1>2, <2>2, <3>1 DEF Files!ReadToEdit, FileTypes
  <2>3. CASE Files!ReadToWrite(c) \/ Files!Mkdir(c)
    BY <1>2, <1>3, <2>3 DEF Files!ReadToWrite, Files!Mkdir, FileTypes
  <2>4. CASE Files!Truncate(c)
    BY <1>1, <1>2, <2>4 DEF Files!Truncate, FileTypes
  <2>5. CASE Files!Flush(c)
    <3>1. f_base[c] \in FileTexts
      BY DEF FileTypes
    <3>2. f_content' \in FileTexts
      BY <1>1, <2>5, <3>1 DEF Files!Flush
    <3>3. f_outcome' \in [Files!Calls -> Outcomes]
      BY <2>5 DEF Files!Flush, FileTypes
    <3> QED BY <1>2, <2>5, <3>2, <3>3 DEF Files!Flush, FileTypes
  <2> QED BY <1>7, <2>1, <2>2, <2>3, <2>4, <2>5 DEF Files!FileSystem
<1>8. ASSUME NEW c \in Files!Calls, Files!Fail(c) PROVE FileTypes'
  BY <1>2, <1>4, <1>8 DEF Files!Fail, FileTypes
<1>9. ASSUME NEW c \in Files!Calls, Files!Return(c) PROVE FileTypes'
  BY <1>9 DEF Files!Return, FileTypes
<1>10. ASSUME NEW r, Files!Abort(r) PROVE FileTypes'
  BY <1>10 DEF Files!Abort, FileTypes
<1>11. CASE UNCHANGED filesVars
  BY <1>11 DEF filesVars, FileTypes
<1> QED BY <1>5, <1>6, <1>7, <1>8, <1>9, <1>10, <1>11 DEF Files!Next, Files!Owed

LEMMA FilesTyped ==
  ASSUME Editors \intersect Writers = {}, None \notin Editors \union Writers
  PROVE  ServicesSpec => []Files!TypeOK
<1>1. ServicesInit => FileTypes
  <2> SUFFICES ASSUME Files!Init PROVE FileTypes
    BY DEF ServicesInit
  <2>1. <<>> \in FileTexts /\ <<None>> \in FileTexts
    BY DEF FileTexts
  <2> QED BY <2>1 DEF Files!Init, FileTypes
<1>2. [ServicesNext]_servicesVars => [Files!Next]_filesVars
  BY DEF ServicesNext, servicesVars, firstVars
<1>3. FilesInv /\ FileTypes => Files!TypeOK
  <2> SUFFICES ASSUME FilesInv, FileTypes PROVE Files!TypeOK
    OBVIOUS
  <2>1. Files!Queue!TypeOK
    BY DEF FilesInv, QueueP!IInv, QueueP!TypeOK, Files!Queue!TypeOK, Files!Calls
  <2> QED BY <2>1 DEF FilesInv, FileSteps, FileTypes, FileTexts, Files!TypeOK
<1> QED BY <1>1, <1>2, <1>3, FileTypesStep, FilesKept, PTL DEF ServicesSpec

\* What a wait of the RPC client comes to.
ClientTypes ==
  /\ r_process \in {"none", "up", "stopping"} /\ r_starts \in 0 .. 2
  /\ r_heard \in [Client!Listeners -> {"no", "waiting", "end", "timed out"}]

LEMMA ClientTypesStep == ClientTypes /\ [Client!Next]_rpcVars => ClientTypes'
<1>0. ASSUME NEW n \in 0 .. 2, n < 2 PROVE n + 1 \in 0 .. 2
  BY <1>0
<1> SUFFICES ASSUME ClientTypes, [Client!Next]_rpcVars PROVE ClientTypes'
  OBVIOUS
<1> USE DEF ClientTypes
<1>1. CASE Client!Start
  <2>1. r_starts < 2 /\ r_starts' = r_starts + 1 /\ r_process' = "up" /\ UNCHANGED r_heard
    BY <1>1 DEF Client!Start
  <2>2. r_starts \in 0 .. 2
    OBVIOUS
  <2>3. r_starts' \in 0 .. 2
    BY <1>0, <2>1, <2>2, Zenon
  <2> QED BY <2>1, <2>3
<1>2. CASE Client!Stop \/ Client!Stopped
  BY <1>2 DEF Client!Stop, Client!Stopped
<1>3. CASE Client!HandleLine
  BY <1>3 DEF Client!HandleLine
<1>4. CASE Client!HandleInputLine \/ Client!RunEnds \/ Client!Die
  BY <1>4 DEF Client!HandleInputLine, Client!RunEnds, Client!Die, Client!clientVars
<1>5. ASSUME NEW r \in RpcRequests, Client!Send(r) PROVE ClientTypes'
  <2>1. r \in Client!Listeners
    BY DEF Client!Listeners
  <2> QED BY <1>5, <2>1 DEF Client!Send
<1>6. ASSUME NEW r \in RpcRequests,
             Client!SendSequential(r) \/ Client!Timeout(r) \/ Client!BashEnds(r) \/ Client!Aborted(r)
      PROVE  ClientTypes'
  BY <1>6
     DEF Client!SendSequential, Client!Timeout, Client!BashEnds, Client!Aborted, Client!clientVars
<1>7. ASSUME NEW l, Client!WaitTimesOut(l) \/ Client!WaitForIdle(l) PROVE ClientTypes'
  BY <1>7 DEF Client!WaitTimesOut, Client!WaitForIdle
<1>8. CASE UNCHANGED rpcVars
  BY <1>8 DEF rpcVars
<1> QED BY <1>1, <1>2, <1>3, <1>4, <1>5, <1>6, <1>7, <1>8 DEF Client!Next

LEMMA ClientTyped == ASSUME RpcNames PROVE ServicesSpec => []Client!TypeOK
<1>1. ServicesInit => ClientTypes
  BY DEF ServicesInit, Client!Init, ClientTypes
<1>2. [ServicesNext]_servicesVars => [Client!Next]_rpcVars
  BY DEF ServicesNext, servicesVars, firstVars
<1>3. RpcTypes /\ ClientTypes => Client!TypeOK
  <2> SUFFICES ASSUME RpcTypes, ClientTypes PROVE Client!TypeOK
    OBVIOUS
  <2>1. r_pending \subseteq {r \in RpcRequests : r_state[r] = "sent"}
    BY DEF RpcTypes
  <2> QED BY <2>1 DEF RpcTypes, RpcStates, Lines, ClientTypes, Client!TypeOK
<1> DEFINE Ranked == \E rank \in [RpcRequests -> Nat] : InOrderOf(rank)
<1>4. ServicesSpec => [](RpcTypes /\ AnswersInv /\ Ranked)
  BY RequestsKept
<1> HIDE DEF Ranked
<1> QED BY <1>1, <1>2, <1>3, <1>4, ClientTypesStep, PTL DEF ServicesSpec

LEMMA WebhookTyped == ASSUME WebhookAssumption PROVE ServicesSpec => []Webhook!TypeOK
<1>0. ASSUME NEW S, NEW T, S \subseteq T, NEW s \in Seq(S) PROVE s \in Seq(T)
  BY <1>0
<1>1. WebTypes => Webhook!TypeOK
  <2> SUFFICES ASSUME WebTypes PROVE Webhook!TypeOK
    OBVIOUS
  <2>1. WebServers \subseteq [state : WebStates, port : 1 .. WebhookPorts, left : 0 .. WebhookPorts]
    BY DEF WebServers
  <2>2. w_servers \in Seq([state : WebStates, port : 1 .. WebhookPorts, left : 0 .. WebhookPorts])
    BY <1>0, <2>1, Zenon DEF WebTypes
  <2> QED BY <2>2, Zenon DEF WebTypes, WebStates, WebRequests, Webhook!TypeOK
<1> QED BY <1>1, WebhookKept, PTL

LEMMA MomTyped == ASSUME MomAssumption PROVE ServicesSpec => []Channel!TypeOK
<1>1. MomTypes => Channel!TypeOK
  BY DEF MomTypes, MomWork, MomMessages, Channel!TypeOK
<1> QED BY <1>1, MomKept, PTL

LEMMA WaitTyped == ASSUME PendingAssumption PROVE ServicesSpec => []Waiting!PendingTypeOK
<1>1. PendingTypes => Waiting!PendingTypeOK
  BY DEF PendingTypes, PendingWork, PendingTexts, Waiting!PendingTypeOK, Waiting!Channels
<1> QED BY <1>1, WaitKept, PTL

LEMMA RequestTyped == ASSUME StreamConstants PROVE ServicesSpec => []Request!LazyTypeOK
<1>1. RequestInv => Request!LazyTypeOK
  <2> SUFFICES ASSUME RequestInv PROVE Request!LazyTypeOK
    OBVIOUS
  <2>1. StreamTypeOK /\ InnerP!StreamTypeOK /\ Final
    BY DEF RequestInv, AloneInv, InnerP!AloneInv
  <2>2. Request!StreamTypeOK
    BY <2>1 DEF StreamTypeOK, Request!StreamTypeOK
  <2>3. Request!Inner!StreamTypeOK
    BY <2>1 DEF InnerP!StreamTypeOK, Request!Inner!StreamTypeOK
  <2>4. response \in FinalEvents \union {Unresolved}
    BY <2>1 DEF RequestInv, Final
  <2> QED BY <2>2, <2>3, <2>4 DEF RequestInv, Request!LazyTypeOK
<1> QED BY <1>1, RequestCorrect, PTL

\* Schedules are numbered.
ScheduleTypes ==
  /\ e_scheduled \in Nat
  /\ e_timers \in 1 .. e_scheduled \union {None} /\ e_crons \in 1 .. e_scheduled \union {None}
  /\ \A a \in e_armed : a.id \in 1 .. e_scheduled

LEMMA ScheduleStep ==
  ASSUME ScheduleTypes, [Watcher!Next]_eventVars PROVE ScheduleTypes'
<1> USE DEF ScheduleTypes, Watcher!outside
<1>c. ASSUME e_scheduled' = e_scheduled, e_timers' \in {e_timers, None}, e_crons' \in {e_crons, None},
             \A a \in e_armed' : a \in e_armed
      PROVE  ScheduleTypes'
  BY <1>c
<1>a. ASSUME NEW v, NEW kind, Watcher!Arm(v, kind), e_timers' \in {e_timers, e_scheduled'},
             e_crons' \in {e_crons, e_scheduled'}
      PROVE  ScheduleTypes'
  <2>1. /\ e_scheduled' = e_scheduled + 1
        /\ e_armed' = e_armed \union {[id |-> e_scheduled', v |-> v, kind |-> kind]}
    BY <1>a DEF Watcher!Arm
  <2>2. /\ e_scheduled' \in Nat /\ e_scheduled' \in 1 .. e_scheduled'
        /\ \A i \in 1 .. e_scheduled : i \in 1 .. e_scheduled'
    BY <2>1
  <2>3. \A a \in e_armed' : a.id \in 1 .. e_scheduled'
    BY <2>1, <2>2
  <2>4. e_timers' \in 1 .. e_scheduled' \union {None} /\ e_crons' \in 1 .. e_scheduled' \union {None}
    BY <1>a, <2>2
  <2> QED BY <2>2, <2>3, <2>4
<1> HIDE DEF ScheduleTypes
<1>1. CASE UNCHANGED <<e_timers, e_crons, e_armed, e_scheduled>>
  BY <1>1 DEF ScheduleTypes
<1>2. CASE \/ Watcher!WriteFile \/ Watcher!RemoveFile \/ Watcher!TouchFile \/ Watcher!Start
           \/ UNCHANGED eventVars
  BY <1>1, <1>2
     DEF Watcher!WriteFile, Watcher!RemoveFile, Watcher!TouchFile, Watcher!Start, eventVars
<1>3. CASE Watcher!Crash
  BY <1>c, <1>3 DEF Watcher!Crash, Watcher!Die
<1>4. CASE Watcher!HandleFileChange
  BY <1>c, <1>4 DEF Watcher!HandleFileChange, Watcher!Changed, Watcher!CancelScheduled
<1>5. ASSUME NEW v, Watcher!TimePasses(v) PROVE ScheduleTypes'
  BY <1>1, <1>5 DEF Watcher!TimePasses
<1>6. ASSUME NEW h, Watcher!ReadFile(h) \/ Watcher!Retry(h) \/ Watcher!WakeUp(h) PROVE ScheduleTypes'
  BY <1>1, <1>6 DEF Watcher!ReadFile, Watcher!Retry, Watcher!WakeUp
<1>7. ASSUME NEW h, Watcher!HandleImmediate(h) PROVE ScheduleTypes'
  BY <1>c, <1>7 DEF Watcher!HandleImmediate
<1>8. ASSUME NEW h, Watcher!HandleOneShot(h) PROVE ScheduleTypes'
  <2>1. CASE UNCHANGED <<e_armed, e_timers, e_scheduled>>
    BY <1>c, <1>8, <2>1 DEF Watcher!HandleOneShot
  <2>2. CASE Watcher!Arm(e_handlers[h].got.v, "timer") /\ e_timers' = e_scheduled'
    BY <1>a, <1>8, <2>2 DEF Watcher!HandleOneShot
  <2> QED BY <1>8, <2>1, <2>2 DEF Watcher!HandleOneShot
<1>9. ASSUME NEW h, Watcher!HandlePeriodic(h) PROVE ScheduleTypes'
  <2>1. CASE UNCHANGED <<e_armed, e_crons, e_scheduled>>
    BY <1>c, <1>9, <2>1 DEF Watcher!HandlePeriodic
  <2>2. CASE Watcher!Arm(e_handlers[h].got.v, "cron") /\ e_crons' = e_scheduled'
    BY <1>a, <1>9, <2>2 DEF Watcher!HandlePeriodic
  <2> QED BY <1>9, <2>1, <2>2 DEF Watcher!HandlePeriodic
<1>10. ASSUME NEW a \in e_armed, Watcher!Fire(a) PROVE ScheduleTypes'
  BY <1>c, <1>10 DEF Watcher!Fire
<1> QED BY <1>2, <1>3, <1>4, <1>5, <1>6, <1>7, <1>8, <1>9, <1>10 DEF Watcher!Next, Watcher!Handle

LEMMA WatcherTyped == ASSUME EventVersions \in Nat PROVE ServicesSpec => []Watcher!TypeOK
<1>1. ServicesInit => ScheduleTypes
  BY DEF ServicesInit, Watcher!Init, ScheduleTypes
<1>2. [ServicesNext]_servicesVars => [Watcher!Next]_eventVars
  BY DEF ServicesNext, servicesVars, secondVars
<1>3. ScheduleTypes /\ [Watcher!Next]_eventVars => ScheduleTypes'
  BY ScheduleStep
<1>4. WatchTypes /\ ScheduleTypes => Watcher!TypeOK
  <2> SUFFICES ASSUME WatchTypes, ScheduleTypes PROVE Watcher!TypeOK
    OBVIOUS
  <2>1. ASSUME e_disk \in Contents
        PROVE  /\ e_disk.v \in 1 .. e_versions /\ e_disk.start \in 1 .. e_starts
               /\ e_disk.type \in Watcher!EventTypes
    BY <2>1 DEF Contents
  <2> QED BY <2>1 DEF WatchTypes, ScheduleTypes, Watcher!TypeOK, Watcher!EventTypes
<1> QED BY <1>1, <1>2, <1>3, <1>4, WatchKept, PTL DEF ServicesSpec

\* No session shows a branch its manager has not come to.
ViewsTyped ==
  /\ n_saved \in [Runtime!Sessions -> BOOLEAN]
  /\ \A s \in Runtime!Sessions : n_view[s] <= n_branch[n_manager[s]]

LEMMA ViewsStep ==
  ASSUME RuntimeAssumption, RuntimeTypes, ViewsTyped, [Runtime!Next]_runtimeVars PROVE ViewsTyped'
<1> USE DEF Runtime!runtimeVars, Runtime!managerVars, Runtime!frontVars, Runtime!historyVars
<1>t. /\ n_created \in 1 .. ReplacedSessions /\ n_current \in Runtime!Sessions
      /\ n_manager \in [Runtime!Sessions -> Runtime!Sessions]
      /\ n_branch \in [Runtime!Sessions -> Nat] /\ n_view \in [Runtime!Sessions -> Nat]
  <2>1. n_created \in 1 .. ReplacedSessions /\ n_current \in 1 .. n_created
    BY DEF RuntimeTypes, NamesTyped
  <2>2. n_current \in 1 .. ReplacedSessions
    BY <2>1 DEF RuntimeAssumption
  <2>3. n_current \in Runtime!Sessions
    BY <2>2 DEF Runtime!Sessions
  <2> QED BY <2>1, <2>3 DEF RuntimeTypes, CountsTyped
<1>1. CASE UNCHANGED Runtime!managerVars
  BY <1>1 DEF ViewsTyped
<1>2. ASSUME NEW c \in Replacements, Runtime!Prepare(c) PROVE ViewsTyped'
  <2> DEFINE m == n_manager[n_current]
  <2>1. n_branch' \in {n_branch, [n_branch EXCEPT ![m] = @ + 1]} /\ UNCHANGED <<n_manager, n_view, n_saved>>
    BY <1>2 DEF Runtime!Prepare
  <2>2. m \in Runtime!Sessions
    BY <1>t
  <2>3. \A k \in Runtime!Sessions : n_branch[k] <= n_branch'[k]
    BY <1>t, <2>1, <2>2
  <2>4. \A s \in Runtime!Sessions : n_manager[s] \in Runtime!Sessions
    BY <1>t
  <2>5. n_branch' \in [Runtime!Sessions -> Nat]
    BY <1>t, <2>1, <2>2
  <2> HIDE DEF m
  <2>6. ASSUME NEW s \in Runtime!Sessions PROVE n_view'[s] <= n_branch'[n_manager'[s]]
    <3>1. /\ n_view[s] \in Nat /\ n_branch[n_manager[s]] \in Nat /\ n_branch'[n_manager[s]] \in Nat
          /\ n_view[s] <= n_branch[n_manager[s]] /\ n_branch[n_manager[s]] <= n_branch'[n_manager[s]]
      BY <1>t, <2>3, <2>4, <2>5 DEF ViewsTyped
    <3>2. n_view[s] <= n_branch'[n_manager[s]]
      BY <3>1
    <3> QED BY <2>1, <3>2
  <2> QED BY <2>1, <2>6 DEF ViewsTyped
<1>3. ASSUME NEW c \in Replacements, Runtime!Create(c) PROVE ViewsTyped'
  <2> DEFINE m == IF n_job[c].target = Runtime!Nobody THEN n_created + 1 ELSE n_job[c].target
  <2>1. /\ n_created < ReplacedSessions
        /\ n_manager' = [n_manager EXCEPT ![n_created + 1] = m]
        /\ n_view' = [n_view EXCEPT ![n_created + 1] = n_branch[m]]
        /\ UNCHANGED <<n_branch, n_saved>>
    BY <1>3 DEF Runtime!Create
  <2>2. n_created + 1 \in Runtime!Sessions
    BY <1>t, <2>1 DEF RuntimeAssumption, Runtime!Sessions
  <2>3. m \in Runtime!Sessions
    <3>1. n_job[c] \in JobRecords
      BY DEF RuntimeTypes, JobsTyped
    <3>2. n_job[c].target \in 0 .. ReplacedSessions
      BY <3>1 DEF JobRecords
    <3> QED BY <2>2, <3>2 DEF Runtime!Nobody, Runtime!Sessions, RuntimeAssumption
  <2> HIDE DEF m
  <2>4. ASSUME NEW s \in Runtime!Sessions PROVE n_view'[s] <= n_branch'[n_manager'[s]]
    <3>1. CASE s = n_created + 1
      <4>1. n_view'[s] = n_branch[m] /\ n_manager'[s] = m /\ n_branch[m] \in Nat
        BY <1>t, <2>1, <2>2, <2>3, <3>1
      <4> QED BY <2>1, <4>1
    <3>2. CASE s # n_created + 1
      <4>1. n_view'[s] = n_view[s] /\ n_manager'[s] = n_manager[s]
        BY <1>t, <2>1, <3>2
      <4> QED BY <2>1, <4>1 DEF ViewsTyped
    <3> QED BY <3>1, <3>2
  <2> QED BY <2>1, <2>4 DEF ViewsTyped
<1>4. ASSUME NEW c \in Replacements, Runtime!SetUp(c) PROVE ViewsTyped'
  <2>1. /\ n_view' = [n_view EXCEPT ![n_current] = n_branch[n_manager[n_current]]]
        /\ UNCHANGED <<n_manager, n_branch, n_saved>>
    BY <1>4 DEF Runtime!SetUp
  <2>2. ASSUME NEW s \in Runtime!Sessions PROVE n_view'[s] <= n_branch'[n_manager'[s]]
    <3>1. CASE s = n_current
      <4>1. n_view'[s] = n_branch[n_manager[s]] /\ n_branch[n_manager[s]] \in Nat
        BY <1>t, <2>1, <3>1
      <4> QED BY <2>1, <4>1
    <3>2. CASE s # n_current
      <4>1. n_view'[s] = n_view[s]
        BY <1>t, <2>1, <3>2
      <4> QED BY <2>1, <4>1 DEF ViewsTyped
    <3> QED BY <3>1, <3>2
  <2> QED BY <2>1, <2>2 DEF ViewsTyped
<1>5. ASSUME NEW c \in Replacements, NEW kind \in Runtime!Kinds, Runtime!Ask(c, kind) PROVE ViewsTyped'
  BY <1>1, <1>5 DEF Runtime!Ask
<1>6. ASSUME NEW c \in Replacements,
             \/ Runtime!Refuse(c) \/ Runtime!Stopped(c) \/ Runtime!Fail(c) \/ Runtime!Apply(c)
             \/ Runtime!SetUpFails(c) \/ Runtime!Bind(c) \/ Runtime!Bound(c)
      PROVE  ViewsTyped'
  BY <1>1, <1>6 DEF Runtime!Refuse, Runtime!Stopped, Runtime!Fail, Runtime!Apply,
                    Runtime!SetUpFails, Runtime!Bind, Runtime!BindTo, Runtime!Bound
<1>7. CASE Runtime!Close \/ Runtime!Exit \/ UNCHANGED runtimeVars
  BY <1>1, <1>7 DEF Runtime!Close, Runtime!Exit, runtimeVars
<1> QED BY <1>2, <1>3, <1>4, <1>5, <1>6, <1>7 DEF Runtime!Next

LEMMA RuntimeTyped == ASSUME RuntimeAssumption PROVE ServicesSpec => []Runtime!TypeOK
<1>1. ServicesInit => ViewsTyped
  <2> SUFFICES ASSUME Runtime!Init PROVE ViewsTyped
    BY DEF ServicesInit
  <2>1. n_saved \in [Runtime!Sessions -> BOOLEAN]
    BY DEF Runtime!Init
  <2>2. \A s \in Runtime!Sessions : n_view[s] = 0 /\ n_branch[s] = 0 /\ n_manager[s] = s
    BY DEF Runtime!Init
  <2> QED BY <2>1, <2>2 DEF ViewsTyped
<1>2. [ServicesNext]_servicesVars => [Runtime!Next]_runtimeVars
  BY DEF ServicesNext, servicesVars, thirdVars
<1>3. RuntimeTypes /\ ViewsTyped /\ [Runtime!Next]_runtimeVars => ViewsTyped'
  BY ViewsStep
<1>4. RuntimeTypes /\ ViewsTyped => Runtime!TypeOK
  BY DEF RuntimeTypes, NamesTyped, CountsTyped, ViewsTyped, Runtime!TypeOK
<1> QED BY <1>1, <1>2, <1>3, <1>4, RuntimeKept, PTL DEF ServicesSpec

LEMMA NothingTotal == ASSUME NEW t \in Seq(Int), Len(t) = 0 PROVE Bash!Total(t) = 0
<1> DEFINE f == SumOf(t)
<1>1. IsSum([n \in 0 .. 0 |-> 0], t)
  BY DEF IsSum
<1>2. IsSum(f, t)
  BY <1>1 DEF SumOf
<1> HIDE DEF f
<1>3. f[0] = 0
  BY <1>2 DEF IsSum
<1>4. f[Len(t)] = 0
  BY <1>3
<1> QED BY <1>4, Zenon DEF f, SumOf, IsSum, Bash!Total

LEMMA NothingTruncated ==
  ASSUME SizesOK, NEW s, Len(s) = 0, NEW from PROVE ~Bash!Truncated(from, s)
<1> DEFINE bytes == [i \in 1 .. Len(s) |-> IF i < from THEN 0 ELSE s[i].bytes]
           lines == [i \in 1 .. Len(s) |-> IF i < from THEN 0 ELSE s[i].lines]
<1>1. bytes \in Seq(Int) /\ Len(bytes) = 0 /\ lines \in Seq(Int) /\ Len(lines) = 0
  OBVIOUS
<1>2. Bash!Bytes(from, s) = 0 /\ Bash!Lines(from, s) = 0
  BY <1>1, NothingTotal DEF Bash!Bytes, Bash!Lines
<1> QED BY <1>2 DEF Bash!Truncated, SizesOK

\* The file begins with a piece that has arrived.
BashTypes ==
  /\ b_code \in {0, 1} /\ b_descendants \in {"none", "group", "detached"}
  /\ b_outcome \in {"none", "ok", "failed", "aborted", "timeout", "error"}
  /\ b_file = 1 => Len(b_pieces) # 0

LEMMA BashAnswers ==
  ASSUME SizesOK, OutputInv, b_file = 1 => Len(b_pieces) # 0, NEW r, Bash!Answer(r)
  PROVE  b_outcome' = r /\ (b_file' = 1 => Len(b_pieces') # 0)
<1>1. CASE Len(b_pieces) = 0
  <2>1. ~Bash!Truncated(b_first, b_pieces)
    BY <1>1, NothingTruncated
  <2> QED BY <1>1, <2>1 DEF Bash!Answer
<1>2. CASE Len(b_pieces) # 0
  BY <1>2 DEF Bash!Answer
<1> QED BY <1>1, <1>2

LEMMA BashTypesStep ==
  ASSUME SizesOK, OutputInv, BashTypes, [Bash!Next]_bashVars PROVE BashTypes'
<1> USE DEF Bash!callVars, Bash!processVars, Bash!outputVars, Bash!answerVars
<1>f. ASSUME NEW c, Bash!Finalize(c), b_code' \in {0, 1}, b_descendants' = b_descendants
      PROVE  BashTypes'
  <2>1. PICK r \in {"aborted", "timeout", "ok", "failed"} : Bash!Answer(r)
    BY <1>f DEF Bash!Finalize
  <2>2. b_outcome' = r /\ (b_file' = 1 => Len(b_pieces') # 0)
    BY <2>1, BashAnswers DEF BashTypes
  <2> QED BY <1>f, <2>2 DEF BashTypes
<1>1. ASSUME NEW piece \in Bash!Pieces, Bash!Data(piece) PROVE BashTypes'
  <2>1. Len(b_pieces') # 0
    BY <1>1 DEF Bash!Data, Bash!Receive, OutputInv
  <2> QED BY <1>1, <2>1 DEF Bash!Data, BashTypes
<1>2. CASE Bash!Spawn
  BY <1>2 DEF Bash!Spawn, Bash!Kill, BashTypes
<1>3. CASE Bash!SpawnFails
  <2>1. PICK r \in {"aborted", "error"} : Bash!Answer(r)
    BY <1>3 DEF Bash!SpawnFails
  <2>2. b_outcome' = r /\ (b_file' = 1 => Len(b_pieces') # 0)
    BY <2>1, BashAnswers DEF BashTypes
  <2> QED BY <1>3, <2>2 DEF BashTypes, Bash!SpawnFails
<1>4. CASE Bash!Abort
  BY <1>4 DEF Bash!Abort, Bash!Kill, BashTypes
<1>5. CASE Bash!TimeoutFires
  BY <1>5 DEF Bash!TimeoutFires, Bash!Kill, BashTypes
<1>6. ASSUME NEW kind \in {"group", "detached"}, Bash!LeaveBehind(kind) PROVE BashTypes'
  BY <1>6 DEF Bash!LeaveBehind, BashTypes
<1>7. CASE Bash!DescendantEnds
  BY <1>7 DEF Bash!DescendantEnds, BashTypes
<1>8. ASSUME NEW c \in {0, 1}, Bash!Exit(c) PROVE BashTypes'
  <2>1. CASE b_open
    BY <1>8, <2>1 DEF Bash!Exit, BashTypes
  <2>2. CASE ~b_open
    BY <1>8, <1>f, <2>2 DEF Bash!Exit
  <2> QED BY <2>1, <2>2
<1>9. CASE Bash!PipesEnd
  <2>1. CASE b_child = "exited"
    BY <1>9, <1>f, <2>1 DEF Bash!PipesEnd, BashTypes
  <2>2. CASE b_child # "exited"
    BY <1>9, <2>2 DEF Bash!PipesEnd, BashTypes
  <2> QED BY <2>1, <2>2
<1>10. CASE Bash!GraceEnds
  BY <1>10, <1>f DEF Bash!GraceEnds, BashTypes
<1>11. CASE UNCHANGED bashVars
  BY <1>11 DEF bashVars, BashTypes
<1> QED BY <1>1, <1>2, <1>3, <1>4, <1>5, <1>6, <1>7, <1>8, <1>9, <1>10, <1>11 DEF Bash!Next

LEMMA BashTyped == ASSUME SizesOK PROVE ServicesSpec => []Bash!TypeOK
<1>1. ServicesInit => BashTypes
  BY DEF ServicesInit, Bash!Init, BashTypes
<1>2. [ServicesNext]_servicesVars => [Bash!Next]_bashVars
  BY DEF ServicesNext, servicesVars, thirdVars
<1>3. OutputInv /\ BashTypes /\ [Bash!Next]_bashVars => BashTypes'
  BY BashTypesStep
<1>4. OutputInv /\ ProcessInv /\ BashTypes => Bash!TypeOK
  <2> SUFFICES ASSUME OutputInv, ProcessInv, BashTypes PROVE Bash!TypeOK
    OBVIOUS
  <2>1. b_file \in 0 .. Len(b_pieces)
    BY DEF OutputInv, BashTypes
  <2> QED BY <2>1 DEF OutputInv, ProcessInv, BashTypes, Bash!TypeOK
<1> QED BY <1>1, <1>2, <1>3, <1>4, CommandKept, PTL DEF ServicesSpec

\* A round of handlers and what came of it.
RoundTypes ==
  /\ event \in Events \union {"none", "tool_result"}
  /\ phase \in {"idle", "asking", "running", "over"}
  /\ handlers \in 0 .. MaxHandlers /\ carried \subseteq 1 .. MaxHandlers
  /\ ended \in {"no", "stop", "throw"}
  /\ current \in [Fields -> 0 .. MaxHandlers] /\ modified \in BOOLEAN
  /\ tool \in {"none", "ok", "failed"} /\ told \in [Fields -> 0 .. MaxHandlers]
  /\ callAnswers \in Seq(Answers("tool_call")) /\ arguments \subseteq 1 .. MaxHandlers

LEMMA UntouchedTypes == ASSUME MaxHandlers \in Nat PROVE Untouched \in [Fields -> 0 .. MaxHandlers]
  BY DEF Untouched

LEMMA RoundTypesStep ==
  ASSUME MaxHandlers \in Nat, RunnerInv, RoundTypes, [RunnerNext]_runnerVars PROVE RoundTypes'
<1> USE DEF roundVars, toolVars
<1>r. ASSUME NEW e \in Events \union {"tool_result"}, Round(e),
             UNCHANGED <<told, callAnswers, arguments>>,
             tool' \in {"none", "ok", "failed"}
      PROVE  RoundTypes'
  BY <1>r, UntouchedTypes DEF Round, RoundTypes
<1>1. ASSUME NEW e \in Events, Emit(e) PROVE RoundTypes'
  BY <1>1, <1>r DEF Emit, RoundTypes
<1>2. ASSUME NEW a \in Answers(event), Answer(a) PROVE RoundTypes'
  <2> DEFINE i == Len(answers) + 1
  <2>1. i \in 1 .. MaxHandlers
    <3>1. Len(answers) \in Nat /\ handlers \in 0 .. MaxHandlers /\ i <= handlers
      BY <1>2 DEF RoundTypes, RunnerInv, RoundInv, Answer
    <3> QED BY <3>1
  <2>2. /\ carried' = Carry(i, a) /\ ended' = Ends(a) /\ current' = Patch(i, a)
        /\ modified' = (modified \/ a.fields # {})
        /\ UNCHANGED <<event, phase, handlers, tool, told, callAnswers, arguments>>
    BY <1>2 DEF Answer
  <2> HIDE DEF i
  <2>3. carried' \subseteq 1 .. MaxHandlers
    BY <2>1, <2>2 DEF Carry, RoundTypes
  <2>4. ended' \in {"no", "stop", "throw"}
    BY <2>2 DEF Ends
  <2>5. current' \in [Fields -> 0 .. MaxHandlers]
    <3>1. i \in 0 .. MaxHandlers
      BY <2>1
    <3> QED BY <2>2, <3>1 DEF Patch, RoundTypes
  <2>6. modified' \in BOOLEAN
    BY <2>2, Zenon DEF RoundTypes
  <2> QED BY <2>2, <2>3, <2>4, <2>5, <2>6 DEF RoundTypes
<1>3. CASE Return
  BY <1>3 DEF Return, RoundTypes
<1>4. CASE Refuse
  BY <1>4 DEF Refuse, RoundTypes, RunnerInv, RoundInv
<1>5. CASE Execute
  BY <1>5 DEF Execute, RoundTypes, RunnerInv, RoundInv
<1>6. CASE Tell
  <2>1. told' \in {told, [current EXCEPT !["isError"] = 0]}
    BY <1>6 DEF Tell
  <2>2. told' \in [Fields -> 0 .. MaxHandlers]
    BY <2>1 DEF RoundTypes
  <2> QED BY <1>6, <2>2 DEF Tell, RoundTypes
<1>7. ASSUME NEW outcome \in {"ok", "failed"}, ToolEnds(outcome) PROVE RoundTypes'
  BY <1>7, <1>r DEF ToolEnds
<1>8. CASE UNCHANGED runnerVars
  BY <1>8 DEF runnerVars, RoundTypes
<1> QED BY <1>1, <1>2, <1>3, <1>4, <1>5, <1>6, <1>7, <1>8 DEF RunnerNext

LEMMA RunnerTyped == ASSUME MaxHandlers \in Nat PROVE ServicesSpec => []RunnerTypeOK
<1>1. ServicesInit => RoundTypes /\ RunnerInv
  <2> SUFFICES ASSUME RunnerInit PROVE RoundTypes /\ RunnerInv
    BY DEF ServicesInit
  <2>1. \A S : <<>> \in Seq(S)
    OBVIOUS
  <2>2. callAnswers \in Seq(Answers("tool_call"))
    BY <2>1, Zenon DEF RunnerInit
  <2>3. current \in [Fields -> 0 .. MaxHandlers] /\ told \in [Fields -> 0 .. MaxHandlers]
    BY UntouchedTypes, Zenon DEF RunnerInit
  <2>4. /\ handlers = 0 /\ carried = {} /\ arguments = {} /\ event = "none" /\ phase = "idle"
        /\ ended = "no" /\ modified = FALSE /\ tool = "none"
    BY DEF RunnerInit
  <2>5. handlers \in 0 .. MaxHandlers /\ carried \subseteq 1 .. MaxHandlers
        /\ arguments \subseteq 1 .. MaxHandlers
    BY <2>4
  <2>6. RoundTypes
    BY <2>2, <2>3, <2>4, <2>5, Zenon DEF RoundTypes
  <2> QED BY <2>6, RunnerBegins
<1>2. [ServicesNext]_servicesVars => [RunnerNext]_runnerVars
  BY DEF ServicesNext, servicesVars, fourthVars
<1>3. RunnerInv /\ [RunnerNext]_runnerVars => RunnerInv'
  BY RunnerStep
<1>4. RunnerInv /\ RoundTypes /\ [RunnerNext]_runnerVars => RoundTypes'
  BY RoundTypesStep
<1>5. RunnerInv /\ RoundTypes => RunnerTypeOK
  BY DEF RunnerInv, RoundInv, RoundTypes, RunnerTypeOK
<1> QED BY <1>1, <1>2, <1>3, <1>4, <1>5, PTL DEF ServicesSpec

LEMMA AuthTyped == ASSUME AuthP!Names PROVE ServicesSpec => []Auth!TypeOK
<1>1. AuthP!TypeOK => Auth!TypeOK
  BY DEF AuthP!TypeOK, Auth!TypeOK
<1> QED BY <1>1, AuthMoves, AuthP!TypeTheorem, PTL

LEMMA SettingsTyped == ASSUME SettingNames PROVE ServicesSpec => []SettingsFile!TypeOK
  BY SettingsMove, SettingsTypeTheorem, PTL

\* The constants of all components are what MCServices takes them to be.
ServicesAssumption ==
  /\ Editors \intersect Writers = {} /\ None \notin Editors \union Writers
  /\ AuthP!Names /\ SettingNames /\ RpcNames /\ MomAssumption /\ StreamConstants
  /\ EventVersions \in Nat /\ RuntimeAssumption /\ SizesOK /\ MaxHandlers \in Nat
  /\ WebhookAssumption /\ PendingAssumption

\* Whichever component moves, its variables hold values of their kinds: what is pending was
\* sent, what is armed was scheduled, a branch that is shown exists, the output in the file
\* has arrived (ServicesTypeOK).
THEOREM ServicesTypeTheorem == ASSUME ServicesAssumption PROVE ServicesSpec => []ServicesTypeOK
<1> DEFINE All ==
      /\ Files!TypeOK /\ Auth!TypeOK /\ Client!TypeOK /\ Channel!TypeOK /\ Request!LazyTypeOK
      /\ SettingsFile!TypeOK /\ Watcher!TypeOK /\ Runtime!TypeOK /\ Bash!TypeOK /\ RunnerTypeOK
      /\ Webhook!TypeOK /\ Waiting!PendingTypeOK
<1>1. All => ServicesTypeOK
  BY DEF ServicesTypeOK
<1>2. ServicesSpec => []Files!TypeOK /\ []Auth!TypeOK /\ []Client!TypeOK /\ []Channel!TypeOK
  BY FilesTyped, AuthTyped, ClientTyped, MomTyped DEF ServicesAssumption
<1>3. ServicesSpec
            => []Request!LazyTypeOK /\ []SettingsFile!TypeOK /\ []Watcher!TypeOK /\ []Runtime!TypeOK
  BY RequestTyped, SettingsTyped, WatcherTyped, RuntimeTyped DEF ServicesAssumption
<1>4. ServicesSpec => []Bash!TypeOK /\ []RunnerTypeOK /\ []Webhook!TypeOK /\ []Waiting!PendingTypeOK
  BY BashTyped, RunnerTyped, WebhookTyped, WaitTyped DEF ServicesAssumption
<1> QED BY <1>1, <1>2, <1>3, <1>4, PTL
=============================================================================

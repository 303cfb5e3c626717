-------------------------- MODULE ComponentProofs --------------------------
(***************************************************************************)
(* Theorems about three components that keep their state in the memory of  *)
(* one process: FileMutationQueue for any number of callers and keys (they *)
(* assume only that None is not a caller), EventStream for any events and  *)
(* any number of consumers, ExtensionRunner for any number of handlers.    *)
(***************************************************************************)
EXTENDS FileMutationQueue, EventStream, ExtensionRunner, Compaction, SequenceTheorems,
        FiniteSetTheorems, TLAPS

----------------------------------------------------------------------------
(* The queue of mutations. *)

IInv == TypeOK /\ ChainInv

\* Nothing waits and nothing is in the map before the first call.
LEMMA InitChain == ASSUME None \notin Callers PROVE Init => IInv
<1>. SUFFICES ASSUME Init PROVE IInv
  OBVIOUS
<1>1. TypeOK
  BY DEF Init, TypeOK
<1>2. Tickets
  BY DEF Init, Tickets
<1>3. Chained
  BY DEF Init, Chained, Present
<1>4. LastInMap
  BY DEF Init, LastInMap, Present
<1>. QED
  BY <1>1, <1>2, <1>3, <1>4 DEF IInv, ChainInv

\* A new caller goes behind the one the map names, and into the map.
LEMMA CallChain ==
  ASSUME None \notin Callers, IInv, NEW a \in Callers, NEW k \in Keys, Call(a, k)
  PROVE  IInv'
<1>. USE DEF IInv, ChainInv
<1>1. TypeOK'
  BY DEF TypeOK, Call
<1>2. /\ stage[a] = "new"
      /\ stage' = [stage EXCEPT ![a] = "waiting"]
      /\ key' = [key EXCEPT ![a] = k]
      /\ currentQueue' = [currentQueue EXCEPT ![a] = fileMutationQueues[k]]
      /\ fileMutationQueues' = [fileMutationQueues EXCEPT ![k] = a]
      /\ tickets' = tickets + 1
      /\ ticket' = [ticket EXCEPT ![a] = tickets + 1]
  BY DEF Call
<1>3. /\ ~Present(a) /\ Present(a)'
      /\ \A c \in Callers : ticket[c] < ticket'[a]
      /\ \A c \in Callers \ {a} :
           /\ (Present(c)' <=> Present(c)) /\ stage'[c] = stage[c]
           /\ key'[c] = key[c] /\ ticket'[c] = ticket[c]
           /\ currentQueue'[c] = currentQueue[c]
  BY <1>2 DEF TypeOK, Tickets, Present
<1>4. Tickets'
  BY <1>2, <1>3 DEF TypeOK, Tickets
<1>5. Chained'
  <2>. SUFFICES ASSUME NEW c \in Callers, NEW d \in Callers,
                       Present(c)', Present(d)', key'[c] = key'[d], ticket'[c] < ticket'[d]
                PROVE  /\ stage'[d] = "waiting" /\ currentQueue'[d] # None
                       /\ Present(currentQueue[d])' /\ key'[currentQueue'[d]] = key'[c]
                       /\ ticket'[c] <= ticket'[currentQueue'[d]]
                       /\ ticket'[currentQueue'[d]] < ticket'[d]
    BY DEF Chained, Present
  <2>1. c # a
    BY <1>1, <1>3 DEF TypeOK
  <2>2. CASE d = a
    <3>1. key[c] = k /\ Present(c)
      BY <1>2, <1>3, <2>1, <2>2 DEF TypeOK
    <3>2. /\ currentQueue'[a] = fileMutationQueues[k]
          /\ fileMutationQueues[k] # None /\ fileMutationQueues[k] \in Callers
          /\ Present(fileMutationQueues[k]) /\ key[fileMutationQueues[k]] = k
          /\ ticket[c] <= ticket[fileMutationQueues[k]]
      BY <1>2, <3>1 DEF TypeOK, LastInMap
    <3>3. fileMutationQueues[k] # a
      BY <1>3, <3>2
    <3>. QED
      BY <1>2, <1>3, <2>1, <2>2, <3>1, <3>2, <3>3 DEF TypeOK, Present
  <2>3. CASE d # a
    <3>1. /\ stage[d] = "waiting" /\ currentQueue[d] # None
          /\ Present(currentQueue[d]) /\ key[currentQueue[d]] = key[c]
          /\ ticket[c] <= ticket[currentQueue[d]] /\ ticket[currentQueue[d]] < ticket[d]
      BY <1>3, <2>1, <2>3 DEF Chained
    <3>2. currentQueue[d] \in Callers \ {a}
      BY <1>3, <3>1 DEF TypeOK
    <3>. QED
      BY <1>3, <2>1, <2>3, <3>1, <3>2 DEF Present
  <2>. QED
    BY <2>2, <2>3
<1>6. LastInMap'
  <2>. SUFFICES ASSUME NEW j \in Keys
                PROVE  /\ fileMutationQueues'[j] # None =>
                            Present(fileMutationQueues[j])' /\ key'[fileMutationQueues'[j]] = j
                       /\ \A c \in Callers :
                            Present(c)' /\ key'[c] = j =>
                              /\ fileMutationQueues'[j] # None
                              /\ ticket'[c] <= ticket'[fileMutationQueues'[j]]
    BY DEF LastInMap, Present
  <2>1. CASE j = k
    BY <1>2, <1>3, <2>1 DEF TypeOK, Present
  <2>2. CASE j # k
    <3>1. fileMutationQueues'[j] = fileMutationQueues[j] /\ key'[a] # j
      BY <1>2, <2>2 DEF TypeOK
    <3>2. fileMutationQueues[j] # None => fileMutationQueues[j] \in Callers \ {a}
      BY <1>3 DEF TypeOK, LastInMap
    <3>. QED
      BY <1>3, <3>1, <3>2 DEF LastInMap, Present
  <2>. QED
    BY <2>1, <2>2
<1>. QED
  BY <1>1, <1>4, <1>5, <1>6

\* Whoever enters has nobody before it.
LEMMA EnterChain ==
  ASSUME None \notin Callers, IInv, NEW a \in Callers, Enter(a)
  PROVE  IInv'
<1>. USE DEF IInv, ChainInv
<1>1. TypeOK'
  BY DEF TypeOK, Enter
<1>2. /\ stage[a] = "waiting" /\ stage' = [stage EXCEPT ![a] = "inside"]
      /\ currentQueue[a] # None => ~Present(currentQueue[a])
      /\ UNCHANGED <<fileMutationQueues, currentQueue, key, ticket, tickets>>
  BY DEF Enter, MayEnter, Present
<1>3. \A c \in Callers : (Present(c)' <=> Present(c)) /\ (stage'[c] = "new" <=> stage[c] = "new")
  BY <1>2 DEF TypeOK, Present
<1>4. Tickets'
  BY <1>2, <1>3 DEF Tickets
<1>5. \A c \in Callers : Present(c) /\ key[c] = key[a] => ~(ticket[c] < ticket[a])
  BY <1>2 DEF Chained, Present
<1>6. Chained'
  <2>. SUFFICES ASSUME NEW c \in Callers, NEW d \in Callers,
                       Present(c)', Present(d)', key[c] = key[d], ticket[c] < ticket[d]
                PROVE  /\ stage'[d] = "waiting" /\ currentQueue[d] # None
                       /\ Present(currentQueue[d])' /\ key[currentQueue[d]] = key[c]
                       /\ ticket[c] <= ticket[currentQueue[d]]
                       /\ ticket[currentQueue[d]] < ticket[d]
    BY <1>2 DEF Chained, Present
  <2>1. d # a
    BY <1>3, <1>5
  <2>. QED
    BY <1>2, <1>3, <2>1 DEF Chained, TypeOK
<1>7. LastInMap'
  BY <1>2, <1>3 DEF LastInMap, TypeOK, Present
<1>. QED
  BY <1>1, <1>4, <1>6, <1>7

\* Whoever leaves was the first of its key, so nobody's link breaks, and if the
\* map names it nobody else is present.
LEMMA LeaveChain ==
  ASSUME None \notin Callers, IInv, NEW a \in Callers, Leave(a)
  PROVE  IInv'
<1>. USE DEF IInv, ChainInv
<1>1. TypeOK'
  BY DEF TypeOK, Leave
<1>2. /\ stage[a] = "inside" /\ stage' = [stage EXCEPT ![a] = "left"]
      /\ fileMutationQueues' =
           [fileMutationQueues EXCEPT ![key[a]] = IF fileMutationQueues[key[a]] = a THEN None
                                                  ELSE fileMutationQueues[key[a]]]
      /\ UNCHANGED <<currentQueue, key, ticket, tickets>>
  BY DEF Leave
<1>3. /\ ~Present(a)' /\ Present(a)
      /\ \A c \in Callers \ {a} : (Present(c)' <=> Present(c)) /\ stage'[c] = stage[c]
  BY <1>2 DEF TypeOK, Present
<1>4. Tickets'
  BY <1>2 DEF Tickets, TypeOK
<1>5. \A c \in Callers \ {a} : Present(c) /\ key[c] = key[a] => ticket[a] < ticket[c]
  <2>. SUFFICES ASSUME NEW c \in Callers \ {a}, Present(c), key[c] = key[a]
                PROVE  ticket[a] < ticket[c]
    OBVIOUS
  <2>1. ~(ticket[c] < ticket[a])
    BY <1>2, <1>3 DEF Chained
  <2>2. ticket[c] # ticket[a]
    BY <1>2 DEF Tickets
  <2>. QED
    BY <2>1, <2>2 DEF TypeOK
<1>6. Chained'
  <2>. SUFFICES ASSUME NEW c \in Callers, NEW d \in Callers,
                       Present(c)', Present(d)', key[c] = key[d], ticket[c] < ticket[d]
                PROVE  /\ stage'[d] = "waiting" /\ currentQueue[d] # None
                       /\ Present(currentQueue[d])' /\ key[currentQueue[d]] = key[c]
                       /\ ticket[c] <= ticket[currentQueue[d]]
                       /\ ticket[currentQueue[d]] < ticket[d]
    BY <1>2 DEF Chained, Present
  <2>1. c # a /\ d # a /\ Present(c) /\ Present(d)
    BY <1>3
  <2>2. /\ stage[d] = "waiting" /\ currentQueue[d] # None
        /\ Present(currentQueue[d]) /\ key[currentQueue[d]] = key[c]
        /\ ticket[c] <= ticket[currentQueue[d]] /\ ticket[currentQueue[d]] < ticket[d]
    BY <2>1 DEF Chained
  <2>3. currentQueue[d] \in Callers
    BY <2>2 DEF TypeOK
  <2>4. currentQueue[d] # a
    BY <1>5, <2>1, <2>2 DEF TypeOK
  <2>. QED
    BY <1>2, <1>3, <2>1, <2>2, <2>3, <2>4
<1>7. LastInMap'
  <2>. SUFFICES ASSUME NEW k \in Keys
                PROVE  /\ fileMutationQueues'[k] # None =>
                            Present(fileMutationQueues[k])' /\ key[fileMutationQueues'[k]] = k
                       /\ \A c \in Callers :
                            Present(c)' /\ key[c] = k =>
                              /\ fileMutationQueues'[k] # None
                              /\ ticket[c] <= ticket[fileMutationQueues'[k]]
    BY <1>2 DEF LastInMap, Present
  <2>1. CASE fileMutationQueues[k] = a
    <3>1. key[a] = k
      BY <2>1 DEF LastInMap
    <3>2. fileMutationQueues'[k] = None
      BY <1>2, <2>1, <3>1 DEF TypeOK
    <3>3. \A c \in Callers : ~(Present(c)' /\ key[c] = k)
      BY <1>3, <1>5, <2>1, <3>1 DEF LastInMap, TypeOK
    <3>. QED
      BY <3>2, <3>3
  <2>2. CASE fileMutationQueues[k] # a
    <3>1. fileMutationQueues'[k] = fileMutationQueues[k]
      BY <1>2, <2>2 DEF TypeOK
    <3>2. fileMutationQueues[k] # None => fileMutationQueues[k] \in Callers \ {a}
      BY <2>2 DEF TypeOK
    <3>. QED
      BY <1>3, <3>1, <3>2 DEF LastInMap, Present
  <2>. QED
    BY <2>1, <2>2
<1>. QED
  BY <1>1, <1>4, <1>6, <1>7

\* IInv is inductive.
LEMMA ChainStep == ASSUME None \notin Callers PROVE IInv /\ [Next]_vars => IInv'
<1>. SUFFICES ASSUME IInv, [Next]_vars PROVE IInv'
  OBVIOUS
<1>1. ASSUME NEW c \in Callers, NEW k \in Keys, Call(c, k) PROVE IInv'
  BY <1>1, CallChain
<1>2. ASSUME NEW c \in Callers, Enter(c) PROVE IInv'
  BY <1>2, EnterChain
<1>3. ASSUME NEW c \in Callers, Leave(c) PROVE IInv'
  BY <1>3, LeaveChain
<1>4. CASE UNCHANGED vars
  BY <1>4 DEF vars, IInv, TypeOK, ChainInv, Tickets, Chained, LastInMap, Present
<1>. QED
  BY <1>1, <1>2, <1>3, <1>4 DEF Next

\* Of two callers with one key the one with the earlier ticket is the one inside.
LEMMA ChainInTurn == ASSUME IInv PROVE InTurn
<1>. USE DEF IInv, TypeOK, ChainInv
<1>. SUFFICES ASSUME NEW c \in Callers, NEW d \in Callers, stage[c] = "inside", Present(d),
                     key[c] = key[d], c # d
              PROVE  stage[d] = "waiting" /\ ticket[c] < ticket[d]
  BY DEF InTurn
<1>1. ~(ticket[d] < ticket[c])
  BY DEF Chained, Present
<1>2. ticket[c] # ticket[d]
  BY DEF Tickets
<1>3. ticket[c] < ticket[d]
  BY <1>1, <1>2
<1>. QED
  BY <1>3 DEF Chained, Present

\* The map names a caller that is present, or nobody when nobody is.
LEMMA LastForgets == ASSUME None \notin Callers, IInv PROVE MapForgets
<1>. SUFFICES ASSUME NEW k \in Keys
     PROVE fileMutationQueues[k] = None <=> \A c \in Callers : Present(c) => key[c] # k
  BY DEF MapForgets
<1>1. fileMutationQueues[k] \in Callers \union {None}
  BY DEF IInv, TypeOK
<1>. QED
  BY <1>1 DEF IInv, ChainInv, LastInMap

\* TypeOK and ChainInv hold in every reachable state of withFileMutationQueue.
THEOREM ChainTheorem == ASSUME None \notin Callers PROVE Spec => []IInv
<1>1. Init => IInv
  BY InitChain
<1>2. IInv /\ [Next]_vars => IInv'
  BY ChainStep
<1>. QED
  BY <1>1, <1>2, PTL DEF Spec

\* Two mutations of one file never run at the same time, and they run in the
\* order in which they were asked for.
THEOREM InTurnTheorem == ASSUME None \notin Callers PROVE Spec => []InTurn
<1>1. IInv => InTurn
  BY ChainInTurn
<1>. QED
  BY <1>1, ChainTheorem, PTL

\* The map has an entry for a file exactly while a mutation of it is under way.
THEOREM MapTheorem == ASSUME None \notin Callers PROVE Spec => []MapForgets
<1>1. IInv => MapForgets
  BY LastForgets
<1>. QED
  BY <1>1, ChainTheorem, PTL

----------------------------------------------------------------------------
(* The stream of events: for any order of push, end and next, what was handed *)
(* out followed by what is queued is what was pushed.                         *)

\* A sequence is its head and its tail.
LEMMA HeadAndTail ==
  ASSUME NEW S, NEW t \in Seq(S), t # <<>>
  PROVE  t = <<Head(t)>> \o Tail(t)
<1> DEFINE u == <<Head(t)>> \o Tail(t)
<1>1. /\ Head(t) \in S /\ Tail(t) \in Seq(S)
      /\ Len(Tail(t)) = Len(t) - 1
      /\ \A i \in 1 .. Len(Tail(t)) : Tail(t)[i] = t[i + 1]
  BY HeadTailProperties
<1>2. <<Head(t)>> \in Seq(S) /\ Len(<<Head(t)>>) = 1 /\ <<Head(t)>>[1] = t[1]
  BY <1>1
<1>3. Len(t) \in Nat
  BY LenProperties
<1>4. /\ u \in Seq(S) /\ Len(u) = Len(t)
      /\ \A i \in 1 .. Len(t) : u[i] = IF i <= 1 THEN <<Head(t)>>[i] ELSE Tail(t)[i - 1]
  BY <1>1, <1>2, <1>3, ConcatProperties
<1>5. \A i \in 1 .. Len(t) : t[i] = u[i]
  BY <1>1, <1>2, <1>3, <1>4
<1> HIDE DEF u
<1>6. t = u
  BY <1>4, <1>5, SeqEqual
<1> QED BY <1>6 DEF u

\* The first of a sequence moved to the end of another: the two together stay.
LEMMA MoveHead ==
  ASSUME NEW S, NEW s \in Seq(S), NEW t \in Seq(S), t # <<>>
  PROVE  Append(s, Head(t)) \o Tail(t) = s \o t
<1>1. Head(t) \in S /\ Tail(t) \in Seq(S) /\ t = <<Head(t)>> \o Tail(t)
  BY HeadTailProperties, HeadAndTail
<1>2. Append(s, Head(t)) = s \o <<Head(t)>>
  BY <1>1, AppendIsConcat
<1>3. <<Head(t)>> \in Seq(S)
  BY <1>1
<1>4. (s \o <<Head(t)>>) \o Tail(t) = s \o (<<Head(t)>> \o Tail(t))
  BY <1>1, <1>3, ConcatAssociative
<1> QED BY <1>1, <1>2, <1>4

\* An element appended to the second of two is appended to the two together.
LEMMA AppendToSecond ==
  ASSUME NEW S, NEW s \in Seq(S), NEW t \in Seq(S), NEW e \in S
  PROVE  s \o Append(t, e) = Append(s \o t, e)
<1>1. s \o t \in Seq(S) /\ <<e>> \in Seq(S)
  BY ConcatProperties
<1>2. Append(t, e) = t \o <<e>> /\ Append(s \o t, e) = (s \o t) \o <<e>>
  BY <1>1, AppendIsConcat
<1> QED BY <1>1, <1>2, ConcatAssociative

\* The typing is an invariant.
LEMMA TypesInit == StreamInit => StreamTypeOK
BY EmptySeq DEF StreamInit, StreamTypeOK

\* Handing out an event keeps the types of the three variables it changes.
LEMMA GiveTypes ==
  ASSUME StreamTypeOK, NEW c \in Consumers, NEW e \in StreamEvents, Give(c, e)
  PROVE  /\ at' \in [Consumers -> {"idle", "waiting", "holding", "returned"}]
         /\ held' \in [Consumers -> StreamEvents \union {Unresolved}]
         /\ given' \in Seq(StreamEvents)
BY DEF StreamTypeOK, Give

\* Producer, consumers and the result of the stream keep the types.
LEMMA TypesStep == StreamTypeOK /\ [StreamNext]_streamVars => StreamTypeOK'
<1> SUFFICES ASSUME StreamTypeOK, [StreamNext]_streamVars PROVE StreamTypeOK'
  OBVIOUS
<1> USE DEF StreamTypeOK
<1>1. ASSUME NEW e \in StreamEvents, Push(e) PROVE StreamTypeOK'
  <2>1. CASE done
    BY <1>1, <2>1 DEF Push, streamVars
  <2>2. CASE ~done /\ waiting # <<>>
    <3>1. Head(waiting) \in Consumers /\ Tail(waiting) \in Seq(Consumers)
      BY <2>2, HeadTailProperties
    <3>2. Give(Head(waiting), e) /\ waiting' = Tail(waiting) /\ UNCHANGED queue
      BY <1>1, <2>2 DEF Push, PushOpen
    <3>3. done' \in BOOLEAN /\ result' \in StreamEvents \union {Unresolved}
      BY <1>1, <2>2 DEF Push, PushOpen, Resolve
    <3>4. accepted' \in Seq(StreamEvents)
      BY <1>1, <2>2 DEF Push, PushOpen
    <3> QED BY <3>1, <3>2, <3>3, <3>4, GiveTypes
  <2>3. CASE ~done /\ waiting = <<>>
    <3>1. queue' = Append(queue, e) /\ accepted' = Append(accepted, e)
          /\ UNCHANGED <<waiting, at, held, given>>
      BY <1>1, <2>3 DEF Push, PushOpen
    <3>2. done' \in BOOLEAN /\ result' \in StreamEvents \union {Unresolved}
      BY <1>1, <2>3 DEF Push, PushOpen, Resolve
    <3> QED BY <3>1, <3>2
  <2> QED BY <2>1, <2>2, <2>3
<1>2. ASSUME NEW r \in StreamEvents \union {Unresolved}, End(r) PROVE StreamTypeOK'
  BY <1>2 DEF End, Resolve
<1>3. ASSUME NEW c \in Consumers, Ask(c) PROVE StreamTypeOK'
  <2>1. CASE queue # <<>>
    <3>1. Head(queue) \in StreamEvents /\ Tail(queue) \in Seq(StreamEvents)
      BY <2>1, HeadTailProperties
    <3>2. Give(c, Head(queue)) /\ queue' = Tail(queue)
          /\ UNCHANGED <<waiting, done, result, accepted>>
      BY <1>3, <2>1 DEF Ask
    <3> QED BY <3>1, <3>2, GiveTypes
  <2>2. CASE queue = <<>> /\ done
    BY <1>3, <2>2 DEF Ask
  <2>3. CASE queue = <<>> /\ ~done
    <3>1. at' = [at EXCEPT ![c] = "waiting"] /\ waiting' = Append(waiting, c)
          /\ UNCHANGED <<queue, done, result, held, accepted, given>>
      BY <1>3, <2>3 DEF Ask
    <3>2. waiting' \in Seq(Consumers)
      BY <3>1, AppendProperties
    <3> QED BY <3>1, <3>2
  <2> QED BY <2>1, <2>2, <2>3
<1>4. ASSUME NEW c \in Consumers, LeaveLoop(c) PROVE StreamTypeOK'
  BY <1>4 DEF LeaveLoop
<1>5. CASE UNCHANGED streamVars
  BY <1>5 DEF streamVars
<1> QED BY <1>1, <1>2, <1>3, <1>4, <1>5 DEF StreamNext

\* Nothing is delivered at first.
LEMMA DeliveryInit == StreamInit => DeliveryInv
BY DEF StreamInit, DeliveryInv, InOrder, WaitingForMore

\* No step hands an event out twice, or out of order, or holds one back.
LEMMA DeliveryStep == StreamTypeOK /\ DeliveryInv /\ [StreamNext]_streamVars => DeliveryInv'
<1> SUFFICES ASSUME StreamTypeOK, DeliveryInv, [StreamNext]_streamVars PROVE DeliveryInv'
  OBVIOUS
<1> USE DEF DeliveryInv
<1>1. ASSUME NEW e \in StreamEvents, Push(e) PROVE DeliveryInv'
  <2>1. CASE done
    BY <1>1, <2>1 DEF Push, streamVars, InOrder, WaitingForMore
  <2>2. CASE ~done /\ waiting # <<>>
    <3>1. queue = <<>> /\ queue' = <<>>
      BY <1>1, <2>2 DEF Push, PushOpen, WaitingForMore
    <3>2. given' = Append(given, e) /\ accepted' = Append(accepted, e)
      BY <1>1, <2>2 DEF Push, PushOpen, Give
    <3>3. given = accepted
      BY <3>1, ConcatEmptySeq DEF InOrder, StreamTypeOK
    <3>4. given' \in Seq(StreamEvents)
      BY <3>2 DEF StreamTypeOK
    <3>5. given' \o queue' = accepted'
      BY <3>1, <3>2, <3>3, <3>4, ConcatEmptySeq
    <3> QED BY <3>1, <3>5 DEF InOrder, WaitingForMore
  <2>3. CASE ~done /\ waiting = <<>>
    <3>1. queue' = Append(queue, e) /\ accepted' = Append(accepted, e)
          /\ waiting' = <<>> /\ given' = given
      BY <1>1, <2>3 DEF Push, PushOpen
    <3>2. given \o Append(queue, e) = Append(given \o queue, e)
      BY AppendToSecond DEF StreamTypeOK
    <3> QED BY <3>1, <3>2 DEF InOrder, WaitingForMore
  <2> QED BY <2>1, <2>2, <2>3
<1>2. ASSUME NEW r \in StreamEvents \union {Unresolved}, End(r) PROVE DeliveryInv'
  BY <1>2 DEF End, InOrder, WaitingForMore
<1>3. ASSUME NEW c \in Consumers, Ask(c) PROVE DeliveryInv'
  <2>1. CASE queue # <<>>
    <3>1. given' = Append(given, Head(queue)) /\ queue' = Tail(queue)
          /\ waiting' = waiting /\ accepted' = accepted
      BY <1>3, <2>1 DEF Ask, Give
    <3>2. waiting' = <<>>
      BY <2>1, <3>1 DEF WaitingForMore
    <3>3. Append(given, Head(queue)) \o Tail(queue) = given \o queue
      BY <2>1, MoveHead DEF StreamTypeOK
    <3> QED BY <3>1, <3>2, <3>3 DEF InOrder, WaitingForMore
  <2>2. CASE queue = <<>>
    BY <1>3, <2>2 DEF Ask, InOrder, WaitingForMore
  <2> QED BY <2>1, <2>2
<1>4. ASSUME NEW c \in Consumers, LeaveLoop(c) PROVE DeliveryInv'
  BY <1>4 DEF LeaveLoop, InOrder, WaitingForMore
<1>5. CASE UNCHANGED streamVars
  BY <1>5 DEF streamVars, InOrder, WaitingForMore
<1> QED BY <1>1, <1>2, <1>3, <1>4, <1>5 DEF StreamNext

(* EventStream delivers every event pushed before its end once and in order.    *)
THEOREM DeliveryTheorem == StreamSpec => []InOrder
<1>1. StreamInit => StreamTypeOK /\ DeliveryInv
  BY TypesInit, DeliveryInit
<1>2. (StreamTypeOK /\ DeliveryInv) /\ [StreamNext]_streamVars => (StreamTypeOK /\ DeliveryInv)'
  BY TypesStep, DeliveryStep
<1>3. StreamTypeOK /\ DeliveryInv => InOrder
  BY DEF DeliveryInv
<1> QED BY <1>1, <1>2, <1>3, PTL DEF StreamSpec

----------------------------------------------------------------------------
(* A stream with one consumer, which ends with a final event *)

\* What the one consumer waits for and what it was given last.
Alone(c) ==
  /\ waiting = IF at[c] = "waiting" THEN <<c>> ELSE <<>>
  /\ at[c] = "holding" => given # <<>> /\ held[c] = given[Len(given)]
  /\ at[c] = "returned" => done /\ queue = <<>>

\* A final event is the last, ends the stream and is its result.
Final ==
  /\ \A i \in 1 .. Len(accepted) : accepted[i] \in FinalEvents => i = Len(accepted)
  /\ done <=> accepted # <<>> /\ accepted[Len(accepted)] \in FinalEvents
  /\ result = IF done THEN accepted[Len(accepted)] ELSE Unresolved

AloneInv(c) == StreamTypeOK /\ DeliveryInv /\ Alone(c) /\ Final

\* It has neither consumer nor event at first.
LEMMA AloneInit == ASSUME NEW c, Consumers = {c} PROVE StreamInit => AloneInv(c)
  BY TypesInit, DeliveryInit DEF StreamInit, AloneInv, Alone, Final

\* The last of a sequence that was appended to.
LEMMA LastOfAppend ==
  ASSUME NEW S, NEW s \in Seq(S), NEW e \in S
  PROVE  /\ Append(s, e) # <<>> /\ Append(s, e)[Len(Append(s, e))] = e
         /\ Len(Append(s, e)) = Len(s) + 1 /\ Len(s) \in Nat
         /\ \A i \in 1 .. Len(s) : Append(s, e)[i] = s[i]
  OBVIOUS

\* Who has been given the final event has been given everything.
LEMMA FinalGiven ==
  ASSUME StreamTypeOK, DeliveryInv, Final, given # <<>>, given[Len(given)] \in FinalEvents
  PROVE  given = accepted /\ queue = <<>> /\ done /\ result = given[Len(given)]
<1>1. given \in Seq(StreamEvents) /\ queue \in Seq(StreamEvents) /\ given \o queue = accepted
  BY DEF StreamTypeOK, DeliveryInv, InOrder
<1>2. /\ Len(given) \in 1 .. Len(accepted) /\ accepted[Len(given)] = given[Len(given)]
      /\ Len(accepted) = Len(given) + Len(queue)
  BY <1>1
<1>3. Len(given) = Len(accepted)
  BY <1>2 DEF Final
<1>4. queue = <<>>
  BY <1>1, <1>2, <1>3
<1>5. given = accepted
  BY <1>1, <1>4, ConcatEmptySeq
<1> QED BY <1>4, <1>5 DEF Final

\* What a push does to the events accepted and given.
LEMMA Pushed ==
  ASSUME NEW c, Consumers = {c}, AloneInv(c), NEW e \in StreamEvents, Push(e)
  PROVE  /\ accepted' = IF done THEN accepted ELSE Append(accepted, e)
         /\ \/ UNCHANGED <<at, held, given>>
            \/ at'[c] = "holding" /\ held'[c] = e /\ given' = Append(given, e) /\ at[c] = "waiting"
  BY DEF AloneInv, Alone, StreamTypeOK, Push, PushOpen, Give, streamVars

\* What asking does to them.
LEMMA Asked ==
  ASSUME NEW c, Consumers = {c}, AloneInv(c), Ask(c)
  PROVE  /\ accepted' = accepted /\ done' = done /\ result' = result
         /\ \/ /\ at'[c] = "holding" /\ given' = Append(given, held'[c])
               /\ held'[c] \in StreamEvents
            \/ at'[c] \in {"waiting", "returned"} /\ given' = given /\ queue' = <<>>
<1>1. at \in [Consumers -> {"idle", "waiting", "holding", "returned"}] /\ DOMAIN held = Consumers
  BY DEF AloneInv, StreamTypeOK
<1>2. CASE queue # <<>>
  BY <1>1, <1>2, HeadTailProperties DEF Ask, Give, AloneInv, StreamTypeOK
<1> QED BY <1>1, <1>2 DEF Ask

\* Its steps keep all this.
LEMMA AloneStep ==
  ASSUME NEW c, Consumers = {c}, Unresolved \notin StreamEvents, FinalEvents \subseteq StreamEvents,
         AloneInv(c),
         \/ \E e \in StreamEvents : Push(e)
         \/ Ask(c) \/ (LeaveLoop(c) /\ held[c] \in FinalEvents)
         \/ (End(Unresolved) /\ done) \/ UNCHANGED streamVars
  PROVE  AloneInv(c)'
<1>1. StreamTypeOK' /\ DeliveryInv'
  BY TypesStep, DeliveryStep DEF StreamNext, AloneInv
<1>2. /\ at \in [Consumers -> {"idle", "waiting", "holding", "returned"}]
      /\ held \in [Consumers -> StreamEvents \union {Unresolved}]
      /\ accepted \in Seq(StreamEvents) /\ given \in Seq(StreamEvents) /\ queue \in Seq(StreamEvents)
  BY DEF AloneInv, StreamTypeOK
<1>3. ASSUME NEW e \in StreamEvents, Push(e) PROVE Alone(c)' /\ Final'
  <2>1. CASE done
    BY <1>3, <2>1 DEF Push, streamVars, AloneInv, Alone, Final
  <2>2. CASE ~done
    <3>1. /\ done' = (e \in FinalEvents) /\ accepted' = Append(accepted, e)
          /\ result' = IF e \in FinalEvents THEN e ELSE Unresolved
      BY <1>3, <2>2 DEF Push, PushOpen, Resolve, AloneInv, Final
    <3>2. /\ accepted' # <<>> /\ accepted'[Len(accepted')] = e /\ Len(accepted') = Len(accepted) + 1
          /\ Len(accepted) \in Nat /\ \A i \in 1 .. Len(accepted) : accepted'[i] = accepted[i]
      BY <1>2, <3>1, LastOfAppend
    <3>3. \A i \in 1 .. Len(accepted) : accepted[i] \notin FinalEvents
      <4> SUFFICES ASSUME NEW i \in 1 .. Len(accepted), accepted[i] \in FinalEvents PROVE FALSE
        OBVIOUS
      <4>1. i = Len(accepted) /\ accepted # <<>>
        BY <1>2 DEF AloneInv, Final
      <4> QED BY <2>2, <4>1 DEF AloneInv, Final
    <3>4. Final'
      <4>1. \A i \in 1 .. Len(accepted') : i = Len(accepted') \/ i \in 1 .. Len(accepted)
        BY <3>2
      <4>2. \A i \in 1 .. Len(accepted') : accepted'[i] \in FinalEvents => i = Len(accepted')
        BY <3>2, <3>3, <4>1
      <4> QED BY <3>1, <3>2, <4>2 DEF Final
    <3>5. CASE at[c] = "waiting"
      <4>1. /\ waiting = <<c>> /\ waiting' = <<>> /\ at'[c] = "holding" /\ held'[c] = e
            /\ given' = Append(given, e)
        BY <1>2, <1>3, <2>2, <3>5 DEF Push, PushOpen, Give, AloneInv, Alone
      <4> QED BY <1>2, <3>4, <4>1, LastOfAppend DEF Alone
    <3>6. CASE at[c] # "waiting"
      BY <1>3, <2>2, <3>4, <3>6 DEF Push, PushOpen, AloneInv, Alone
    <3> QED BY <3>5, <3>6
  <2> QED BY <2>1, <2>2
<1>4. ASSUME Ask(c) PROVE Alone(c)' /\ Final'
  <2>1. Final'
    BY <1>4 DEF Ask, AloneInv, Final
  <2>2. CASE queue # <<>>
    <3>1. /\ at'[c] = "holding" /\ held'[c] = Head(queue) /\ given' = Append(given, Head(queue))
          /\ waiting' = waiting /\ at[c] # "waiting" /\ Head(queue) \in StreamEvents
      BY <1>2, <1>4, <2>2, HeadTailProperties DEF Ask, Give
    <3> QED BY <1>2, <2>1, <3>1, LastOfAppend DEF Alone, AloneInv
  <2>3. CASE queue = <<>>
    BY <1>2, <1>4, <2>1, <2>3 DEF Ask, Alone, AloneInv
  <2> QED BY <2>2, <2>3
<1>5. ASSUME LeaveLoop(c), held[c] \in FinalEvents PROVE Alone(c)' /\ Final'
  <2>1. given # <<>> /\ given[Len(given)] \in FinalEvents
    BY <1>5 DEF LeaveLoop, AloneInv, Alone
  <2>2. queue = <<>> /\ done
    BY <2>1, FinalGiven DEF AloneInv
  <2> QED BY <1>2, <1>5, <2>2 DEF LeaveLoop, AloneInv, Alone, Final
<1>6. ASSUME End(Unresolved), done PROVE Alone(c)' /\ Final'
  <2>1. at[c] = "waiting" => queue = <<>>
    BY DEF AloneInv, Alone, DeliveryInv, WaitingForMore
  <2>2. result # Unresolved
    BY <1>2, <1>6 DEF AloneInv, Final
  <2> QED BY <1>2, <1>6, <2>1, <2>2 DEF End, Resolve, AloneInv, Alone, Final
<1>7. ASSUME UNCHANGED streamVars PROVE Alone(c)' /\ Final'
  BY <1>7 DEF streamVars, AloneInv, Alone, Final
<1> QED BY <1>1, <1>3, <1>4, <1>5, <1>6, <1>7 DEF AloneInv

----------------------------------------------------------------------------
(* The rounds of extension handlers: whatever the handlers answer and however *)
(* many there are, they are heeded.  RunnerInv is inductive.                  *)

\* A handler of tool_call that neither blocks nor fails answers nothing.
LEMMA AgreesByNothing ==
  ASSUME NEW a \in Answers("tool_call"), a.does # "stop", a.does # "throw"
  PROVE  a.does = "nothing"
  BY DEF Answers

\* A new round is empty: nobody has changed anything.
LEMMA RoundStep == ASSUME NEW e, Round(e), MaxHandlers \in Nat PROVE RoundInv'
<1>1. answers' = <<>> /\ DOMAIN answers' = {} /\ Len(answers') = 0
  BY DEF Round
<1>2. handlers' \in Nat
  BY DEF Round
<1>3. answers' \in Seq(Answers(event'))
  BY <1>1
<1>4. \A f \in Fields : IsLastPatch(current'[f], f, answers')
  BY <1>1 DEF Round, Untouched, IsLastPatch
<1>5. current' \in [Fields -> Nat]
  BY DEF Round, Untouched
<1>6. carried' = {i \in DOMAIN answers' : Changes(event', answers'[i])}
  BY <1>1 DEF Round
<1>. QED
  BY <1>1, <1>2, <1>3, <1>4, <1>5, <1>6 DEF RoundInv

\* One more answer carries its change on, patches its fields and ends the round only
\* as itself.
LEMMA AnswerStep ==
  ASSUME RunnerInv, NEW a \in Answers(event), Answer(a)
  PROVE  RoundInv'
<1>. DEFINE n == Len(answers) + 1
<1>1. /\ answers \in Seq(Answers(event)) /\ answers' = Append(answers, a) /\ ended = "no"
      /\ event' = event /\ handlers' = handlers /\ n <= handlers /\ handlers \in Nat
  BY DEF RunnerInv, RoundInv, Answer
<1>2. /\ answers' \in Seq(Answers(event')) /\ Len(answers') = n /\ DOMAIN answers' = 1 .. n
      /\ DOMAIN answers = 1 .. n - 1 /\ n \in Nat \ {0}
      /\ answers'[n] = a /\ \A i \in 1 .. n - 1 : answers'[i] = answers[i]
  BY <1>1
<1>3. event' = "tool_call" /\ ended' = "no" => \A i \in DOMAIN answers' : answers'[i].does = "nothing"
  <2>1. SUFFICES ASSUME event = "tool_call", ended' = "no"
                 PROVE  \A i \in DOMAIN answers' : answers'[i].does = "nothing"
    BY <1>1
  <2>2. a.does # "stop" /\ a.does # "throw"
    BY <2>1 DEF Answer, Ends
  <2>3. a.does = "nothing"
    BY <2>1, <2>2, AgreesByNothing
  <2>. QED
    BY <1>1, <1>2, <2>1, <2>3 DEF RunnerInv, RoundInv
<1>4. event' \notin SessionBefore => carried' = {i \in DOMAIN answers' : Changes(event', answers'[i])}
  <2>1. SUFFICES ASSUME event \notin SessionBefore
                 PROVE  carried' = {i \in DOMAIN answers' : Changes(event', answers'[i])}
    BY <1>1
  <2>2. carried = {i \in DOMAIN answers : Changes(event, answers[i])}
    BY <2>1 DEF RunnerInv, RoundInv
  <2>3. carried' = IF Changes(event, a) THEN carried \union {n} ELSE carried
    BY <2>1 DEF Answer, Carry
  <2>4. \A i \in 1 .. n - 1 : Changes(event', answers'[i]) = Changes(event, answers[i])
    BY <1>1, <1>2 DEF Changes
  <2>5. Changes(event', answers'[n]) = Changes(event, a)
    BY <1>1, <1>2 DEF Changes
  <2>. QED
    BY <1>2, <2>2, <2>3, <2>4, <2>5
<1>5. current' \in [Fields -> Nat]
  BY <1>2 DEF RunnerInv, RoundInv, Answer, Patch
<1>6. \A f \in Fields : IsLastPatch(current'[f], f, answers')
  <2>1. SUFFICES ASSUME NEW f \in Fields PROVE IsLastPatch(current'[f], f, answers')
    OBVIOUS
  <2>2. current'[f] = IF f \in a.fields THEN n ELSE current[f]
    BY DEF Answer, Patch
  <2>3. IsLastPatch(current[f], f, answers) /\ current[f] \in Nat
    BY DEF RunnerInv, RoundInv
  <2>4. CASE f \in a.fields
    BY <1>2, <2>2, <2>4 DEF IsLastPatch
  <2>5. CASE f \notin a.fields
    BY <1>2, <2>2, <2>3, <2>5 DEF IsLastPatch
  <2>. QED
    BY <2>4, <2>5
<1>7. modified' \/ \A i \in DOMAIN answers' : answers'[i].fields = {}
  <2>1. modified \/ a.fields # {} => modified'
    BY DEF Answer
  <2>2. modified \/ \A i \in DOMAIN answers : answers[i].fields = {}
    BY DEF RunnerInv, RoundInv
  <2>3. CASE modified \/ a.fields # {}
    BY <2>1, <2>3
  <2>4. CASE ~modified /\ a.fields = {}
    <3>1. \A i \in DOMAIN answers' : answers'[i].fields = {}
      BY <1>2, <2>2, <2>4
    <3>. QED
      BY <3>1
  <2>. QED
    BY <2>3, <2>4
<1>. QED
  BY <1>1, <1>2, <1>3, <1>4, <1>5, <1>6, <1>7 DEF RoundInv

\* A round that is left as it is stays as it is.
LEMMA RoundKept ==
  ASSUME RoundInv, UNCHANGED <<event, handlers, answers, carried, ended, current, modified>>
  PROVE  RoundInv'
  BY DEF RoundInv

\* Every step of the runner and of the hooks keeps RunnerInv.
LEMMA RunnerStep ==
  ASSUME MaxHandlers \in Nat, RunnerInv, [RunnerNext]_runnerVars
  PROVE  RunnerInv'
<1>. USE DEF RunnerInv
<1>1. CASE \E e \in Events : Emit(e)
  <2>1. PICK e \in Events : Emit(e)
    BY <1>1
  <2>2. RoundInv'
    BY <2>1, RoundStep DEF Emit
  <2>3. CallInv' /\ HandlersHeeded'
    BY <2>1 DEF Emit, Round, CallInv, HandlersHeeded, OnlyIfAllAgree, LastPatchTold, NoHandlerLost,
                toolVars, Events, PassedOn, Collected, SessionBefore
  <2>. QED
    BY <2>2, <2>3
<1>2. CASE \E a \in Answers(event) : Answer(a)
  <2>1. PICK a \in Answers(event) : Answer(a)
    BY <1>2
  <2>2. RoundInv'
    BY <2>1, AnswerStep
  <2>3. CallInv' /\ HandlersHeeded'
    BY <2>1
       DEF Answer, CallInv, HandlersHeeded, OnlyIfAllAgree, LastPatchTold, NoHandlerLost, toolVars
  <2>. QED
    BY <2>2, <2>3
<1>3. CASE Return
  <2>1. RoundInv'
    BY <1>3, RoundKept DEF Return, roundVars
  <2>2. CallInv'
    BY <1>3 DEF Return, RoundOver, CallInv, roundVars, toolVars, Events
  <2>3. OnlyIfAllAgree' /\ LastPatchTold'
    BY <1>3
       DEF Return, RoundOver, HandlersHeeded, OnlyIfAllAgree, LastPatchTold, roundVars, toolVars
  <2>4. NoHandlerLost'
    <3>1. (event \notin SessionBefore /\ event # "tool_call") \/ event' \notin PassedOn \union Collected
      BY <1>3 DEF Return, PassedOn, Collected, SessionBefore, roundVars
    <3>2. \A i \in DOMAIN answers : event # "tool_call" =>
            (Changes(event, answers[i]) <=> answers[i].edits \/ answers[i].does \in {"change", "stop"})
      BY DEF Changes
    <3>. QED
      BY <1>3, <3>1, <3>2 DEF Return, RoundOver, RoundInv, NoHandlerLost, roundVars
  <2>. QED
    BY <2>1, <2>2, <2>3, <2>4 DEF HandlersHeeded
<1>4. CASE Refuse
  <2>1. RoundInv'
    BY <1>4, RoundKept DEF Refuse, roundVars
  <2>2. CallInv'
    BY <1>4 DEF Refuse, RoundOver, CallInv, roundVars
  <2>3. HandlersHeeded'
    BY <1>4
       DEF Refuse, RoundOver, CallInv, HandlersHeeded, OnlyIfAllAgree, LastPatchTold,
           NoHandlerLost,
                roundVars, PassedOn, Collected
  <2>. QED
    BY <2>1, <2>2, <2>3
<1>5. CASE Execute
  <2>1. RoundInv'
    BY <1>5, RoundKept DEF Execute, roundVars
  <2>2. CallInv'
    BY <1>5 DEF Execute, RoundOver, CallInv, roundVars
  <2>3. \A i \in DOMAIN answers : answers[i].does = "nothing"
    BY <1>5 DEF Execute, RoundInv
  <2>4. carried = {i \in DOMAIN answers : answers[i].edits}
    BY <1>5 DEF Execute, RoundInv, Changes, SessionBefore
  <2>5. HandlersHeeded'
    BY <1>5, <2>3, <2>4 DEF Execute, HandlersHeeded, OnlyIfAllAgree, LastPatchTold, NoHandlerLost
  <2>. QED
    BY <2>1, <2>2, <2>5
<1>6. CASE \E outcome \in {"ok", "failed"} : ToolEnds(outcome)
  <2>1. PICK outcome \in {"ok", "failed"} : ToolEnds(outcome)
    BY <1>6
  <2>2. RoundInv'
    BY <2>1, RoundStep DEF ToolEnds
  <2>3. CallInv'
    BY <2>1 DEF ToolEnds, Round, CallInv
  <2>4. HandlersHeeded'
    BY <2>1 DEF ToolEnds, Round, HandlersHeeded, OnlyIfAllAgree, LastPatchTold, NoHandlerLost
  <2>. QED
    BY <2>2, <2>3, <2>4
<1>7. CASE Tell
  <2>1. RoundInv'
    BY <1>7, RoundKept DEF Tell, roundVars
  <2>2. CallInv'
    BY <1>7 DEF Tell, RoundOver, CallInv, roundVars
  <2>3. OnlyIfAllAgree' /\ NoHandlerLost'
    BY <1>7
       DEF Tell, RoundOver, HandlersHeeded, OnlyIfAllAgree, NoHandlerLost, roundVars, PassedOn,
           Collected
  <2>4. LastPatchTold'
    <3>1. SUFFICES ASSUME tool = "ok", NEW f \in {"content", "details"}
                   PROVE  IsLastPatch(told'[f], f, answers)
      BY <1>7 DEF Tell, LastPatchTold, roundVars
    <3>2. f \in Fields /\ f # "isError"
      BY DEF Fields
    <3>3. IsLastPatch(current[f], f, answers) /\ current \in [Fields -> Nat]
      BY <3>2 DEF RoundInv
    <3>4. CASE modified
      BY <1>7, <3>1, <3>2, <3>3, <3>4 DEF Tell
    <3>5. CASE ~modified
      <4>1. told'[f] = 0
        BY <1>7, <3>2, <3>5 DEF Tell, RoundOver, CallInv, Untouched
      <4>2. \A i \in DOMAIN answers : answers[i].fields = {}
        BY <3>5 DEF RoundInv
      <4>. QED
        BY <4>1, <4>2 DEF IsLastPatch
    <3>. QED
      BY <3>4, <3>5
  <2>. QED
    BY <2>1, <2>2, <2>3, <2>4 DEF HandlersHeeded
<1>8. CASE UNCHANGED runnerVars
  <2>1. RoundInv'
    BY <1>8, RoundKept DEF runnerVars, roundVars
  <2>2. CallInv' /\ HandlersHeeded'
    BY <1>8
       DEF runnerVars, roundVars, toolVars, CallInv, HandlersHeeded, OnlyIfAllAgree,
           LastPatchTold,
                NoHandlerLost, IsLastPatch
  <2>. QED
    BY <2>1, <2>2
<1>. QED
  BY <1>1, <1>2, <1>3, <1>4, <1>5, <1>6, <1>7, <1>8 DEF RunnerNext

LEMMA RunnerBegins == RunnerInit => RunnerInv
<1>1. SUFFICES ASSUME RunnerInit PROVE RunnerInv
  OBVIOUS
<1>2. answers = <<>> /\ DOMAIN answers = {} /\ Len(answers) = 0
  BY <1>1 DEF RunnerInit
<1>3. RoundInv
  BY <1>1, <1>2 DEF RunnerInit, RoundInv, IsLastPatch, Untouched
<1>4. CallInv /\ HandlersHeeded
  BY <1>1, <1>2
     DEF RunnerInit, CallInv, HandlersHeeded, OnlyIfAllAgree, LastPatchTold, NoHandlerLost
<1>. QED
  BY <1>3, <1>4 DEF RunnerInv

\* However many handlers an event has and whatever they answer, a tool is run only when
\* all agree, with their edits; the model is told the last patch; and an error of one
\* takes nothing from the others.
THEOREM HeededTheorem == ASSUME MaxHandlers \in Nat PROVE RunnerSpec => []HandlersHeeded
<1>1. RunnerInv /\ [RunnerNext]_runnerVars => RunnerInv'
  BY RunnerStep
<1>2. RunnerInv => HandlersHeeded
  BY DEF RunnerInv
<1>. QED
  BY <1>1, <1>2, RunnerBegins, PTL DEF RunnerSpec

----------------------------------------------------------------------------
(* Induction *)

\* Induction on the naturals, for a set: were k not in T, adding one would map the elements
\* of T up to k one to one into those that are not 0, which are fewer.
LEMMA Induct ==
  ASSUME NEW T, 0 \in T, \A n \in Nat : n \in T => n + 1 \in T
  PROVE  \A n \in Nat : n \in T
<1> SUFFICES ASSUME NEW k \in Nat, k \notin T PROVE FALSE
  OBVIOUS
<1> DEFINE S == {n \in 0 .. k : n \in T}
           f == [n \in S |-> n + 1]
<1>1. IsFiniteSet(S) /\ 0 \in S
  <2>1. IsFiniteSet(0 .. k) /\ S \in SUBSET (0 .. k)
    BY FS_Interval
  <2>2. IsFiniteSet(S)
    BY <2>1, FS_Subset
  <2> QED BY <2>2
<1>2. IsFiniteSet(S \ {0}) /\ Cardinality(S \ {0}) = Cardinality(S) - 1
  BY <1>1, FS_RemoveElement
<1>3. Cardinality(S) \in Nat
  BY <1>1, FS_CardinalityType
<1>4. f \in [S -> S \ {0}]
  OBVIOUS
<1>5. \E x, y \in S : x # y /\ f[x] = f[y]
  <2> HIDE DEF S, f
  <2> QED BY <1>1, <1>2, <1>3, <1>4, FS_PigeonHole
<1> QED BY <1>5

----------------------------------------------------------------------------
(* What a compaction keeps *)

\* The numbers of tool calls are numbers, and messages are only so long.
CompactionAssumption ==
  CallCounts \subseteq Nat /\ Sizes # {} /\ \E n \in Nat : Sizes \subseteq 0 .. n

\* A set of numbers that has a bound has a greatest one, and any has a least one.
LEMMA GreatestIs ==
  ASSUME NEW n \in Nat, NEW S, S \subseteq 0 .. n, S # {}
  PROVE  Max(S) \in S /\ \A y \in S : y <= Max(S)
<1>1. \E x \in S : \A y \in S : x >= y
  <2> SUFFICES ASSUME \A x \in S : \E y \in S : y > x PROVE FALSE
    OBVIOUS
  <2> DEFINE T == {k \in Nat : \E y \in S : y >= k}
  <2>1. 0 \in T
    <3>1. PICK y \in S : y \in 0 .. n
      OBVIOUS
    <3>2. y >= 0
      BY <3>1
    <3> QED BY <3>2
  <2>2. ASSUME NEW k \in Nat, k \in T PROVE k + 1 \in T
    <3>1. PICK x \in S : x >= k
      BY <2>2
    <3>2. PICK y \in S : y > x
      OBVIOUS
    <3>3. y >= k + 1
      BY <3>1, <3>2
    <3> QED BY <3>3
  <2>3. n + 1 \in T
    <3> HIDE DEF T
    <3> QED BY <2>1, <2>2, Induct
  <2> QED BY <2>3
<1> QED BY <1>1 DEF Max

LEMMA SmallestIs ==
  ASSUME NEW S, S \subseteq Nat, S # {}
  PROVE  Min(S) \in S /\ \A y \in S : Min(S) <= y
<1>1. \E x \in S : \A y \in S : x <= y
  <2> SUFFICES ASSUME \A x \in S : \E y \in S : y < x PROVE FALSE
    OBVIOUS
  <2> DEFINE T == {n \in Nat : \A k \in S : n < k}
  <2>1. 0 \in T
    OBVIOUS
  <2>2. ASSUME NEW n \in Nat, n \in T PROVE n + 1 \in T
    <3>1. n + 1 \notin S
      BY <2>2
    <3> QED BY <2>2, <3>1
  <2>3. \A n \in Nat : n \in T
    <3> HIDE DEF T
    <3> QED BY <2>1, <2>2, Induct
  <2>4. PICK k \in S : k \in Nat
    OBVIOUS
  <2>5. k \in T
    BY <2>3, <2>4
  <2> QED BY <2>4, <2>5
<1> QED BY <1>1 DEF Min

LEMMA LastIs ==
  ASSUME NEW n \in Nat, NEW S, S \subseteq 1 .. n
  PROVE  /\ S = {} => LastOf(S) = 0
         /\ S # {} => LastOf(S) \in S /\ LastOf(S) # 0 /\ \A y \in S : y <= LastOf(S)
         /\ LastOf(S) \in 0 .. n
<1>1. S \subseteq 0 .. n
  OBVIOUS
<1>2. S # {} => Max(S) \in S /\ \A y \in S : y <= Max(S)
  BY <1>1, GreatestIs
<1>3. S # {} => LastOf(S) = Max(S)
  BY DEF LastOf
<1>4. S = {} => LastOf(S) = 0
  BY DEF LastOf
<1>5. S # {} => LastOf(S) \in S /\ LastOf(S) # 0 /\ \A y \in S : y <= LastOf(S)
  <2> SUFFICES ASSUME S # {} PROVE LastOf(S) \in S /\ LastOf(S) # 0 /\ \A y \in S : y <= LastOf(S)
    OBVIOUS
  <2>1. LastOf(S) \in S /\ \A y \in S : y <= LastOf(S)
    BY <1>2, <1>3
  <2> QED BY <2>1
<1>6. LastOf(S) \in 0 .. n
  <2>1. CASE S = {}
    BY <1>4, <2>1
  <2>2. CASE S # {}
    BY <1>1, <1>5, <2>2
  <2> QED BY <2>1, <2>2
<1> QED BY <1>4, <1>5, <1>6

LEMMA NewLastIs ==
  ASSUME NEW n \in Nat, NEW S, S \subseteq 1 .. n
  PROVE  LastOf(S \union {n + 1}) = n + 1
<1>1. PICK R : R = S \union {n + 1}
  OBVIOUS
<1>2. R \subseteq 1 .. n + 1 /\ n + 1 \in R /\ R # {} /\ n + 1 \in Nat
  BY <1>1
<1>3. LastOf(R) \in R /\ \A y \in R : y <= LastOf(R)
  BY <1>2, LastIs
<1>4. LastOf(R) = n + 1
  <2>1. PICK k : k = LastOf(R)
    OBVIOUS
  <2>2. k \in 1 .. n + 1
    BY <1>2, <1>3, <2>1
  <2>3. n + 1 <= k
    BY <1>2, <1>3, <2>1
  <2>4. k = n + 1
    BY <2>2, <2>3
  <2> QED BY <2>1, <2>4
<1> QED BY <1>1, <1>4

EntryTypes == MessageTypes \union UserLike \union NoteTypes \union {"compaction"}
Entries == [type : EntryTypes, tokens : Nat, calls : Nat, first : Nat, covers : SUBSET Nat]

CompactionTypes ==
  /\ entries \in Seq(Entries)
  /\ \A i \in 1 .. Len(entries) : Is(i, MessageTypes) => entries[i].tokens \in Sizes

\* Where a compaction may cut, and the message that the results at the end belong to.
CutTypes == (MessageTypes \ {"toolResult"}) \union UserLike
Spoken == {i \in Places : Is(i, MessageTypes \ {"toolResult"})}
LastSpoken == LastOf(Spoken)
ResultsSince == {i \in Places : i > LastSpoken /\ Is(i, {"toolResult"})}
Compactions == {i \in Places : Is(i, {"compaction"})}

\* No cut between two entries.
NoCut(a, i) == \A j \in Places : a < j /\ j < i => ~Is(j, CutTypes)

\* What is before the first kept entry was summarised or forgotten; a result follows its
\* answer, both kept or neither, and no cut is possible between them or behind an answer
\* whose results are still to come.
KeptInv ==
  /\ BoundaryStart \in 1 .. Len(entries) + 1
  /\ \A i \in Places : i < BoundaryStart /\ Is(i, MessageTypes \union UserLike) =>
       i \in Covered \union forgotten
  /\ \A i \in Places : Is(i, {"toolResult"}) =>
       \E a \in Places : /\ a < i /\ Is(a, {"assistant"}) /\ NoCut(a, i)
                         /\ i >= BoundaryStart => a >= BoundaryStart
  /\ Calling => LastSpoken >= BoundaryStart /\ NoCut(LastSpoken, Len(entries) + 1)

LEMMA PlacesAre ==
  ASSUME CompactionTypes
  PROVE  /\ Len(entries) \in Nat /\ Places = 1 .. Len(entries)
         /\ \A i \in Places : entries[i] \in Entries
BY DEF CompactionTypes, Places

LEMMA CallingIs ==
  Calling <=> /\ LastSpoken # 0 /\ entries[LastSpoken].type = "assistant"
              /\ Cardinality(ResultsSince) < entries[LastSpoken].calls
BY DEF Calling, LastSpoken, ResultsSince, Spoken

\* The branch after it has grown.
LEMMA Grown ==
  ASSUME CompactionTypes, NEW e \in Entries, entries' = Append(entries, e)
  PROVE  /\ Places' = Places \union {Len(entries) + 1} /\ Len(entries') = Len(entries) + 1
         /\ \A i \in Places : entries'[i] = entries[i]
         /\ entries'[Len(entries) + 1] = e /\ entries' \in Seq(Entries)
<1>1. /\ Len(entries') = Len(entries) + 1 /\ \A i \in 1 .. Len(entries) : entries'[i] = entries[i]
      /\ entries'[Len(entries) + 1] = e /\ entries' \in Seq(Entries) /\ Len(entries) \in Nat
  BY DEF CompactionTypes
<1>2. Places' = 1 .. Len(entries) + 1 /\ Places = 1 .. Len(entries)
  BY <1>1, PlacesAre DEF Places
<1> QED BY <1>1, <1>2

\* What changes when a note is added: nothing that the invariant speaks of.
LEMMA SetsGrow ==
  ASSUME CompactionTypes, NEW e \in Entries, entries' = Append(entries, e)
  PROVE  /\ Spoken' = Spoken \union
                        (IF e.type \in MessageTypes \ {"toolResult"} THEN {Len(entries) + 1} ELSE {})
         /\ Compactions' = Compactions \union
                        (IF e.type = "compaction" THEN {Len(entries) + 1} ELSE {})
BY Grown DEF Spoken, Compactions, Is
LEMMA SetsIn ==
  ASSUME CompactionTypes
  PROVE  /\ Spoken \subseteq 1 .. Len(entries) /\ Compactions \subseteq 1 .. Len(entries)
         /\ ResultsSince \subseteq 1 .. Len(entries)
         /\ LastCompaction = LastOf(Compactions)
BY PlacesAre DEF Spoken, Compactions, ResultsSince, LastCompaction

LEMMA BoundaryGrows ==
  ASSUME CompactionTypes, NEW e \in Entries, entries' = Append(entries, e)
  PROVE  /\ e.type # "compaction" =>
              BoundaryStart' = BoundaryStart /\ Covered' = Covered /\ LastCompaction' = LastCompaction
         /\ e.type = "compaction" =>
              /\ BoundaryStart' = e.first /\ Covered' = e.covers
              /\ LastCompaction' = Len(entries) + 1
<1>1. LastCompaction' = LastOf(Compactions') /\ LastCompaction = LastOf(Compactions)
  BY DEF LastCompaction, Compactions
<1>2. Len(entries) \in Nat /\ Compactions \subseteq 1 .. Len(entries) /\ Places = 1 .. Len(entries)
  BY PlacesAre, SetsIn
<1>3. LastCompaction \in 0 .. Len(entries)
  BY <1>1, <1>2, LastIs
<1>4. CASE e.type # "compaction"
  <2>1. Compactions' = Compactions
    BY <1>4, SetsGrow
  <2>2. LastCompaction' = LastCompaction
    BY <1>1, <2>1
  <2>3. LastCompaction # 0 => entries'[LastCompaction] = entries[LastCompaction]
    BY <1>2, <1>3, Grown
  <2>4. BoundaryStart' = BoundaryStart
    BY <2>2, <2>3 DEF BoundaryStart
  <2>5. Covered' = Covered
    BY <2>2, <2>3 DEF Covered
  <2> QED BY <1>4, <2>2, <2>4, <2>5
<1>5. CASE e.type = "compaction"
  <2>1. Compactions' = Compactions \union {Len(entries) + 1}
    BY <1>5, SetsGrow
  <2>4. LastCompaction' = Len(entries) + 1
    BY <1>1, <1>2, <2>1, NewLastIs
  <2>5. Len(entries) + 1 # 0 /\ entries'[Len(entries) + 1] = e
    BY <1>2, Grown
  <2>6. BoundaryStart' = e.first
    BY <2>4, <2>5 DEF BoundaryStart
  <2>7. Covered' = e.covers
    BY <2>4, <2>5 DEF Covered
  <2> QED BY <1>5, <2>4, <2>6, <2>7
<1> QED BY <1>4, <1>5

\* An answer waits for its results only as long as no other message has come.
LEMMA CallingGrows ==
  ASSUME CompactionTypes, NEW e \in Entries, entries' = Append(entries, e)
  PROVE  /\ e.type \notin MessageTypes => LastSpoken' = LastSpoken /\ (Calling' <=> Calling)
         /\ e.type = "toolResult" => LastSpoken' = LastSpoken /\ (Calling' => Calling)
         /\ e.type \in MessageTypes \ {"toolResult"} => LastSpoken' = Len(entries) + 1
<1>1. LastSpoken' = LastOf(Spoken')
  BY DEF LastSpoken
<1>2. /\ Len(entries) \in Nat /\ Spoken \subseteq 1 .. Len(entries) /\ Places = 1 .. Len(entries)
      /\ ResultsSince \subseteq 1 .. Len(entries)
  BY PlacesAre, SetsIn
<1>3. LastSpoken \in 0 .. Len(entries)
  BY <1>2, LastIs DEF LastSpoken
<1>4. ASSUME e.type \notin MessageTypes \/ e.type = "toolResult"
      PROVE  LastSpoken' = LastSpoken
  <2>1. Spoken' = Spoken
    BY <1>4, SetsGrow
  <2> QED BY <1>1, <2>1 DEF LastSpoken
<1>5. ResultsSince' = {i \in Places' : i > LastSpoken' /\ entries'[i].type = "toolResult"}
  BY DEF ResultsSince, Is
<1>6. ResultsSince = {i \in Places : i > LastSpoken /\ entries[i].type = "toolResult"}
  BY DEF ResultsSince, Is
<1>7. /\ Calling' <=> /\ LastSpoken' # 0 /\ entries'[LastSpoken'].type = "assistant"
                      /\ Cardinality(ResultsSince') < entries'[LastSpoken'].calls
  BY DEF Calling, LastSpoken, ResultsSince, Spoken
<1>8. LastSpoken # 0 => entries'[LastSpoken] = entries[LastSpoken]
  BY <1>2, <1>3, Grown
<1>9. CASE e.type \notin MessageTypes
  <2>1. ResultsSince' = ResultsSince
    <3>1. e.type # "toolResult"
      BY <1>9 DEF MessageTypes
    <3> QED BY <1>4, <1>5, <1>6, <1>9, <3>1, Grown
  <2>2. Calling' <=> Calling
    BY <1>4, <1>7, <1>8, <1>9, <2>1, CallingIs, Zenon
  <2>3. e.type # "toolResult" /\ e.type \notin MessageTypes \ {"toolResult"}
    BY <1>9 DEF MessageTypes
  <2> QED BY <1>4, <1>9, <2>2, <2>3
<1>10. CASE e.type = "toolResult"
  <2>1. ResultsSince' = ResultsSince \union {Len(entries) + 1} /\ Len(entries) + 1 \notin ResultsSince
    <3>1. ResultsSince' = ResultsSince \union {Len(entries) + 1}
      BY <1>2, <1>3, <1>4, <1>5, <1>6, <1>10, Grown
    <3>2. Len(entries) + 1 \notin ResultsSince
      BY <1>2
    <3> QED BY <3>1, <3>2
  <2>2. IsFiniteSet(ResultsSince)
    <3>1. IsFiniteSet(1 .. Len(entries)) /\ ResultsSince \in SUBSET (1 .. Len(entries))
      BY <1>2, FS_Interval
    <3> QED BY <3>1, FS_Subset
  <2>3. Cardinality(ResultsSince) \in Nat /\ Cardinality(ResultsSince') = Cardinality(ResultsSince) + 1
    BY <2>1, <2>2, FS_CardinalityType, FS_AddElement
  <2>4. LastSpoken # 0 => entries[LastSpoken].calls \in Nat
    BY <1>2, <1>3, PlacesAre DEF Entries
  <2>5. Calling' => Calling
    <3> SUFFICES ASSUME Calling' PROVE Calling
      OBVIOUS
    <3>1. /\ LastSpoken # 0 /\ entries[LastSpoken].type = "assistant"
          /\ Cardinality(ResultsSince') < entries[LastSpoken].calls
      BY <1>4, <1>7, <1>8, <1>10
    <3>2. Cardinality(ResultsSince) < entries[LastSpoken].calls
      BY <2>3, <2>4, <3>1
    <3> QED BY <3>1, <3>2, CallingIs
  <2>6. e.type \in MessageTypes /\ e.type \notin MessageTypes \ {"toolResult"}
    BY <1>10 DEF MessageTypes
  <2> QED BY <1>4, <1>10, <2>5, <2>6
<1>11. CASE e.type \in MessageTypes \ {"toolResult"}
  <2>1. Spoken' = Spoken \union {Len(entries) + 1}
    BY <1>11, SetsGrow
  <2>4. LastSpoken' = Len(entries) + 1
    BY <1>1, <1>2, <2>1, NewLastIs
  <2> QED BY <1>11, <2>4
<1> QED BY <1>9, <1>10, <1>11 DEF Entries
\* Nothing between a cut and where it was scanned back to is a message.
NoMessage(from, to) ==
  \A j \in Places : from <= j /\ j < to => ~Is(j, MessageTypes \union {"compaction"})

LEMMA CutIs ==
  ASSUME CompactionTypes, NEW start \in 1 .. Len(entries) + 1, ValidCutPoints(start) # {}
  PROVE  /\ Cut(start) \in ValidCutPoints(start) /\ CutPoint(start).firstKept \in start .. Cut(start)
         /\ NoMessage(CutPoint(start).firstKept, Cut(start))
         /\ \A c \in ValidCutPoints(start) :
              BudgetEnd(start) # 0 /\ c >= BudgetEnd(start) => Cut(start) >= BudgetEnd(start)
<1>1. Places = 1 .. Len(entries) /\ Len(entries) \in Nat
  BY PlacesAre
<1> DEFINE cuts == ValidCutPoints(start)
           after == {c \in cuts : c >= BudgetEnd(start)}
           cut == Cut(start)
           back == {i \in start .. cut : \A j \in i .. cut - 1 : ~Is(j, MessageTypes \union {"compaction"})}
<1>2. cuts \subseteq Nat /\ after \subseteq Nat /\ after \subseteq cuts
  BY <1>1 DEF ValidCutPoints
<1>3. cut = IF BudgetEnd(start) = 0 \/ after = {} THEN Min(cuts) ELSE Min(after)
  BY DEF Cut
<1>4. Min(cuts) \in cuts /\ (after # {} => Min(after) \in after)
  <2> HIDE DEF cuts, after
  <2> QED BY <1>2, SmallestIs DEF cuts
<1>5. cut \in cuts
  BY <1>2, <1>3, <1>4
<1>6. \A c \in cuts : BudgetEnd(start) # 0 /\ c >= BudgetEnd(start) => cut >= BudgetEnd(start)
  BY <1>3, <1>4
<1>7. cut \in 1 .. Len(entries) /\ cut >= start
  BY <1>1, <1>5 DEF ValidCutPoints
<1> HIDE DEF cut
<1>8. back \subseteq Nat /\ cut \in back
  BY <1>7
<1>9. Min(back) \in back
  <2> HIDE DEF back
  <2> QED BY <1>8, SmallestIs
<1>10. CutPoint(start).firstKept = Min(back)
  <2>1. ScannedBack(cut, start) = Min(back)
    BY DEF ScannedBack
  <2>2. CutPoint(start).firstKept = ScannedBack(cut, start)
    <3> HIDE DEF back
    <3> QED BY DEF CutPoint, cut
  <2> QED BY <2>1, <2>2
<1>11. PICK f : f = CutPoint(start).firstKept
  OBVIOUS
<1>12. f \in start .. cut /\ \A j \in f .. cut - 1 : ~Is(j, MessageTypes \union {"compaction"})
  BY <1>9, <1>10, <1>11
<1>13. NoMessage(f, cut)
  <2> SUFFICES ASSUME NEW j \in Places, f <= j, j < cut
               PROVE  ~Is(j, MessageTypes \union {"compaction"})
    BY DEF NoMessage
  <2>1. j \in f .. cut - 1
    BY <1>1, <1>7, <1>12
  <2> QED BY <1>12, <2>1
<1> QED BY <1>5, <1>6, <1>11, <1>12, <1>13 DEF cut

LEMMA NoCutIs ==
  ASSUME NEW start, ValidCutPoints(start) = {} PROVE CutPoint(start).firstKept = start
BY DEF CutPoint

LEMMA KeptPlace ==
  ASSUME CompactionTypes, NEW start \in 1 .. Len(entries) + 1
  PROVE  CutPoint(start).firstKept \in start .. Len(entries) + 1
<1>1. Places = 1 .. Len(entries) /\ Len(entries) \in Nat
  BY PlacesAre
<1>2. CASE ValidCutPoints(start) = {}
  BY <1>2, NoCutIs
<1>3. CASE ValidCutPoints(start) # {}
  <2>1. PICK f, c : f = CutPoint(start).firstKept /\ c = Cut(start)
    OBVIOUS
  <2>2. c \in 1 .. Len(entries) /\ f \in start .. c
    BY <1>1, <1>3, <2>1, CutIs DEF ValidCutPoints
  <2> QED BY <1>1, <2>1, <2>2
<1> QED BY <1>2, <1>3

LEMMA TurnIs ==
  ASSUME CompactionTypes, NEW start \in 1 .. Len(entries) + 1
  PROVE  /\ CutPoint(start).turnStart \in 0 .. Len(entries) + 1
         /\ CutPoint(start).isSplitTurn <=> CutPoint(start).turnStart # 0
<1>1. Places = 1 .. Len(entries) /\ Len(entries) \in Nat
  BY PlacesAre
<1>2. ASSUME NEW i \in start .. Len(entries) + 1 PROVE TurnStart(i, start) \in 0 .. Len(entries) + 1
  <2> DEFINE S == {j \in start .. i : Is(j, {"user", "bashExecution"} \union UserLike)}
  <2>1. S \subseteq 1 .. Len(entries) + 1 /\ Len(entries) + 1 \in Nat
    BY <1>1
  <2>2. LastOf(S) \in 0 .. Len(entries) + 1
    <3> HIDE DEF S
    <3> QED BY <2>1, LastIs
  <2> QED BY <2>2 DEF TurnStart
<1>3. CASE ValidCutPoints(start) = {}
  BY <1>1, <1>3 DEF CutPoint
<1>4. CASE ValidCutPoints(start) # {}
  <2> DEFINE first == ScannedBack(Cut(start), start)
             turn == IF Is(first, {"user"}) THEN 0 ELSE TurnStart(first, start)
  <2>1. CutPoint(start) = [firstKept |-> first, turnStart |-> turn, isSplitTurn |-> turn # 0]
    BY <1>4 DEF CutPoint
  <2>2. first = CutPoint(start).firstKept
    <3> HIDE DEF first, turn
    <3> QED BY <2>1
  <2>3. first \in start .. Len(entries) + 1
    BY <2>2, KeptPlace
  <2> HIDE DEF first
  <2>4. turn \in 0 .. Len(entries) + 1
    BY <1>1, <1>2, <2>3
  <2> HIDE DEF turn
  <2>5. CutPoint(start).turnStart = turn
    BY <2>1
  <2>6. CutPoint(start).isSplitTurn = (turn # 0)
    <3>1. PICK split : split = (turn # 0)
      OBVIOUS
    <3>2. CutPoint(start) =
            [firstKept |-> first, turnStart |-> turn, isSplitTurn |-> split]
      BY <2>1, <3>1, Zenon
    <3>3. CutPoint(start).isSplitTurn = split
      BY <3>2
    <3> QED BY <3>1, <3>3, Zenon
  <2> QED BY <2>4, <2>5, <2>6, Zenon
<1> QED BY <1>3, <1>4

\* A summary tells of every message from the boundary to what is kept.
LEMMA SummaryIs ==
  ASSUME CompactionTypes, NEW start \in 1 .. Len(entries) + 1, start = BoundaryStart,
         NEW point, point = CutPoint(start)
  PROVE  /\ LastCompaction # 0 => entries[LastCompaction].covers \subseteq Nat
         /\ Summarised(point) \subseteq Nat
         /\ \A i \in Places : start <= i /\ i < point.firstKept /\ Is(i, MessageTypes \union UserLike) =>
              i \in Summarised(point)
<1>1. Places = 1 .. Len(entries) /\ Len(entries) \in Nat
  BY PlacesAre
<1>2. LastCompaction # 0 => entries[LastCompaction].covers \subseteq Nat
  <2>1. LastCompaction \in 0 .. Len(entries)
    BY <1>1, SetsIn, LastIs
  <2> QED BY <1>1, <2>1, PlacesAre DEF Entries
<1>3. PICK f, t : f = point.firstKept /\ t = point.turnStart
  OBVIOUS
<1>4. f \in start .. Len(entries) + 1 /\ t \in 0 .. Len(entries) + 1
  BY <1>3, KeptPlace, TurnIs
<1>5. point.isSplitTurn <=> t # 0
  BY <1>3, TurnIs
<1> DEFINE previous == IF LastCompaction = 0 THEN {} ELSE entries[LastCompaction].covers
           history == Shown(start, (IF point.isSplitTurn THEN t ELSE f) - 1)
           prefix == IF point.isSplitTurn THEN Shown(t, f - 1) ELSE {}
<1>6. Summarised(point) =
        IF prefix # {} /\ history = {} THEN prefix ELSE previous \union history \union prefix
  BY <1>3 DEF Summarised
<1>7. previous \subseteq Nat /\ history \subseteq Nat /\ prefix \subseteq Nat
  BY <1>1, <1>2 DEF Shown
<1>8. ASSUME NEW i \in Places, start <= i, i < f, Is(i, MessageTypes \union UserLike)
      PROVE  i \in history \/ i \in prefix
  <2>1. CASE ~point.isSplitTurn
    <3>1. i \in Shown(start, f - 1)
      BY <1>1, <1>4, <1>8 DEF Shown
    <3> QED BY <2>1, <3>1
  <2>2. CASE point.isSplitTurn /\ i < t
    <3>1. i \in Shown(start, t - 1)
      BY <1>1, <1>4, <1>8, <2>2 DEF Shown
    <3> QED BY <2>2, <3>1
  <2>3. CASE point.isSplitTurn /\ i >= t
    <3>1. i \in Shown(t, f - 1)
      BY <1>1, <1>4, <1>8, <2>3 DEF Shown
    <3> QED BY <2>3, <3>1
  <2> QED BY <1>1, <1>4, <2>1, <2>2, <2>3
<1> HIDE DEF previous, history, prefix
<1>9. Summarised(point) \subseteq Nat
  BY <1>6, <1>7
<1>10. \A i : i \in history \/ i \in prefix => i \in Summarised(point)
  BY <1>6
<1> QED BY <1>2, <1>3, <1>8, <1>9, <1>10
\* A step adds an entry, if it does anything.
Says(e) ==
  /\ e \in Entries /\ entries' = Append(entries, e) /\ UNCHANGED forgotten
  /\ \/ e.type \in MessageTypes /\ e.tokens \in Sizes /\ (e.type = "toolResult" => Calling)
     \/ e.type \in UserLike \union NoteTypes /\ (e.type \in UserLike => ~Calling)

Compacts(e) ==
  /\ e \in Entries /\ entries' = Append(entries, e) /\ e.type = "compaction"
  /\ e.first = CutPoint(BoundaryStart).firstKept /\ e.covers = Summarised(CutPoint(BoundaryStart))
  /\ forgotten' = forgotten \union
       (IF LastCompaction = 0 THEN {} ELSE entries[LastCompaction].covers \ e.covers)

LEMMA StepAdds ==
  ASSUME CompactionAssumption, CompactionTypes, KeptInv, [CompactionNext]_compactionVars
  PROVE  \/ UNCHANGED compactionVars
         \/ \E e : Says(e)
         \/ \E e : Compacts(e)
<1>1. ASSUME NEW type \in Types, NEW size \in Sizes, NEW calls \in CallCounts,
             AppendMessage(type, size, calls)
      PROVE  \E e : Says(e)
  <2> DEFINE e == [type |-> type, tokens |-> size, calls |-> calls, first |-> 0, covers |-> {}]
  <2>1. type \in MessageTypes /\ (type = "toolResult" => Calling) /\ UNCHANGED forgotten
        /\ entries' = Append(entries, e)
    BY <1>1 DEF AppendMessage, Grow, Entry
  <2>2. e \in Entries
    BY <2>1, SizesAssumption DEF CompactionAssumption, Entries, EntryTypes
  <2>3. e.type = type /\ e.tokens = size
    OBVIOUS
  <2> HIDE DEF e
  <2> QED BY <2>1, <2>2, <2>3 DEF Says
<1>2. ASSUME NEW type \in Types, AppendOther(type) PROVE \E e : Says(e)
  <2> DEFINE e == [type |-> type, tokens |-> 0, calls |-> 0, first |-> 0, covers |-> {}]
  <2>1. /\ type \in UserLike \union NoteTypes /\ (type \in UserLike => ~Calling)
        /\ UNCHANGED forgotten /\ entries' = Append(entries, e)
    BY <1>2, TypesAssumption DEF AppendOther, Grow, Entry
  <2>2. e \in Entries
    BY <2>1 DEF Entries, EntryTypes
  <2>3. e.type = type
    OBVIOUS
  <2> HIDE DEF e
  <2> QED BY <2>1, <2>2, <2>3 DEF Says
<1>3. ASSUME Compact PROVE \E e : Compacts(e)
  <2> DEFINE point == CutPoint(BoundaryStart)
             e == [type |-> "compaction", tokens |-> 0, calls |-> 0, first |-> point.firstKept,
                   covers |-> Summarised(point)]
  <2>1. entries' = Append(entries, e)
        /\ forgotten' = forgotten \union
             (IF LastCompaction = 0 THEN {} ELSE entries[LastCompaction].covers \ Summarised(point))
    BY <1>3 DEF Compact, Grow, Entry
  <2>2. point.firstKept \in Nat /\ Summarised(point) \subseteq Nat
    <3>1. BoundaryStart \in 1 .. Len(entries) + 1 /\ Len(entries) \in Nat
      BY PlacesAre DEF KeptInv
    <3>2. point.firstKept \in BoundaryStart .. Len(entries) + 1
      BY <3>1, KeptPlace
    <3>3. Summarised(point) \subseteq Nat
      <4>1. PICK start \in 1 .. Len(entries) + 1 : start = BoundaryStart
        BY <3>1
      <4> QED BY <4>1, SummaryIs
    <3> QED BY <3>1, <3>2, <3>3
  <2> HIDE DEF point
  <2>3. e \in Entries
    BY <2>2 DEF Entries, EntryTypes
  <2>4. e.type = "compaction" /\ e.first = point.firstKept /\ e.covers = Summarised(point)
    OBVIOUS
  <2> HIDE DEF e
  <2>5. Compacts(e)
    BY <2>1, <2>3, <2>4 DEF Compacts, point
  <2> QED BY <2>5
<1> QED BY <1>1, <1>2, <1>3 DEF CompactionNext

LEMMA CompactionTypesStep ==
  ASSUME CompactionAssumption, CompactionTypes, KeptInv, [CompactionNext]_compactionVars
  PROVE  CompactionTypes'
<1>1. ASSUME NEW e \in Entries, entries' = Append(entries, e),
             e.type \in MessageTypes => e.tokens \in Sizes
      PROVE  CompactionTypes'
  <2>1. /\ Len(entries) \in Nat /\ Len(entries') = Len(entries) + 1 /\ entries' \in Seq(Entries)
        /\ entries'[Len(entries) + 1] = e
        /\ \A i \in 1 .. Len(entries) : entries'[i] = entries[i]
    BY <1>1, PlacesAre, Grown
  <2>2. ASSUME NEW i \in 1 .. Len(entries'), entries'[i].type \in MessageTypes
        PROVE  entries'[i].tokens \in Sizes
    <3>1. i \in 1 .. Len(entries) \/ i = Len(entries) + 1
      BY <2>1
    <3> QED BY <1>1, <2>1, <2>2, <3>1 DEF CompactionTypes, Is
  <2> QED BY <2>1, <2>2 DEF CompactionTypes, Is
<1>2. UNCHANGED entries => CompactionTypes'
  BY DEF CompactionTypes, Is
<1>3. "compaction" \notin MessageTypes /\ \A t : t \in MessageTypes => t \notin UserLike \union NoteTypes
  BY DEF MessageTypes, UserLike, NoteTypes
<1> QED BY <1>1, <1>2, <1>3, StepAdds DEF Says, Compacts, compactionVars

LEMMA KeptStays ==
  ASSUME KeptInv, UNCHANGED compactionVars
  PROVE  KeptInv'
BY DEF KeptInv, compactionVars, BoundaryStart, LastCompaction, Covered, Places, Is, NoCut, LastSpoken,
       Spoken, Calling
\* The parts of the invariant after a step, in the terms of the branch.
ResultsKept(es, B) ==
  \A i \in 1 .. Len(es) : es[i].type = "toolResult" =>
    \E a \in 1 .. Len(es) :
      /\ a < i /\ es[a].type = "assistant" /\ (i >= B => a >= B)
      /\ \A j \in 1 .. Len(es) : a < j /\ j < i => es[j].type \notin CutTypes

LEMMA ResultsAre ==
  ASSUME CompactionTypes, KeptInv
  PROVE  /\ ResultsKept(entries, BoundaryStart)
         /\ Calling => \A j \in 1 .. Len(entries) : LastSpoken < j => entries[j].type \notin CutTypes
<1>1. Places = 1 .. Len(entries) /\ Len(entries) \in Nat
  BY PlacesAre
<1>2. ResultsKept(entries, BoundaryStart)
  BY <1>1 DEF KeptInv, ResultsKept, NoCut, Is
<1>3. Calling => \A j \in 1 .. Len(entries) : LastSpoken < j => entries[j].type \notin CutTypes
  BY <1>1 DEF KeptInv, NoCut, Is
<1> QED BY <1>2, <1>3

LEMMA KeptThen ==
  ASSUME CompactionTypes', (BoundaryStart \in 1 .. Len(entries) + 1)',
         \A i \in 1 .. Len(entries') :
           i < BoundaryStart' /\ entries'[i].type \in MessageTypes \union UserLike =>
             i \in Covered' \union forgotten',
         ResultsKept(entries', BoundaryStart'),
         Calling' => LastSpoken' >= BoundaryStart',
         Calling' => \A j \in 1 .. Len(entries') : LastSpoken' < j => entries'[j].type \notin CutTypes
  PROVE  KeptInv'
<1>1. Places' = 1 .. Len(entries') /\ Len(entries') \in Nat
  BY DEF Places, CompactionTypes
<1>2. \A a, i : NoCut(a, i)' <=>
        \A j \in 1 .. Len(entries') : a < j /\ j < i => entries'[j].type \notin CutTypes
  BY <1>1 DEF NoCut, Is
<1>3. (\A i \in Places : Is(i, {"toolResult"}) =>
        \E a \in Places : /\ a < i /\ Is(a, {"assistant"}) /\ NoCut(a, i)
                          /\ i >= BoundaryStart => a >= BoundaryStart)'
  <2> SUFFICES ASSUME NEW i \in Places', entries'[i].type = "toolResult"
               PROVE  \E a \in Places' :
                        /\ a < i /\ entries'[a].type = "assistant" /\ NoCut(a, i)'
                        /\ i >= BoundaryStart' => a >= BoundaryStart'
    BY DEF Is
  <2>1. PICK a \in 1 .. Len(entries') :
          /\ a < i /\ entries'[a].type = "assistant" /\ (i >= BoundaryStart' => a >= BoundaryStart')
          /\ \A j \in 1 .. Len(entries') : a < j /\ j < i => entries'[j].type \notin CutTypes
    BY <1>1 DEF ResultsKept
  <2> QED BY <1>1, <1>2, <2>1
<1>4. (Calling => LastSpoken >= BoundaryStart /\ NoCut(LastSpoken, Len(entries) + 1))'
  BY <1>1 DEF NoCut, Is
<1>5. (\A i \in Places : i < BoundaryStart /\ Is(i, MessageTypes \union UserLike) =>
         i \in Covered \union forgotten)'
  BY <1>1 DEF Is
<1> QED BY <1>3, <1>4, <1>5 DEF KeptInv

LEMMA KeptSays ==
  ASSUME CompactionTypes, CompactionTypes', KeptInv, NEW e, Says(e)
  PROVE  KeptInv'
<1>1. /\ e \in Entries /\ entries' = Append(entries, e) /\ UNCHANGED forgotten
      /\ (e.type = "toolResult" => Calling) /\ (e.type \in UserLike => ~Calling)
      /\ e.type \in MessageTypes \union UserLike \union NoteTypes
  BY DEF Says, MessageTypes, UserLike, NoteTypes
<1>2. /\ e.type # "compaction"
      /\ e.type \in CutTypes => e.type \in MessageTypes \ {"toolResult"} \/ e.type \in UserLike
      /\ e.type \in MessageTypes => e.type = "toolResult" \/ e.type \in MessageTypes \ {"toolResult"}
      /\ e.type = "toolResult" => e.type \notin CutTypes
  BY <1>1 DEF MessageTypes, UserLike, NoteTypes, CutTypes
<1>3. BoundaryStart' = BoundaryStart /\ Covered' = Covered
  BY <1>1, <1>2, BoundaryGrows
<1>4. PICK n, B : n = Len(entries) /\ B = BoundaryStart
  OBVIOUS
<1>5. /\ n \in Nat /\ Places = 1 .. n /\ Len(entries') = n + 1
      /\ \A i \in 1 .. n : entries'[i] = entries[i]
      /\ entries'[n + 1] = e
  BY <1>1, <1>4, PlacesAre, Grown
<1>6. B \in 1 .. n + 1 /\ \A i \in 1 .. n + 1 : i \in 1 .. n \/ i = n + 1
  BY <1>4, <1>5 DEF KeptInv
<1>7. ASSUME NEW i \in 1 .. n + 1, i < B, entries'[i].type \in MessageTypes \union UserLike
      PROVE  i \in Covered' \union forgotten'
  <2>1. i \in 1 .. n
    BY <1>6, <1>7
  <2> QED BY <1>1, <1>3, <1>4, <1>5, <1>7, <2>1 DEF KeptInv, Is
<1>8. ResultsKept(entries', B)
  <2> SUFFICES ASSUME NEW i \in 1 .. n + 1, entries'[i].type = "toolResult"
               PROVE  \E a \in 1 .. n + 1 :
                        /\ a < i /\ entries'[a].type = "assistant" /\ (i >= B => a >= B)
                        /\ \A j \in 1 .. n + 1 : a < j /\ j < i => entries'[j].type \notin CutTypes
    BY <1>5 DEF ResultsKept
  <2>1. CASE i \in 1 .. n
    <3>1. PICK a \in 1 .. n :
            /\ a < i /\ entries[a].type = "assistant" /\ (i >= B => a >= B)
            /\ \A j \in 1 .. n : a < j /\ j < i => entries[j].type \notin CutTypes
      BY <1>4, <1>5, <2>1, ResultsAre DEF ResultsKept
    <3>2. a \in 1 .. n + 1 /\ \A j \in 1 .. n + 1 : a < j /\ j < i => entries'[j].type \notin CutTypes
      BY <1>5, <1>6, <2>1, <3>1
    <3> QED BY <1>5, <3>1, <3>2
  <2>2. CASE i = n + 1
    <3>1. Calling
      BY <1>1, <1>5, <2>2
    <3>2. PICK a : a = LastSpoken
      OBVIOUS
    <3>3. a \in 1 .. n /\ entries[a].type = "assistant" /\ a >= B
      <4>1. a \in 0 .. n
        BY <1>4, <1>5, <3>2, SetsIn, LastIs DEF LastSpoken
      <4>2. a # 0 /\ entries[a].type = "assistant"
        BY <3>1, <3>2, CallingIs
      <4>3. a >= B
        BY <1>4, <3>1, <3>2 DEF KeptInv
      <4> QED BY <4>1, <4>2, <4>3
    <3>4. \A j \in 1 .. n : a < j => entries[j].type \notin CutTypes
      BY <1>4, <3>1, <3>2, ResultsAre
    <3>5. \A j \in 1 .. n + 1 : a < j /\ j < i => entries'[j].type \notin CutTypes
      BY <1>5, <1>6, <2>2, <3>4
    <3>6. a < i /\ a \in 1 .. n + 1 /\ entries'[a].type = "assistant"
      BY <1>5, <2>2, <3>3
    <3> QED BY <3>3, <3>5, <3>6
  <2> QED BY <1>6, <2>1, <2>2
<1>9. ASSUME Calling'
      PROVE  LastSpoken' >= B /\ \A j \in 1 .. n + 1 : LastSpoken' < j => entries'[j].type \notin CutTypes
  <2>1. CASE e.type \in MessageTypes \ {"toolResult"}
    <3>1. LastSpoken' = n + 1
      BY <1>1, <1>4, <2>1, CallingGrows
    <3> QED BY <1>5, <1>6, <3>1
  <2>2. CASE e.type \notin MessageTypes \ {"toolResult"}
    <3>1. LastSpoken' = LastSpoken /\ Calling
      BY <1>1, <1>2, <1>9, <2>2, CallingGrows
    <3>2. e.type \notin CutTypes
      BY <1>1, <1>2, <2>2, <3>1
    <3>3. LastSpoken >= B /\ \A j \in 1 .. n : LastSpoken < j => entries[j].type \notin CutTypes
      BY <1>4, <3>1, ResultsAre DEF KeptInv
    <3>4. PICK a : a = LastSpoken
      OBVIOUS
    <3>5. \A j \in 1 .. n + 1 : a < j => entries'[j].type \notin CutTypes
      BY <1>5, <1>6, <3>2, <3>3, <3>4
    <3> QED BY <3>1, <3>3, <3>4, <3>5
  <2> QED BY <2>1, <2>2
<1>10. (BoundaryStart \in 1 .. Len(entries) + 1)'
  BY <1>3, <1>4, <1>5, <1>6
<1> QED BY <1>3, <1>4, <1>5, <1>7, <1>8, <1>9, <1>10, KeptThen

LEMMA KeptCompacts ==
  ASSUME CompactionTypes, CompactionTypes', KeptInv, NEW e, Compacts(e)
  PROVE  KeptInv'
<1>1. /\ e \in Entries /\ entries' = Append(entries, e) /\ e.type = "compaction"
      /\ e.type \notin CutTypes /\ e.type \notin MessageTypes \union UserLike
      /\ e.type \notin MessageTypes /\ e.type # "toolResult"
  BY DEF Compacts, MessageTypes, UserLike, NoteTypes, CutTypes
<1>2. PICK n, B, f : n = Len(entries) /\ B = BoundaryStart /\ f = CutPoint(B).firstKept
  OBVIOUS
<1>3. /\ n \in Nat /\ Places = 1 .. n /\ Len(entries') = n + 1
      /\ \A i \in 1 .. n : entries'[i] = entries[i]
      /\ entries'[n + 1] = e /\ B \in 1 .. n + 1
  BY <1>1, <1>2, PlacesAre, Grown DEF KeptInv
<1>4. BoundaryStart' = f /\ Covered' = e.covers /\ e.covers = Summarised(CutPoint(B))
  BY <1>1, <1>2, BoundaryGrows DEF Compacts
<1>5. f \in B .. n + 1
  BY <1>2, <1>3, KeptPlace
<1>6. \A i \in 1 .. n + 1 : i \in 1 .. n \/ i = n + 1
  BY <1>3
<1>7. ASSUME NEW i \in 1 .. n + 1, i < f, entries'[i].type \in MessageTypes \union UserLike
      PROVE  i \in Covered' \union forgotten'
  <2>1. i \in 1 .. n /\ Is(i, MessageTypes \union UserLike)
    BY <1>1, <1>3, <1>6, <1>7 DEF Is
  <2>2. CASE i >= B
    <3>1. i \in Summarised(CutPoint(B))
      BY <1>2, <1>3, <1>7, <2>1, <2>2, SummaryIs
    <3> QED BY <1>4, <3>1
  <2>3. CASE i < B
    <3>1. i \in Covered \union forgotten
      BY <1>2, <1>3, <2>1, <2>3 DEF KeptInv
    <3> QED BY <1>4, <3>1 DEF Compacts, Covered
  <2> QED BY <1>3, <2>1, <2>2, <2>3
<1>8. ResultsKept(entries', f)
  <2> SUFFICES ASSUME NEW i \in 1 .. n + 1, entries'[i].type = "toolResult"
               PROVE  \E a \in 1 .. n + 1 :
                        /\ a < i /\ entries'[a].type = "assistant" /\ (i >= f => a >= f)
                        /\ \A j \in 1 .. n + 1 : a < j /\ j < i => entries'[j].type \notin CutTypes
    BY <1>3 DEF ResultsKept
  <2>1. i \in 1 .. n /\ entries[i].type = "toolResult"
    BY <1>1, <1>3, <1>6
  <2>2. PICK a \in 1 .. n :
          /\ a < i /\ entries[a].type = "assistant" /\ (i >= B => a >= B)
          /\ \A j \in 1 .. n : a < j /\ j < i => entries[j].type \notin CutTypes
    BY <1>2, <1>3, <2>1, ResultsAre DEF ResultsKept
  <2>3. a \in 1 .. n + 1 /\ \A j \in 1 .. n + 1 : a < j /\ j < i => entries'[j].type \notin CutTypes
    BY <1>3, <1>6, <2>1, <2>2
  <2>4. i >= f => a >= f
    <3> SUFFICES ASSUME i >= f, a < f PROVE FALSE
      BY <1>5, <2>2
    <3>1. a >= B
      BY <1>3, <1>5, <2>1, <2>2
    <3>2. ValidCutPoints(B) # {}
      <4>1. ValidCutPoints(B) = {} => f = B
        BY <1>2, NoCutIs
      <4> QED BY <1>3, <1>5, <3>1, <4>1
    <3>3. PICK c : c = Cut(B)
      OBVIOUS
    <3>4. c \in ValidCutPoints(B) /\ f \in B .. c /\ NoMessage(f, c)
      BY <1>2, <1>3, <3>2, <3>3, CutIs
    <3>5. c \in 1 .. n /\ entries[c].type \in CutTypes
      BY <1>3, <3>4 DEF ValidCutPoints, Is, CutTypes
    <3>6. i >= c
      <4>1. Is(i, MessageTypes \union {"compaction"})
        BY <2>1 DEF Is, MessageTypes
      <4> QED BY <1>3, <2>1, <3>4, <3>5, <4>1 DEF NoMessage
    <3>7. i # c
      BY <2>1, <3>5 DEF CutTypes, UserLike
    <3> QED BY <1>3, <2>1, <2>2, <3>4, <3>5, <3>6, <3>7
  <2> QED BY <1>3, <2>2, <2>3, <2>4
<1>9. ASSUME Calling'
      PROVE  LastSpoken' >= f /\ \A j \in 1 .. n + 1 : LastSpoken' < j => entries'[j].type \notin CutTypes
  <2>1. LastSpoken' = LastSpoken /\ Calling
    BY <1>1, <1>9, CallingGrows
  <2>2. PICK a : a = LastSpoken
    OBVIOUS
  <2>3. a >= B /\ \A j \in 1 .. n : a < j => entries[j].type \notin CutTypes
    BY <1>2, <2>1, <2>2, ResultsAre DEF KeptInv
  <2>4. a \in 1 .. n /\ entries[a].type = "assistant"
    <3>1. a \in 0 .. n
      BY <1>2, <1>3, <2>2, SetsIn, LastIs DEF LastSpoken
    <3> QED BY <2>1, <2>2, <3>1, CallingIs
  <2>5. a \in ValidCutPoints(B)
    BY <1>3, <2>3, <2>4 DEF ValidCutPoints, Is, MessageTypes
  <2>6. PICK c : c = Cut(B)
    OBVIOUS
  <2>7. c \in ValidCutPoints(B) /\ f \in B .. c
    BY <1>2, <1>3, <2>5, <2>6, CutIs
  <2>8. c \in 1 .. n /\ entries[c].type \in CutTypes
    BY <1>3, <2>7 DEF ValidCutPoints, Is, CutTypes
  <2>9. a >= f
    BY <1>3, <2>3, <2>4, <2>7, <2>8
  <2>10. \A j \in 1 .. n + 1 : a < j => entries'[j].type \notin CutTypes
    BY <1>1, <1>3, <1>6, <2>3
  <2> QED BY <2>1, <2>2, <2>9, <2>10
<1>10. (BoundaryStart \in 1 .. Len(entries) + 1)'
  BY <1>3, <1>4, <1>5
<1> QED BY <1>3, <1>4, <1>7, <1>8, <1>9, <1>10, KeptThen
----------------------------------------------------------------------------
(* What is kept is recent *)

\* What TokensFrom computes.
IsTokens(g, es) ==
  g = [j \in 1 .. Len(es) + 1 |->
         IF j > Len(es) THEN 0
         ELSE g[j + 1] + (IF es[j].type \in MessageTypes THEN es[j].tokens ELSE 0)]
TokensOf(es) == CHOOSE g : IsTokens(g, es)

Weight(es, j) == IF es[j].type \in MessageTypes THEN es[j].tokens ELSE 0

\* The sums from a place on.
Adds(g, es, from) ==
  /\ g \in [from .. Len(es) + 1 -> Nat] /\ g[Len(es) + 1] = 0
  /\ \A j \in from .. Len(es) : g[j] = g[j + 1] + Weight(es, j)

LEMMA TokensAre == \A i : TokensFrom(i) = TokensOf(entries)[i]
BY DEF TokensFrom, TokensOf, IsTokens, Is

LEMMA WeightIs == ASSUME NEW es \in Seq(Entries) PROVE \A j \in 1 .. Len(es) : Weight(es, j) \in Nat
<1>1. \A j \in 1 .. Len(es) : es[j] \in Entries
  OBVIOUS
<1> QED BY <1>1 DEF Weight, Entries

LEMMA AddsExist == ASSUME NEW es \in Seq(Entries) PROVE \E g : Adds(g, es, 1)
<1>1. PICK n \in Nat : n = Len(es)
  OBVIOUS
<1> DEFINE T == {k \in Nat : k <= n => \E g : Adds(g, es, n + 1 - k)}
<1>2. 0 \in T
  <2>1. Adds([j \in n + 1 .. n + 1 |-> 0], es, n + 1)
    BY <1>1 DEF Adds
  <2> QED BY <2>1
<1>3. ASSUME NEW k \in Nat, k \in T PROVE k + 1 \in T
  <2> SUFFICES ASSUME k + 1 <= n PROVE \E g : Adds(g, es, n + 1 - (k + 1))
    OBVIOUS
  <2>1. PICK g : Adds(g, es, n + 1 - k)
    BY <1>1, <1>3
  <2> DEFINE p == n - k
  <2>a. p \in 1 .. n
    BY <1>1
  <2>2. PICK i \in 1 .. n : i = p
    BY <2>a, Zenon
  <2>3. n + 1 - k = i + 1 /\ n + 1 - (k + 1) = i
    BY <1>1, <2>2
  <2>4. Weight(es, i) \in Nat
    BY <1>1, WeightIs
  <2>5. /\ g \in [i + 1 .. n + 1 -> Nat] /\ g[n + 1] = 0
        /\ \A j \in i + 1 .. n : g[j] = g[j + 1] + Weight(es, j)
    BY <1>1, <2>1, <2>3 DEF Adds
  <2> DEFINE h == [j \in i .. n + 1 |-> IF j = i THEN g[i + 1] + Weight(es, i) ELSE g[j]]
  <2>6. h \in [i .. n + 1 -> Nat] /\ h[n + 1] = 0
    BY <1>1, <2>4, <2>5
  <2>7. \A j \in i .. n : h[j] = h[j + 1] + Weight(es, j)
    BY <1>1, <2>4, <2>5
  <2>8. Adds(h, es, i)
    <3> HIDE DEF h
    <3> QED BY <1>1, <2>6, <2>7 DEF Adds
  <2> QED BY <2>3, <2>8
<1>4. n \in T
  <2> HIDE DEF T
  <2> QED BY <1>1, <1>2, <1>3, Induct
<1>5. n + 1 - n = 1 /\ n <= n
  BY <1>1
<1> QED BY <1>4, <1>5

LEMMA TokensAdd == ASSUME NEW es \in Seq(Entries) PROVE Adds(TokensOf(es), es, 1)
<1>1. PICK n \in Nat : n = Len(es)
  OBVIOUS
<1>2. PICK g : Adds(g, es, 1)
  BY AddsExist
<1>3. IsTokens(g, es)
  <2> DEFINE r == [j \in 1 .. n + 1 |-> IF j > n THEN 0 ELSE g[j + 1] + Weight(es, j)]
  <2>1. g \in [1 .. n + 1 -> Nat] /\ g[n + 1] = 0 /\ \A j \in 1 .. n : g[j] = g[j + 1] + Weight(es, j)
    BY <1>1, <1>2 DEF Adds
  <2>2. \A j \in 1 .. n + 1 : r[j] = g[j]
    <3> SUFFICES ASSUME NEW j \in 1 .. n + 1 PROVE r[j] = g[j]
      OBVIOUS
    <3>1. CASE j \in 1 .. n
      <4>1. ~(j > n) /\ r[j] = g[j + 1] + Weight(es, j)
        BY <1>1, <3>1
      <4> QED BY <2>1, <3>1, <4>1
    <3>2. CASE j = n + 1
      BY <1>1, <2>1, <3>2
    <3> QED BY <1>1, <3>1, <3>2
  <2>3. r = [j \in 1 .. n + 1 |-> r[j]] /\ g = [j \in 1 .. n + 1 |-> g[j]]
    BY <2>1
  <2> HIDE DEF r
  <2>4. r = g
    BY <2>2, <2>3
  <2> QED BY <1>1, <2>4, Zenon DEF r, IsTokens, Weight
<1>4. PICK f : f = TokensOf(es) /\ IsTokens(f, es)
  BY <1>3 DEF TokensOf
<1>5. /\ DOMAIN f = 1 .. n + 1 /\ f[n + 1] = 0 /\ f = [j \in 1 .. n + 1 |-> f[j]]
      /\ \A j \in 1 .. n : f[j] = f[j + 1] + Weight(es, j)
  BY <1>1, <1>4 DEF IsTokens, Weight
<1> DEFINE D == {k \in Nat : k <= n => f[n + 1 - k] \in Nat}
<1>6. 0 \in D
  BY <1>1, <1>5
<1>7. ASSUME NEW k \in Nat, k \in D PROVE k + 1 \in D
  <2> SUFFICES ASSUME k + 1 <= n PROVE f[n + 1 - (k + 1)] \in Nat
    OBVIOUS
  <2> DEFINE p == n - k
  <2>a. p \in 1 .. n
    BY <1>1
  <2>1. PICK i \in 1 .. n : i = p
    BY <2>a, Zenon
  <2>2. n + 1 - k = i + 1 /\ n + 1 - (k + 1) = i
    BY <1>1, <2>1
  <2>3. f[i + 1] \in Nat /\ Weight(es, i) \in Nat
    BY <1>1, <1>7, <2>2, WeightIs
  <2>4. f[i] = f[i + 1] + Weight(es, i)
    BY <1>5
  <2>5. f[i] \in Nat
    BY <2>3, <2>4
  <2> QED BY <2>2, <2>5
<1>8. \A k \in Nat : k \in D
  <2> HIDE DEF D
  <2> QED BY <1>6, <1>7, Induct
<1>9. ASSUME NEW j \in 1 .. n + 1 PROVE f[j] \in Nat
  <2>1. PICK k \in Nat : k = n + 1 - j
    BY <1>1
  <2>2. k <= n /\ n + 1 - k = j
    BY <1>1, <2>1
  <2> QED BY <1>8, <2>2
<1>10. f \in [1 .. n + 1 -> Nat]
  BY <1>5, <1>9
<1> QED BY <1>1, <1>4, <1>5, <1>10 DEF Adds
\* The sums grow towards the root, but not over what is no message.
LEMMA AddsDown ==
  ASSUME NEW es \in Seq(Entries), NEW g, Adds(g, es, 1)
  PROVE  /\ \A i, j \in 1 .. Len(es) + 1 : i <= j => g[i] >= g[j]
         /\ \A i, j \in 1 .. Len(es) + 1 :
              i <= j /\ (\A m \in i .. j - 1 : es[m].type \notin MessageTypes) => g[i] = g[j]
<1>1. PICK n \in Nat : n = Len(es)
  OBVIOUS
<1>2. g \in [1 .. n + 1 -> Nat] /\ \A j \in 1 .. n : g[j] = g[j + 1] + Weight(es, j) /\ Weight(es, j) \in Nat
  BY <1>1, WeightIs DEF Adds
<1> DEFINE T == {k \in Nat : \A i \in 1 .. n + 1 : i + k <= n + 1 => g[i] >= g[i + k]}
           E == {k \in Nat : \A i \in 1 .. n + 1 :
                   i + k <= n + 1 /\ (\A m \in i .. i + k - 1 : es[m].type \notin MessageTypes) =>
                     g[i] = g[i + k]}
<1>3. 0 \in T /\ 0 \in E
  <2>1. ASSUME NEW i \in 1 .. n + 1 PROVE i + 0 = i /\ g[i] >= g[i]
    BY <1>2
  <2> QED BY <2>1
<1>4. ASSUME NEW k \in Nat, k \in T PROVE k + 1 \in T
  <2> SUFFICES ASSUME NEW i \in 1 .. n + 1, i + (k + 1) <= n + 1 PROVE g[i] >= g[i + (k + 1)]
    OBVIOUS
  <2>1. i \in 1 .. n /\ i + 1 \in 1 .. n + 1 /\ (i + 1) + k = i + (k + 1) /\ i + (k + 1) \in 1 .. n + 1
    BY <1>1
  <2>2. g[i + 1] >= g[(i + 1) + k]
    BY <1>4, <2>1
  <2>3. g[i] = g[i + 1] + Weight(es, i) /\ Weight(es, i) \in Nat
    BY <1>2, <2>1
  <2>4. g[i + 1] \in Nat /\ g[i + (k + 1)] \in Nat
    BY <1>2, <2>1
  <2> QED BY <2>1, <2>2, <2>3, <2>4
<1>5. ASSUME NEW k \in Nat, k \in E PROVE k + 1 \in E
  <2> SUFFICES ASSUME NEW i \in 1 .. n + 1, i + (k + 1) <= n + 1,
                      \A m \in i .. i + (k + 1) - 1 : es[m].type \notin MessageTypes
               PROVE  g[i] = g[i + (k + 1)]
    OBVIOUS
  <2>1. i \in 1 .. n /\ i + 1 \in 1 .. n + 1 /\ (i + 1) + k = i + (k + 1) /\ i + (k + 1) \in 1 .. n + 1
    BY <1>1
  <2>2. i \in i .. i + (k + 1) - 1
    OBVIOUS
  <2>3. \A m \in i + 1 .. (i + 1) + k - 1 : es[m].type \notin MessageTypes
    OBVIOUS
  <2>4. g[i + 1] = g[(i + 1) + k]
    BY <1>5, <2>1, <2>3
  <2>5. Weight(es, i) = 0
    BY <2>2 DEF Weight
  <2>6. g[i] = g[i + 1] + Weight(es, i) /\ g[i + 1] \in Nat
    BY <1>2, <2>1
  <2>7. g[i] = g[i + 1]
    BY <2>5, <2>6
  <2> QED BY <2>1, <2>4, <2>7
<1>6. \A k \in Nat : k \in T /\ k \in E
  <2> HIDE DEF T, E
  <2> QED BY <1>3, <1>4, <1>5, Induct
<1>7. ASSUME NEW i \in 1 .. n + 1, NEW j \in 1 .. n + 1, i <= j
      PROVE  /\ g[i] >= g[j]
             /\ (\A m \in i .. j - 1 : es[m].type \notin MessageTypes) => g[i] = g[j]
  <2>1. PICK k \in Nat : k = j - i
    BY <1>1, <1>7
  <2>2. i + k = j /\ i + k <= n + 1
    BY <2>1
  <2>3. k \in T /\ k \in E
    BY <1>6
  <2>4. g[i] >= g[j]
    BY <2>2, <2>3
  <2>5. (\A m \in i .. j - 1 : es[m].type \notin MessageTypes) => g[i] = g[j]
    BY <2>2, <2>3
  <2> QED BY <2>4, <2>5
<1> QED BY <1>1, <1>7

\* A compaction adds nothing to them.
LEMMA AddsGrow ==
  ASSUME NEW es \in Seq(Entries), NEW e \in Entries, e.type \notin MessageTypes, NEW g, NEW h,
         Adds(g, es, 1), Adds(h, Append(es, e), 1)
  PROVE  \A i \in 1 .. Len(es) + 1 : h[i] = g[i]
<1>1. PICK n \in Nat : n = Len(es)
  OBVIOUS
<1>2. PICK fs : fs = Append(es, e) /\ fs \in Seq(Entries)
  <2>1. Append(es, e) \in Seq(Entries)
    OBVIOUS
  <2> QED BY <2>1, Zenon
<1>3. Len(fs) = n + 1 /\ fs[n + 1] = e /\ \A j \in 1 .. n : fs[j] = es[j]
  BY <1>1, <1>2
<1>4. /\ g[n + 1] = 0 /\ \A j \in 1 .. n : g[j] = g[j + 1] + Weight(es, j)
      /\ h[(n + 1) + 1] = 0 /\ \A j \in 1 .. n + 1 : h[j] = h[j + 1] + Weight(fs, j)
  BY <1>1, <1>2, <1>3 DEF Adds
<1>5. Weight(fs, n + 1) = 0 /\ \A j \in 1 .. n : Weight(fs, j) = Weight(es, j)
  BY <1>3 DEF Weight
<1>6. h[n + 1] = 0
  BY <1>4, <1>5
<1> DEFINE T == {k \in Nat : k <= n => h[n + 1 - k] = g[n + 1 - k]}
<1>7. 0 \in T
  BY <1>4, <1>6
<1>8. ASSUME NEW k \in Nat, k \in T PROVE k + 1 \in T
  <2> SUFFICES ASSUME k + 1 <= n PROVE h[n + 1 - (k + 1)] = g[n + 1 - (k + 1)]
    OBVIOUS
  <2> DEFINE p == n - k
  <2>1. p \in 1 .. n
    BY <1>1
  <2>2. PICK i \in 1 .. n : i = p
    BY <2>1, Zenon
  <2>3. n + 1 - k = i + 1 /\ n + 1 - (k + 1) = i
    BY <1>1, <2>2
  <2>4. h[i + 1] = g[i + 1]
    BY <1>8, <2>3
  <2>5. h[i] = h[i + 1] + Weight(fs, i) /\ g[i] = g[i + 1] + Weight(es, i) /\ Weight(fs, i) = Weight(es, i)
    BY <1>4, <1>5
  <2>6. h[i] = g[i]
    BY <2>4, <2>5
  <2> QED BY <2>3, <2>6
<1>9. \A k \in Nat : k \in T
  <2> HIDE DEF T
  <2> QED BY <1>7, <1>8, Induct
<1>10. ASSUME NEW i \in 1 .. n + 1 PROVE h[i] = g[i]
  <2>1. PICK k \in Nat : k = n + 1 - i
    BY <1>1
  <2>2. k <= n /\ n + 1 - k = i
    BY <1>1, <2>1
  <2> QED BY <1>9, <2>2
<1> QED BY <1>1, <1>10

\* What begins with no message amounts to as much as the first message in it.
LEMMA NextMessage ==
  ASSUME NEW es \in Seq(Entries), NEW g, Adds(g, es, 1), NEW i \in 1 .. Len(es) + 1, NEW k \in Nat \ {0},
         \A m \in i .. Len(es) : es[m].type \in MessageTypes => g[m] < k
  PROVE  g[i] < k
<1>1. PICK n \in Nat : n = Len(es)
  OBVIOUS
<1> DEFINE S == {m \in i .. n : es[m].type \in MessageTypes}
<1>2. CASE S = {}
  <2>1. \A m \in i .. n + 1 - 1 : es[m].type \notin MessageTypes
    BY <1>1, <1>2
  <2>2. g[i] = g[n + 1]
    BY <1>1, <2>1, AddsDown
  <2>3. g[n + 1] = 0
    BY <1>1 DEF Adds
  <2> QED BY <2>2, <2>3
<1>3. CASE S # {}
  <2>1. PICK m : m = Min(S)
    OBVIOUS
  <2>2. m \in S /\ \A y \in S : m <= y
    <3>1. S \subseteq Nat
      BY <1>1
    <3> HIDE DEF S
    <3> QED BY <1>3, <2>1, <3>1, SmallestIs
  <2>3. \A y \in i .. m - 1 : es[y].type \notin MessageTypes
    BY <1>1, <2>2
  <2>4. m \in 1 .. n + 1 /\ i <= m
    BY <1>1, <2>2
  <2>5. g[i] = g[m]
    BY <1>1, <2>3, <2>4, AddsDown
  <2>6. g[m] < k
    BY <1>1, <2>2
  <2> QED BY <2>5, <2>6
<1> QED BY <1>2, <1>3
LEMMA BudgetIs ==
  ASSUME CompactionTypes, NEW start \in 1 .. Len(entries) + 1, NEW g, g = TokensOf(entries)
  PROVE  /\ BudgetEnd(start) # 0 =>
              /\ BudgetEnd(start) \in start .. Len(entries)
              /\ entries[BudgetEnd(start)].type \in MessageTypes
         /\ BudgetEnd(start) # 0 => g[BudgetEnd(start)] >= keepRecentTokens
         /\ BudgetEnd(start) \in 0 .. Len(entries)
         /\ \A m \in start .. Len(entries) :
              entries[m].type \in MessageTypes /\ m > BudgetEnd(start) => g[m] < keepRecentTokens
<1>1. PICK n \in Nat : n = Len(entries)
  BY PlacesAre
<1>2. Places = 1 .. n
  BY <1>1, PlacesAre
<1> DEFINE S == {i \in 1 .. n : i >= start /\ entries[i].type \in MessageTypes /\ g[i] >= keepRecentTokens}
<1>3. PICK b : b = BudgetEnd(start)
  OBVIOUS
<1>4. b = LastOf(S)
  <2>1. \A i \in Places : TokensFrom(i) = g[i]
    BY TokensAre
  <2>2. {i \in Places : i >= start /\ Is(i, MessageTypes) /\ TokensFrom(i) >= keepRecentTokens} = S
    BY <1>2, <2>1 DEF Is
  <2> HIDE DEF S
  <2> QED BY <1>3, <2>2 DEF BudgetEnd
<1>5. /\ S = {} => b = 0
      /\ S # {} => b \in S /\ b # 0 /\ \A y \in S : y <= b
      /\ b \in 0 .. n
  <2>1. S \subseteq 1 .. n
    OBVIOUS
  <2> HIDE DEF S
  <2> QED BY <1>4, <2>1, LastIs
<1>6. b # 0 => b \in start .. n /\ entries[b].type \in MessageTypes
  BY <1>1, <1>5
<1>7. b # 0 => g[b] >= keepRecentTokens
  BY <1>5
<1>8. ASSUME NEW m \in start .. n, entries[m].type \in MessageTypes, m > b
      PROVE  g[m] < keepRecentTokens
  <2>1. m \in 1 .. n /\ m >= start
    BY <1>1
  <2>2. m \notin S
    BY <1>5, <1>8, <2>1
  <2>3. ~(g[m] >= keepRecentTokens)
    BY <1>8, <2>1, <2>2
  <2>4. g[m] \in Nat
    <3>1. Adds(g, entries, 1)
      BY TokensAdd DEF CompactionTypes
    <3> QED BY <1>1, <2>1, <3>1 DEF Adds
  <2> QED BY <2>3, <2>4, SizesAssumption
<1> QED BY <1>1, <1>3, <1>5, <1>6, <1>7, <1>8

\* No message is larger than the largest, which is a number.
LEMMA SizesAre ==
  ASSUME CompactionAssumption
  PROVE  Max(Sizes) \in Nat /\ \A w \in Sizes : w <= Max(Sizes)
<1>1. PICK n \in Nat : Sizes \subseteq 0 .. n
  BY DEF CompactionAssumption
<1>2. Sizes # {}
  BY DEF CompactionAssumption
<1>3. PICK S : S = Sizes
  OBVIOUS
<1>4. S \subseteq 0 .. n /\ S # {} /\ \A w \in S : w \in Nat
  BY <1>1, <1>2, <1>3
<1>5. Max(S) \in S /\ \A w \in S : w <= Max(S)
  BY <1>4, GreatestIs
<1>6. Max(S) \in Nat
  BY <1>4, <1>5
<1> QED BY <1>3, <1>5, <1>6

\* The last entry that a compaction might cut at.
LastCut == LastOf({i \in Places : Is(i, CutTypes)})

LEMMA CutKeeps ==
  ASSUME CompactionAssumption, CompactionTypes, NEW start \in 1 .. Len(entries) + 1,
         NEW g, g = TokensOf(entries), NEW f, f = CutPoint(start).firstKept
  PROVE  g[f] < keepRecentTokens + Max(Sizes) \/ g[LastCut + 1] >= keepRecentTokens
<1>1. PICK n \in Nat : n = Len(entries)
  BY PlacesAre
<1>2. Places = 1 .. n /\ entries \in Seq(Entries)
  BY <1>1, PlacesAre DEF CompactionTypes
<1>3. PICK k \in Nat \ {0} : k = keepRecentTokens
  BY SizesAssumption
<1>4. PICK M \in Nat : M = Max(Sizes) /\ \A w \in Sizes : w <= M
  BY SizesAre
<1>5. Adds(g, entries, 1)
  BY <1>2, TokensAdd
<1>6. g \in [1 .. n + 1 -> Nat] /\ \A j \in 1 .. n : g[j] = g[j + 1] + Weight(entries, j)
  BY <1>1, <1>5 DEF Adds
<1>7. PICK b : b = BudgetEnd(start)
  OBVIOUS
<1>8. PICK l : l = LastCut
  OBVIOUS
<1>9. /\ b \in 0 .. n /\ (b # 0 => b \in start .. n /\ entries[b].type \in MessageTypes)
      /\ b # 0 => g[b] >= k
  BY <1>1, <1>3, <1>7, BudgetIs
<1>10. \A m \in start .. n : entries[m].type \in MessageTypes /\ m > b => g[m] < k
  BY <1>1, <1>3, <1>7, BudgetIs
<1>11. ASSUME NEW i \in start .. n + 1, i > b PROVE g[i] < k
  <2>1. \A m \in i .. n : entries[m].type \in MessageTypes => g[m] < k
    BY <1>1, <1>9, <1>10, <1>11
  <2>2. i \in 1 .. n + 1
    BY <1>1
  <2> QED BY <1>1, <1>2, <1>5, <2>1, <2>2, NextMessage
<1>12. l \in 0 .. n /\ (l # 0 => entries[l].type \in CutTypes)
  <2> DEFINE S == {i \in Places : Is(i, CutTypes)}
  <2>1. S \subseteq 1 .. n /\ \A i \in S : entries[i].type \in CutTypes
    BY <1>2 DEF Is
  <2>2. l = LastOf(S)
    BY <1>8 DEF LastCut
  <2> HIDE DEF S
  <2> QED BY <2>1, <2>2, LastIs
<1>13. ASSUME b # 0, \A c \in ValidCutPoints(start) : c < b PROVE g[l + 1] >= k
  <2>1. l < b
    <3>1. CASE l >= start /\ l # 0
      <4>1. l \in ValidCutPoints(start)
        BY <1>2, <1>12, <3>1 DEF ValidCutPoints, Is, CutTypes
      <4> QED BY <1>13, <4>1
    <3> QED BY <1>1, <1>9, <1>12, <1>13, <3>1
  <2>2. l + 1 \in 1 .. n + 1 /\ b \in 1 .. n + 1 /\ l + 1 <= b
    BY <1>9, <1>12, <1>13, <2>1
  <2>3. g[l + 1] >= g[b]
    BY <1>1, <1>2, <1>5, <2>2, AddsDown
  <2>4. g[l + 1] \in Nat /\ g[b] \in Nat /\ g[b] >= k
    BY <1>6, <1>9, <1>13, <2>2
  <2> QED BY <2>3, <2>4
<1>14. ASSUME NEW i \in 1 .. n + 1, g[i] < k PROVE g[i] < k + M
  BY <1>6, <1>14
<1>15. CASE ValidCutPoints(start) = {}
  <2>1. f = start
    BY <1>15, NoCutIs
  <2>2. CASE b = 0
    <3>1. f \in start .. n + 1 /\ f > b /\ f \in 1 .. n + 1
      BY <1>1, <2>1, <2>2
    <3> QED BY <1>3, <1>4, <1>11, <1>14, <3>1
  <2>3. CASE b # 0
    BY <1>3, <1>8, <1>13, <1>15, <2>3
  <2> QED BY <2>2, <2>3
<1>16. CASE ValidCutPoints(start) # {}
  <2>1. PICK c : c = Cut(start)
    OBVIOUS
  <2>2. c \in ValidCutPoints(start) /\ f \in start .. c /\ NoMessage(f, c)
    BY <1>16, <2>1, CutIs
  <2>3. c \in 1 .. n /\ c >= start
    BY <1>2, <2>2 DEF ValidCutPoints
  <2>4. f \in 1 .. n + 1 /\ f <= c /\ c \in 1 .. n + 1 /\ c \in start .. n + 1
    BY <1>1, <2>2, <2>3
  <2>5. g[f] = g[c]
    <3>1. \A m \in f .. c - 1 : entries[m].type \notin MessageTypes
      BY <1>2, <2>2, <2>3, <2>4 DEF NoMessage, Is
    <3> QED BY <1>1, <1>2, <1>5, <2>4, <3>1, AddsDown
  <2>6. CASE b = 0 \/ c > b
    <3>1. c > b
      BY <2>3, <2>6
    <3>2. g[c] < k
      BY <1>11, <2>4, <3>1
    <3> QED BY <1>3, <1>4, <1>14, <2>4, <2>5, <3>2
  <2>7. CASE b # 0 /\ c = b
    <3>1. b + 1 \in start .. n + 1 /\ b + 1 > b
      BY <1>9, <2>3, <2>7
    <3>2. g[b + 1] < k
      BY <1>11, <3>1
    <3>3. Weight(entries, b) \in Sizes
      BY <1>1, <1>9, <2>3, <2>7 DEF Weight, CompactionTypes, Is
    <3>4. Weight(entries, b) <= M /\ Weight(entries, b) \in Nat
      BY <1>4, <3>3, SizesAssumption
    <3>5. g[b] = g[b + 1] + Weight(entries, b) /\ g[b + 1] \in Nat
      BY <1>6, <2>3, <2>7
    <3>6. g[b] < k + M
      BY <3>2, <3>4, <3>5
    <3> QED BY <1>3, <1>4, <2>5, <2>7, <3>6
  <2>8. CASE b # 0 /\ c < b
    <3>1. \A v \in ValidCutPoints(start) : v >= b => c >= b
      BY <1>7, <1>16, <2>1, <2>8, CutIs
    <3>2. \A v \in ValidCutPoints(start) : v \in Nat
      BY <1>2 DEF ValidCutPoints
    <3>3. \A v \in ValidCutPoints(start) : v < b
      BY <1>9, <2>3, <2>8, <3>1, <3>2
    <3> QED BY <1>3, <1>8, <1>13, <2>8, <3>3
  <2> QED BY <1>9, <2>3, <2>6, <2>7, <2>8
<1> QED BY <1>15, <1>16
\* What is kept is recent, in the terms of the sums.
LEMMA RecentIs ==
  ASSUME NEW L, L = LastCompaction', NEW l, l = LastCut', NEW h, h = TokensOf(entries'),
         \/ L # Len(entries')
         \/ h[entries'[L].first] < keepRecentTokens + Max(Sizes)
         \/ h[l + 1] >= keepRecentTokens
  PROVE  KeepsTheRecent'
<1>1. \A i : TokensFrom(i)' = TokensOf(entries')[i]
  BY DEF TokensFrom, TokensOf, IsTokens, Is
<1>2. LastCut' = LastOf({i \in Places : Is(i, (MessageTypes \ {"toolResult"}) \union UserLike)})'
  BY DEF LastCut, CutTypes
<1>3. L = Len(entries')
            => h[entries'[L].first] < keepRecentTokens + Max(Sizes) \/ h[l + 1] >= keepRecentTokens
  OBVIOUS
<1> QED BY <1>1, <1>2, <1>3 DEF KeepsTheRecent

LEMMA RecentSays ==
  ASSUME CompactionTypes, NEW e, Says(e) PROVE KeepsTheRecent'
<1>1. PICK n \in Nat : n = Len(entries)
  BY PlacesAre
<1>2. e \in Entries /\ entries' = Append(entries, e) /\ e.type # "compaction"
  BY DEF Says, MessageTypes, UserLike, NoteTypes
<1>3. LastCompaction' = LastCompaction /\ Len(entries') = n + 1
  BY <1>1, <1>2, BoundaryGrows, Grown
<1>4. LastCompaction \in 0 .. n
  BY <1>1, SetsIn, LastIs
<1>5. LastCompaction' # Len(entries')
  BY <1>3, <1>4
<1> QED BY <1>5 DEF KeepsTheRecent

LEMMA RecentCompacts ==
  ASSUME CompactionAssumption, CompactionTypes, KeptInv, NEW e, Compacts(e) PROVE KeepsTheRecent'
<1>1. PICK n, B, f : n = Len(entries) /\ B = BoundaryStart /\ f = CutPoint(B).firstKept
  OBVIOUS
<1>2. /\ e \in Entries /\ entries' = Append(entries, e) /\ e.type = "compaction" /\ e.first = f
      /\ e.type \notin MessageTypes /\ e.type \notin CutTypes
  BY <1>1 DEF Compacts, MessageTypes, UserLike, CutTypes
<1>3. /\ n \in Nat /\ Places = 1 .. n /\ Places' = 1 .. n \union {n + 1} /\ Len(entries') = n + 1
      /\ \A i \in 1 .. n : entries'[i] = entries[i]
      /\ entries'[n + 1] = e /\ B \in 1 .. n + 1
  BY <1>1, <1>2, PlacesAre, Grown DEF KeptInv
<1>4. LastCompaction' = n + 1
  <2>1. Compactions' = Compactions \union {n + 1} /\ Compactions \subseteq 1 .. n
    BY <1>1, <1>2, SetsGrow, SetsIn
  <2>2. LastOf(Compactions') = n + 1
    BY <1>3, <2>1, NewLastIs
  <2>3. LastCompaction' = LastOf(Compactions')
    BY DEF LastCompaction, Compactions
  <2> QED BY <2>2, <2>3
<1>5. LastCut' = LastCut
  <2>1. {i \in Places' : Is(i, CutTypes)'} = {i \in Places : Is(i, CutTypes)}
    BY <1>2, <1>3 DEF Is
  <2> QED BY <2>1 DEF LastCut, CutTypes
<1>6. PICK l, g, h : l = LastCut /\ g = TokensOf(entries) /\ h = TokensOf(entries')
  OBVIOUS
<1>7. \A i \in 1 .. n + 1 : h[i] = g[i]
  <2>1. entries \in Seq(Entries) /\ entries' \in Seq(Entries)
    BY <1>2, Grown DEF CompactionTypes
  <2>2. Adds(g, entries, 1) /\ Adds(h, Append(entries, e), 1)
    BY <1>2, <1>6, <2>1, TokensAdd
  <2> QED BY <1>1, <1>2, <2>1, <2>2, AddsGrow
<1>8. f \in 1 .. n + 1
  BY <1>1, <1>3, KeptPlace
<1>9. l + 1 \in 1 .. n + 1
  <2> DEFINE S == {i \in Places : Is(i, CutTypes)}
  <2>1. S \subseteq 1 .. n /\ l = LastOf(S)
    BY <1>3, <1>6 DEF LastCut
  <2>2. l \in 0 .. n
    <3> HIDE DEF S
    <3> QED BY <1>3, <2>1, LastIs
  <2> QED BY <1>3, <2>2
<1>10. g[f] < keepRecentTokens + Max(Sizes) \/ g[l + 1] >= keepRecentTokens
  BY <1>1, <1>3, <1>6, CutKeeps
<1>11. h[f] < keepRecentTokens + Max(Sizes) \/ h[l + 1] >= keepRecentTokens
  BY <1>7, <1>8, <1>9, <1>10
<1>12. entries'[n + 1].first = f
  BY <1>2, <1>3
<1>13. h[entries'[n + 1].first] < keepRecentTokens + Max(Sizes) \/ h[l + 1] >= keepRecentTokens
  BY <1>11, <1>12
<1> QED BY <1>4, <1>5, <1>6, <1>13, RecentIs

LEMMA RecentStays ==
  ASSUME KeepsTheRecent, UNCHANGED compactionVars PROVE KeepsTheRecent'
<1>1. entries' = entries
  BY DEF compactionVars
<1>2. \A i : TokensFrom(i)' = TokensFrom(i)
  BY <1>1 DEF TokensFrom, Is
<1>3. LastCompaction' = LastCompaction
  BY <1>1 DEF LastCompaction, Places, Is
<1>4. LastOf({i \in Places : Is(i, (MessageTypes \ {"toolResult"}) \union UserLike)})'
      = LastOf({i \in Places : Is(i, (MessageTypes \ {"toolResult"}) \union UserLike)})
  BY <1>1 DEF Places, Is
<1> QED BY <1>1, <1>2, <1>3, <1>4 DEF KeepsTheRecent

KeepsInv == CompactionTypes /\ KeptInv /\ KeepsTheRecent

LEMMA KeepsInit == ASSUME CompactionInit PROVE KeepsInv
<1>1. entries = <<>> /\ Len(entries) = 0 /\ Places = {}
  BY DEF CompactionInit, Places
<1>2. CompactionTypes
  BY <1>1 DEF CompactionTypes
<1>3. LastCompaction = 0 /\ BoundaryStart = 1
  BY <1>1 DEF LastCompaction, BoundaryStart, LastOf
<1>4. ~Calling
  BY <1>1 DEF Calling, LastOf
<1>5. KeptInv
  BY <1>1, <1>3, <1>4 DEF KeptInv
<1>6. KeepsTheRecent
  BY <1>3 DEF KeepsTheRecent
<1> QED BY <1>2, <1>5, <1>6 DEF KeepsInv

LEMMA KeepsStep ==
  ASSUME CompactionAssumption, KeepsInv, [CompactionNext]_compactionVars PROVE KeepsInv'
<1>1. CompactionTypes /\ KeptInv /\ KeepsTheRecent
  BY DEF KeepsInv
<1>2. CompactionTypes'
  BY <1>1, CompactionTypesStep
<1>3. CASE UNCHANGED compactionVars
  BY <1>1, <1>2, <1>3, KeptStays, RecentStays DEF KeepsInv
<1>4. ASSUME NEW e, Says(e) PROVE KeepsInv'
  <2>1. KeptInv'
    BY <1>1, <1>2, <1>4, KeptSays
  <2>2. KeepsTheRecent'
    BY <1>1, <1>4, RecentSays
  <2> QED BY <1>2, <2>1, <2>2 DEF KeepsInv
<1>5. ASSUME NEW e, Compacts(e) PROVE KeepsInv'
  <2>1. KeptInv'
    BY <1>1, <1>2, <1>5, KeptCompacts
  <2>2. KeepsTheRecent'
    BY <1>1, <1>5, RecentCompacts
  <2> QED BY <1>2, <2>1, <2>2 DEF KeepsInv
<1> QED BY <1>1, <1>3, <1>4, <1>5, StepAdds

LEMMA KeepsImplies == ASSUME KeepsInv PROVE CompactionKeeps
<1>1. CompactionTypes /\ KeptInv /\ KeepsTheRecent
  BY DEF KeepsInv
<1>2. PICK n, B : n = Len(entries) /\ B = BoundaryStart
  OBVIOUS
<1>3. n \in Nat /\ Places = 1 .. n /\ B \in 1 .. n + 1
  BY <1>1, <1>2, PlacesAre DEF KeptInv
<1>4. Kept = {i \in 1 .. n : i >= B /\ entries[i].type \in MessageTypes \union UserLike}
  BY <1>2, <1>3 DEF Kept, Shown, Is
<1>5. Shown(1, Len(entries)) \subseteq Kept \union Covered \union forgotten
  <2> SUFFICES ASSUME NEW i \in Shown(1, Len(entries)) PROVE i \in Kept \union (Covered \union forgotten)
    OBVIOUS
  <2>1. i \in 1 .. n /\ Is(i, MessageTypes \union UserLike)
    BY <1>2, <1>3 DEF Shown
  <2>2. CASE i >= B
    BY <1>4, <2>1, <2>2 DEF Is
  <2>3. CASE i < B
    BY <1>1, <1>2, <1>3, <2>1, <2>3 DEF KeptInv
  <2> QED BY <1>3, <2>1, <2>2, <2>3
<1>6. ResultsFollowCalls
  <2> SUFFICES ASSUME NEW i \in Kept, Is(i, {"toolResult"})
               PROVE  LastOf({j \in Places : j < i /\ Is(j, {"assistant"})}) \in Kept
    BY DEF ResultsFollowCalls
  <2>1. i \in 1 .. n /\ i >= B /\ entries[i].type = "toolResult"
    BY <1>4 DEF Is
  <2>2. PICK a \in 1 .. n :
          /\ a < i /\ entries[a].type = "assistant" /\ (i >= B => a >= B)
          /\ \A j \in 1 .. n : a < j /\ j < i => entries[j].type \notin CutTypes
    BY <1>1, <1>2, <1>3, <2>1, ResultsAre DEF ResultsKept
  <2> DEFINE S == {j \in Places : j < i /\ Is(j, {"assistant"})}
  <2>3. S \subseteq 1 .. n /\ a \in S
    BY <1>3, <2>2 DEF Is
  <2>4. \A y \in S : y <= a
    <3> SUFFICES ASSUME NEW y \in S, a < y PROVE FALSE
      BY <1>3, <2>2
    <3>1. y \in 1 .. n /\ y < i /\ entries[y].type = "assistant"
      BY <1>3 DEF Is
    <3>2. entries[y].type \notin CutTypes
      BY <2>2, <3>1
    <3> QED BY <3>1, <3>2 DEF CutTypes, MessageTypes
  <2>5. PICK m : m = LastOf(S)
    OBVIOUS
  <2>6. m \in S /\ a <= m
    <3> HIDE DEF S
    <3> QED BY <1>3, <2>3, <2>5, LastIs
  <2>7. m = a
    BY <1>3, <2>2, <2>3, <2>4, <2>6
  <2>8. a \in Kept
    BY <1>4, <2>1, <2>2 DEF MessageTypes
  <2> QED BY <2>5, <2>7, <2>8
<1> QED BY <1>1, <1>5, <1>6 DEF CompactionKeeps
=============================================================================

-------------------------- MODULE MessageDelivery --------------------------
(***************************************************************************)
(* What the agent promises to whoever hands it a message: messages of one  *)
(* channel (prompts, steering, follow-ups) enter the conversation in the   *)
(* order they were handed in, each at most once, among the answers; and    *)
(* no message disappears except by an event that is visible to the caller  *)
(* (a clear, a reset, an assignment, a rejected run), counted in drops.    *)
(***************************************************************************)
EXTENDS Integers, Sequences

CONSTANTS Channels, Items
VARIABLES waiting, conversation, drops
vars == <<waiting, conversation, drops>>

Front(s) == SubSeq(s, 1, Len(s) - 1)

Init ==
  /\ waiting = [c \in Channels |-> <<>>]
  /\ conversation = <<>>
  /\ drops = 0

\* New messages join the end of one channel.
Accept(c) ==
  /\ Len(waiting'[c]) > Len(waiting[c])
  /\ SubSeq(waiting'[c], 1, Len(waiting[c])) = waiting[c]
  /\ \A i \in Len(waiting[c]) + 1 .. Len(waiting'[c]) : waiting'[c][i] \in Items
  /\ \A d \in Channels \ {c} : waiting'[d] = waiting[d]
  /\ UNCHANGED <<conversation, drops>>

\* The oldest message of a channel enters the conversation.
Deliver(c) ==
  /\ waiting[c] # <<>>
  /\ conversation' = Append(conversation, Head(waiting[c]))
  /\ waiting' = [waiting EXCEPT ![c] = Tail(@)]
  /\ UNCHANGED drops

\* So does what nobody handed in: an answer, the result of a tool.
Answer ==
  /\ conversation' # <<>> /\ conversation = Front(conversation')
  /\ conversation'[Len(conversation')] \notin Items
  /\ UNCHANGED <<waiting, drops>>

\* Messages are given up visibly; what stays keeps its order.
Discard ==
  /\ drops' = drops + 1
  /\ \A c \in Channels :
       \E i, j \in 0 .. Len(waiting[c]) + 1 : waiting'[c] = SubSeq(waiting[c], i + 1, j)
  /\ \/ conversation' \in {conversation, <<>>}
     \/ /\ conversation # <<>> /\ conversation[Len(conversation)] \notin Items
        /\ conversation' = Front(conversation)

Next == (\E c \in Channels : Accept(c) \/ Deliver(c)) \/ Answer \/ Discard

Spec == Init /\ [][Next]_vars

=============================================================================

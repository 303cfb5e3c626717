-------------------------- MODULE ConversationLog --------------------------
(***************************************************************************)
(* What a session store promises the person typing into it.  A             *)
(* conversation is a growing log of entries.  Up to the first answer it    *)
(* may be lost, because nothing is kept of a conversation nobody answered; *)
(* from the first answer on, every entry is durable the moment it is       *)
(* added, and switching back to the conversation brings all of it back.    *)
(***************************************************************************)
EXTENDS Sequences, SequencesExt

CONSTANTS
  Logs,         \* the names of conversations
  IsAnswer(_)   \* the entries that make a conversation worth keeping

VARIABLES
  current,      \* the conversation in use
  live,         \* its entries
  durable       \* the entries a restart would find, of every conversation

vars == <<current, live, durable>>

Answered(entries) == \E i \in DOMAIN entries : IsAnswer(entries[i])

Init == current \in Logs /\ live = <<>> /\ durable = [log \in Logs |-> <<>>]

\* One more entry, durable from now on if the conversation is answered by now.
Add ==
  /\ UNCHANGED current
  /\ live' # <<>> /\ live = Front(live')
  /\ durable' = IF Answered(live') THEN [durable EXCEPT ![current] = live'] ELSE durable

\* A new conversation has nothing to bring back; an old one has all that was kept.
Switch(log) ==
  /\ current' = log
  /\ live' = durable[log]
  /\ UNCHANGED durable

\* A conversation that starts with answered entries, of another one.
Start(log) ==
  /\ current' = log
  /\ Answered(live')
  /\ durable[log] = <<>>
  /\ durable' = [durable EXCEPT ![log] = live']

Next == Add \/ \E log \in Logs : Switch(log) \/ Start(log)

Spec == Init /\ [][Next]_vars
=============================================================================

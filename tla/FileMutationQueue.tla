------------------------- MODULE FileMutationQueue -------------------------
(***************************************************************************)
(* packages/coding-agent/src/core/tools/file-mutation-queue.ts: a chain of *)
(* promises per file.  A caller takes the promise it finds in the map as   *)
(* the one to wait for, leaves its own in its place, and deletes the map   *)
(* entry when it is done, unless somebody has come after it.               *)
(*                                                                         *)
(* A caller's promise is resolved when its predecessor's is and it has     *)
(* been released itself; as it enters only after its predecessor, that is  *)
(* when it has left.  Promises are therefore named by their callers.       *)
(***************************************************************************)
EXTENDS Naturals

CONSTANTS
  Callers,  \* calls of withFileMutationQueue, each made once
  Keys,     \* what getMutationQueueKey returns
  None      \* no caller

VARIABLES
  fileMutationQueues, \* for each key the last caller, or None
  currentQueue,       \* for each caller the one it waits for, or None
  key,                \* for each caller its key
  stage,              \* where each caller is
  ticket, tickets     \* history: the order of the calls

vars == <<fileMutationQueues, currentQueue, key, stage, ticket, tickets>>

Init ==
  /\ fileMutationQueues = [k \in Keys |-> None]
  /\ currentQueue = [c \in Callers |-> None]
  /\ key = [c \in Callers |-> None]
  /\ stage = [c \in Callers |-> "new"]
  /\ ticket = [c \in Callers |-> 0]
  /\ tickets = 0

\* Seeded fault: the caller waits for nobody.
CallWithoutChain(c, k) ==
  /\ stage[c] = "new"
  /\ stage' = [stage EXCEPT ![c] = "waiting"]
  /\ key' = [key EXCEPT ![c] = k]
  /\ currentQueue' = currentQueue
  /\ fileMutationQueues' = [fileMutationQueues EXCEPT ![k] = c]
  /\ tickets' = tickets + 1
  /\ ticket' = [ticket EXCEPT ![c] = tickets']

\* The synchronous part: key, currentQueue, and the map entry.
Call(c, k) ==
  /\ stage[c] = "new"
  /\ stage' = [stage EXCEPT ![c] = "waiting"]
  /\ key' = [key EXCEPT ![c] = k]
  /\ currentQueue' = [currentQueue EXCEPT ![c] = fileMutationQueues[k]]
  /\ fileMutationQueues' = [fileMutationQueues EXCEPT ![k] = c]
  /\ tickets' = tickets + 1
  /\ ticket' = [ticket EXCEPT ![c] = tickets']

MayEnter(c) ==
  stage[c] = "waiting" /\ (currentQueue[c] # None => stage[currentQueue[c]] = "left")

\* await currentQueue returns and fn() starts.
Enter(c) ==
  /\ MayEnter(c)
  /\ stage' = [stage EXCEPT ![c] = "inside"]
  /\ UNCHANGED <<fileMutationQueues, currentQueue, key, ticket, tickets>>

\* Seeded fault: the entry is deleted whoever came after.
LeaveDeletes(c) ==
  /\ stage[c] = "inside"
  /\ stage' = [stage EXCEPT ![c] = "left"]
  /\ fileMutationQueues' = [fileMutationQueues EXCEPT ![key[c]] = None]
  /\ UNCHANGED <<currentQueue, key, ticket, tickets>>

\* Seeded fault: the entry stays.
LeaveKeeps(c) ==
  /\ stage[c] = "inside"
  /\ stage' = [stage EXCEPT ![c] = "left"]
  /\ UNCHANGED <<fileMutationQueues, currentQueue, key, ticket, tickets>>

\* The finally block: releaseNext(), and the entry if it is still ours.
Leave(c) ==
  /\ stage[c] = "inside"
  /\ stage' = [stage EXCEPT ![c] = "left"]
  /\ fileMutationQueues' =
       [fileMutationQueues EXCEPT ![key[c]] = IF @ = c THEN None ELSE @]
  /\ UNCHANGED <<currentQueue, key, ticket, tickets>>

Next == \E c \in Callers : (\E k \in Keys : Call(c, k)) \/ Enter(c) \/ Leave(c)

Spec == Init /\ [][Next]_vars

----------------------------------------------------------------------------
(* Properties *)

TypeOK ==
  /\ fileMutationQueues \in [Keys -> Callers \union {None}]
  /\ currentQueue \in [Callers -> Callers \union {None}]
  /\ key \in [Callers -> Keys \union {None}]
  /\ stage \in [Callers -> {"new", "waiting", "inside", "left"}]
  /\ ticket \in [Callers -> Nat] /\ tickets \in Nat

Present(c) == stage[c] \in {"waiting", "inside"}

\* "Serialize file mutation operations targeting the same file": whoever is inside
\* is alone there with its key, and nobody who came earlier still waits, in
\* whatever order entries of the map are replaced and deleted.
InTurn ==
  \A c, d \in Callers :
    stage[c] = "inside" /\ Present(d) /\ key[c] = key[d] /\ c # d =>
      stage[d] = "waiting" /\ ticket[c] < ticket[d]

\* The map holds an entry for a key exactly while somebody is using it.
MapForgets ==
  \A k \in Keys : fileMutationQueues[k] = None <=> \A c \in Callers : Present(c) => key[c] # k

(* The inductive form: tickets tell the callers apart ... *)
Tickets ==
  /\ \A c \in Callers : ticket[c] <= tickets /\ (stage[c] = "new" <=> ticket[c] = 0)
  /\ \A c, d \in Callers : ticket[c] = ticket[d] /\ stage[c] # "new" => c = d

(* ... of two callers present with one key the later waits for one that is    *)
(* present and came no earlier than the first ...                             *)
Chained ==
  \A c, d \in Callers :
    Present(c) /\ Present(d) /\ key[c] = key[d] /\ ticket[c] < ticket[d] =>
      /\ stage[d] = "waiting" /\ currentQueue[d] # None
      /\ Present(currentQueue[d]) /\ key[currentQueue[d]] = key[c]
      /\ ticket[c] <= ticket[currentQueue[d]] /\ ticket[currentQueue[d]] < ticket[d]

(* ... and the map names the last of them. *)
LastInMap ==
  \A k \in Keys :
    LET t == fileMutationQueues[k]
    IN  /\ t # None => Present(t) /\ key[t] = k
        /\ \A c \in Callers :
             Present(c) /\ key[c] = k => t # None /\ ticket[c] <= ticket[t]

ChainInv == Tickets /\ Chained /\ LastInMap
=============================================================================

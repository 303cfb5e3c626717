------------------------------ MODULE FileTools ------------------------------
(***************************************************************************)
(* The bodies of the edit and write tools (core/tools/edit.ts, write.ts)   *)
(* inside withFileMutationQueue, on one file.  The file may be reached     *)
(* through a symbolic link in its path: the queue's key is the real name   *)
(* while the file exists and the name as given while it does not.          *)
(*                                                                         *)
(* Content is the sequence of the calls whose text it shows.  An edit adds *)
(* itself to what it read, a write replaces everything; None stands for    *)
(* the text before the calls.  A file system call is one step when it      *)
(* returns, writeFile two: it truncates, then writes.  A call rejects at   *)
(* once when its run is aborted, but the file system call it awaits goes   *)
(* on: its body is then a straggler.                                       *)
(***************************************************************************)
EXTENDS Naturals, Sequences

CONSTANTS
  Edits, Writes,  \* the calls of each tool
  RunOf,          \* the run, and so the AbortSignal, of each call
  Names, RealName,\* names of the file, and the one realpathSync returns
  None,
  MaxFaults       \* bound: file system calls that fail

Calls == Edits \union Writes

VARIABLES
  fileMutationQueues, currentQueue, key, stage, ticket, tickets,
  exists, content, \* the file
  aborted,         \* runs whose signal has fired
  step,            \* the file system call each body awaits, "none" or "done"
  base,            \* what each edit has read
  outcome,         \* how each body's promise settled
  early,           \* history: calls queued while there was no file
  crowded,         \* history: edits that ran beside a body the queue does not hold back
  faults

queueVars == <<fileMutationQueues, currentQueue, key, stage, ticket, tickets>>
vars ==
  <<fileMutationQueues, currentQueue, key, stage, ticket, tickets,
    exists, content, aborted, step, base, outcome, early, crowded, faults>>

Queue == INSTANCE FileMutationQueue WITH Callers <- Calls, Keys <- Names

Init ==
  /\ Queue!Init
  /\ exists \in BOOLEAN
  /\ content = IF exists THEN <<None>> ELSE <<>>
  /\ aborted = {}
  /\ step = [c \in Calls |-> "none"]
  /\ base = [c \in Calls |-> <<>>]
  /\ outcome = [c \in Calls |-> "none"]
  /\ early = {} /\ crowded = {}
  /\ faults = 0

Working(c) == step[c] \notin {"none", "done"}
Straggler(c) == Working(c) /\ outcome[c] # "none"

\* Seeded fault: symbolic links are not resolved.
KeyOfUnresolved(n) == n

\* getMutationQueueKey.
KeyOf(n) == IF exists THEN RealName ELSE n

\* The queue keeps the two apart, unless one is a straggler, or was queued under
\* another name before there was a file.
Apart(c, d) ==
  outcome'[c] = "none" /\ outcome'[d] = "none" /\ (key[c] = key[d] \/ early \cap {c, d} = {})

\* Every step below notes the edits that ran beside such a body.
Crowd ==
  /\ crowded' = crowded \union
       {e \in Edits : step'[e] \notin {"none", "done"}
                      /\ \E c \in Calls \ {e} : step'[c] \notin {"none", "done"} /\ ~Apart(c, e)}
  /\ UNCHANGED early

\* execute: the key is taken and the call queued before anything is awaited.
Execute(c) ==
  /\ \E n \in Names : Queue!Call(c, KeyOf(n))
  /\ early' = IF exists THEN early ELSE early \union {c}
  /\ UNCHANGED <<exists, content, aborted, step, base, outcome, crowded, faults>>

\* The queue lets the body in; a signal that has already fired rejects it.
Begin(c) ==
  /\ Queue!Enter(c)
  /\ IF RunOf[c] \in aborted
     THEN /\ step' = [step EXCEPT ![c] = "done"]
          /\ outcome' = [outcome EXCEPT ![c] = "aborted"]
     ELSE /\ step' = [step EXCEPT ![c] = IF c \in Edits THEN "access" ELSE "read"]
          /\ UNCHANGED outcome
  /\ UNCHANGED <<exists, content, aborted, base, faults>>
  /\ Crowd

\* Seeded fault: onAbort sets its flag and does not reject.
AbortSilently(r) ==
  /\ r \notin aborted
  /\ aborted' = aborted \union {r}
  /\ UNCHANGED <<queueVars, exists, content, step, base, outcome, early, crowded, faults>>

\* onAbort of every call of the run that is at work.
Abort(r) ==
  /\ r \notin aborted
  /\ aborted' = aborted \union {r}
  /\ outcome' = [c \in Calls |-> IF RunOf[c] = r /\ Working(c) /\ outcome[c] = "none"
                                 THEN "aborted" ELSE outcome[c]]
  /\ UNCHANGED <<queueVars, exists, content, step, base, early, crowded, faults>>

\* The body goes on with the next call, or returns if it has been aborted.
Proceed(c, next) ==
  /\ step' = [step EXCEPT ![c] = IF RunOf[c] \in aborted THEN "done" ELSE next]
  /\ UNCHANGED outcome

\* reject(error): of no effect on a promise that has settled.
Reject(c) ==
  /\ step' = [step EXCEPT ![c] = "done"]
  /\ outcome' = [outcome EXCEPT ![c] = IF @ = "none" THEN "error" ELSE @]

Access(c) ==
  /\ step[c] = "access"
  /\ IF exists THEN Proceed(c, "read") ELSE Reject(c)
  /\ UNCHANGED <<queueVars, exists, content, aborted, base, faults>>
  /\ Crowd

\* readFile and applyEditsToNormalizedContent: oldText may not be found, and in
\* an empty file never is.
ReadToEdit(c) ==
  /\ c \in Edits /\ step[c] = "read"
  /\ base' = [base EXCEPT ![c] = content]
  /\ \/ content # <<>> /\ Proceed(c, "write")
     \/ RunOf[c] \in aborted /\ Proceed(c, "done")
     \/ RunOf[c] \notin aborted /\ Reject(c)
  /\ UNCHANGED <<queueVars, exists, content, aborted, faults>>
  /\ Crowd

ReadToWrite(c) ==
  /\ c \in Writes /\ step[c] = "read"
  /\ Proceed(c, "mkdir")
  /\ UNCHANGED <<queueVars, exists, content, aborted, base, faults>>
  /\ Crowd

Mkdir(c) ==
  /\ step[c] = "mkdir"
  /\ Proceed(c, "write")
  /\ UNCHANGED <<queueVars, exists, content, aborted, base, faults>>
  /\ Crowd

\* writeFile opens the file: it exists and is empty.
Truncate(c) ==
  /\ step[c] = "write"
  /\ exists' = TRUE
  /\ content' = <<>>
  /\ step' = [step EXCEPT ![c] = "flush"]
  /\ UNCHANGED <<queueVars, aborted, base, outcome, faults>>
  /\ Crowd

\* writeFile returns, and the promise resolves unless it has been rejected.
Flush(c) ==
  /\ step[c] = "flush"
  /\ content' = IF c \in Edits THEN Append(base[c], c) ELSE <<c>>
  /\ step' = [step EXCEPT ![c] = "done"]
  /\ outcome' = [outcome EXCEPT ![c] = IF @ = "none" THEN "ok" ELSE @]
  /\ UNCHANGED <<queueVars, exists, aborted, base, faults>>
  /\ Crowd

\* A file system call fails.
Fail(c) ==
  /\ Working(c) /\ faults < MaxFaults
  /\ faults' = faults + 1
  /\ Reject(c)
  /\ UNCHANGED <<queueVars, exists, content, aborted, base>>
  /\ Crowd

\* The body's promise has settled: withFileMutationQueue's finally.
Return(c) ==
  /\ outcome[c] # "none"
  /\ Queue!Leave(c)
  /\ UNCHANGED <<exists, content, aborted, step, base, outcome, early, crowded, faults>>

FileSystem(c) ==
  Access(c) \/ ReadToEdit(c) \/ ReadToWrite(c) \/ Mkdir(c) \/ Truncate(c) \/ Flush(c)

\* What the file system and the event loop owe a call that has been made.
Owed(c) == Begin(c) \/ FileSystem(c) \/ Return(c)

Next ==
  \/ \E c \in Calls : Execute(c) \/ Owed(c) \/ Fail(c)
  \/ \E r \in {RunOf[c] : c \in Calls} : Abort(r)

Spec == Init /\ [][Next]_vars

Fairness == \A c \in Calls : WF_vars(Owed(c))

FairSpec == Spec /\ Fairness

----------------------------------------------------------------------------
(* Properties *)

TypeOK ==
  /\ Queue!TypeOK
  /\ exists \in BOOLEAN /\ content \in Seq(Calls \union {None})
  /\ step \in [Calls -> {"none", "access", "read", "mkdir", "write", "flush", "done"}]
  /\ outcome \in [Calls -> {"none", "ok", "error", "aborted"}]
  /\ early \subseteq Calls /\ crowded \subseteq Edits

\* An edit writes what it made of the text as it is: no body it had to wait for has
\* changed the text since it was read.  Stragglers of aborted calls, and bodies
\* queued under another name before the file existed, are not waited for.
NoLostEdit ==
  \A e \in Edits : step[e] = "write" /\ e \notin crowded => base[e] = content

\* "Serialize file mutation operations targeting the same file": at any time one
\* body at most works on the file.
Serialized ==
  \A c, d \in Calls : Working(c) /\ Working(d) => c = d

\* Every call that has been queued returns, whatever fails or is aborted before it.
EveryCallReturns == \A c \in Calls : stage[c] = "waiting" ~> stage[c] = "left"
=============================================================================

------------------------------ MODULE Settings ------------------------------
(***************************************************************************)
(* packages/coding-agent/src/core/settings-manager.ts: one settings file   *)
(* shared by processes.  Each keeps the settings in memory, marks what it  *)
(* changes and queues a write that merges the marked fields into the file  *)
(* under a lock; reload() waits for the writes that are queued and reads.  *)
(*                                                                         *)
(* One scope is modelled, global or project: they share nothing but the    *)
(* queue.  A field is a top-level setting or a nested one, whichever is    *)
(* marked; 0 is a field that is not set.  withLock is synchronous: its     *)
(* process does nothing else, but others act between its system calls.     *)
(***************************************************************************)
EXTENDS Naturals, Sequences, FiniteSets

CONSTANTS
  Processes, Fields,
  Reloaders,  \* bound: processes that call reload()
  None,
  MaxChanges, \* bound: changes of a setting
  MaxCrashes  \* bound: processes that die

VARIABLES
  file,       \* settings.json: a value for each field, or None
  lock,       \* its holder, or None
  globalSettings, modifiedFields, \* in the memory of each process
  globalSettingsLoadError, errors,
  writeQueue, \* for each process the writes that are queued
  reloading,  \* queued writes reload() still waits for; None when it is not called
  job,        \* what withLock is doing, or None
  changes, crashed,
  owed        \* history: fields changed and neither written nor reloaded since

settingsVars == <<file, lock, globalSettings, modifiedFields, globalSettingsLoadError, errors,
                  writeQueue, reloading, job, changes, crashed, owed>>

Empty == [f \in Fields |-> 0]
Job(kind, at, seen) == [kind |-> kind, at |-> at, seen |-> seen]

\* Processes start by reading the file.
Init ==
  /\ file \in {None, Empty} /\ lock = None
  /\ globalSettings = [p \in Processes |-> Empty]
  /\ modifiedFields = [p \in Processes |-> {}]
  /\ globalSettingsLoadError = [p \in Processes |-> FALSE]
  /\ errors = [p \in Processes |-> FALSE]
  /\ writeQueue = [p \in Processes |-> <<>>]
  /\ reloading = [p \in Processes |-> None]
  /\ job = [p \in Processes |-> Job("startup", "look", None)]
  /\ changes = 0 /\ crashed = {}
  /\ owed = [p \in Processes |-> {}]

Idle(p) == p \notin crashed /\ job[p] = None
At(p, place) == p \notin crashed /\ job[p] # None /\ job[p].at = place

----------------------------------------------------------------------------
(* The settings manager *)

\* A setter: the field is changed and marked, and save() queues a write of the
\* marked fields as they are now, unless the file could not be read.
Change(p, f) ==
  /\ Idle(p) /\ changes < MaxChanges
  /\ changes' = changes + 1
  /\ globalSettings' = [globalSettings EXCEPT ![p][f] = changes']
  /\ modifiedFields' = [modifiedFields EXCEPT ![p] = @ \union {f}]
  /\ owed' = [owed EXCEPT ![p] = @ \union {f}]
  /\ writeQueue' = IF globalSettingsLoadError[p] THEN writeQueue ELSE
       [writeQueue EXCEPT ![p] =
          Append(@, [values |-> globalSettings'[p], fields |-> modifiedFields'[p]])]
  /\ UNCHANGED <<file, lock, globalSettingsLoadError, errors, reloading, job, crashed>>

\* reload() begins to wait for the queue.
Reload(p) ==
  /\ p \in Reloaders /\ Idle(p) /\ reloading[p] = None
  /\ reloading' = [reloading EXCEPT ![p] = Len(writeQueue[p])]
  /\ UNCHANGED <<file, lock, globalSettings, modifiedFields, globalSettingsLoadError, errors,
                 writeQueue, job, changes, crashed, owed>>

\* The next callback: reload() when its writes are done, else the next write.
Resume(p) ==
  /\ Idle(p)
  /\ \/ reloading[p] = 0
        /\ job' = [job EXCEPT ![p] = Job("reload", "look", None)]
     \/ reloading[p] # 0 /\ writeQueue[p] # <<>>
        /\ job' = [job EXCEPT ![p] = Job("write", "look", None)]
  /\ UNCHANGED <<file, lock, globalSettings, modifiedFields, globalSettingsLoadError, errors,
                 writeQueue, reloading, changes, crashed, owed>>

----------------------------------------------------------------------------
(* How a job of withLock ends *)

\* The settings that were read replace those in memory; nothing is marked any more.
LoadEnds(p, settings) ==
  /\ job[p].kind # "write"
  /\ globalSettings' = [globalSettings EXCEPT ![p] = settings]
  /\ globalSettingsLoadError' = [globalSettingsLoadError EXCEPT ![p] = FALSE]
  /\ modifiedFields' = [modifiedFields EXCEPT ![p] = {}]
  /\ owed' = [owed EXCEPT ![p] = {}]
  /\ reloading' = [reloading EXCEPT ![p] = None]
  /\ job' = [job EXCEPT ![p] = None]
  /\ UNCHANGED <<errors, writeQueue>>

\* The settings could not be read: those in memory stay, marks do not.
LoadFails(p) ==
  /\ job[p].kind # "write"
  /\ globalSettingsLoadError' = [globalSettingsLoadError EXCEPT ![p] = TRUE]
  /\ errors' = [errors EXCEPT ![p] = TRUE]
  /\ modifiedFields' = [modifiedFields EXCEPT ![p] = {}]
  /\ reloading' = [reloading EXCEPT ![p] = None]
  /\ job' = [job EXCEPT ![p] = None]
  /\ UNCHANGED <<globalSettings, writeQueue, owed>>

\* The write leaves the queue, and a waiting reload() has one less to wait for.
Dequeue(p) ==
  /\ job[p].kind = "write"
  /\ writeQueue' = [writeQueue EXCEPT ![p] = Tail(@)]
  /\ reloading' = [reloading EXCEPT ![p] = IF @ = None THEN None ELSE @ - 1]
  /\ job' = [job EXCEPT ![p] = None]
  /\ UNCHANGED <<globalSettings, globalSettingsLoadError>>

\* task() returned: clearModifiedScope.
WriteEnds(p) ==
  /\ Dequeue(p)
  /\ modifiedFields' = [modifiedFields EXCEPT ![p] = {}]
  /\ owed' = [owed EXCEPT ![p] = @ \
       {f \in Head(writeQueue[p]).fields : Head(writeQueue[p]).values[f] = globalSettings[p][f]}]
  /\ UNCHANGED errors

\* Seeded fault: the error is dropped.
WriteFailsSilently(p) == Dequeue(p) /\ UNCHANGED <<modifiedFields, owed, errors>>

\* task() threw: the error is recorded and the marks stay for the next write.
WriteFails(p) ==
  /\ Dequeue(p)
  /\ errors' = [errors EXCEPT ![p] = TRUE]
  /\ UNCHANGED <<modifiedFields, owed>>

Fails(p) == LoadFails(p) \/ WriteFails(p)

----------------------------------------------------------------------------
(* withLock, one system call at a time *)

\* existsSync: without a file nothing is locked before something is written.
Look(p) ==
  /\ At(p, "look")
  /\ \/ file # None /\ job' = [job EXCEPT ![p].at = "lock"]
        /\ UNCHANGED <<globalSettings, modifiedFields, globalSettingsLoadError, errors, writeQueue,
                       reloading, owed>>
     \/ file = None /\ LoadEnds(p, Empty)
     \/ file = None /\ job[p].kind = "write" /\ job' = [job EXCEPT ![p].at = "late"]
        /\ UNCHANGED <<globalSettings, modifiedFields, globalSettingsLoadError, errors, writeQueue,
                       reloading, owed>>
  /\ UNCHANGED <<file, lock, changes, crashed>>

\* lockSync, before the read or, without a file, before the write.
Lock(p) ==
  /\ At(p, "lock") \/ At(p, "late")
  /\ lock = None
  /\ lock' = p
  /\ job' = [job EXCEPT ![p].at = IF @ = "late" THEN "write" ELSE "read"]
  /\ UNCHANGED <<file, globalSettings, modifiedFields, globalSettingsLoadError, errors, writeQueue,
                 reloading, changes, crashed, owed>>

\* Ten attempts found the lock taken.
Locked(p) ==
  /\ At(p, "lock") \/ At(p, "late")
  /\ lock # None
  /\ Fails(p)
  /\ UNCHANGED <<file, lock, changes, crashed>>

Read(p) ==
  /\ At(p, "read")
  /\ \/ LoadEnds(p, file) /\ lock' = None
     \/ /\ job[p].kind = "write"
        /\ job' = [job EXCEPT ![p] = Job("write", "write", file)]
        /\ UNCHANGED <<lock, globalSettings, modifiedFields, globalSettingsLoadError, errors,
                       writeQueue, reloading, owed>>
  /\ UNCHANGED <<file, changes, crashed>>

\* Seeded fault: the whole of the memory is written.
MergedWhole(p) == Head(writeQueue[p]).values

\* persistScopedSettings: the marked fields over those that were read.
Merged(p) ==
  LET w == Head(writeQueue[p])
      current == IF job[p].seen = None THEN Empty ELSE job[p].seen
  IN  [f \in Fields |-> IF f \in w.fields THEN w.values[f] ELSE current[f]]

Write(p) ==
  /\ At(p, "write")
  /\ file' = Merged(p)
  /\ lock' = None
  /\ WriteEnds(p)
  /\ UNCHANGED <<changes, crashed>>

Synchronous(p) == Resume(p) \/ Look(p) \/ Lock(p) \/ Locked(p) \/ Read(p) \/ Write(p)

----------------------------------------------------------------------------
(* The system *)

\* A process dies; one that was writing may leave the file empty.
Crash(p) ==
  /\ p \notin crashed /\ Cardinality(crashed) < MaxCrashes
  /\ crashed' = crashed \union {p}
  /\ \/ UNCHANGED file
     \/ At(p, "write") /\ file' = Empty
  /\ UNCHANGED <<lock, globalSettings, modifiedFields, globalSettingsLoadError, errors, writeQueue,
                 reloading, job, changes, owed>>

\* The lock of a process that died grows stale.
GrowStale ==
  /\ lock \in crashed
  /\ lock' = None
  /\ UNCHANGED <<file, globalSettings, modifiedFields, globalSettingsLoadError, errors, writeQueue,
                 reloading, job, changes, crashed, owed>>

Next ==
  \/ \E p \in Processes : Synchronous(p) \/ Reload(p) \/ Crash(p) \/ \E f \in Fields : Change(p, f)
  \/ GrowStale

Spec == Init /\ [][Next]_settingsVars

\* Callbacks run and system calls return.
Fairness == \A p \in Processes : WF_settingsVars(Synchronous(p))

FairSpec == Spec /\ Fairness

----------------------------------------------------------------------------
(* Properties *)

TypeOK ==
  /\ file \in [Fields -> 0..MaxChanges] \union {None}
  /\ lock \in Processes \union {None}
  /\ globalSettings \in [Processes -> [Fields -> 0..MaxChanges]]
  /\ modifiedFields \in [Processes -> SUBSET Fields]
  /\ \A p \in Processes : owed[p] \subseteq Fields /\ (reloading[p] = None \/ reloading[p] <= Len(writeQueue[p]))

\* Two processes may save at once: a write changes the fields its process has
\* changed, and keeps what others have saved meanwhile.  Excepted is a file that
\* another process creates after this one has looked for it.
OtherFieldsKept ==
  [][file' # file => \A p \in Processes \ crashed' :
       At(p, "write") /\ ~(job[p].seen = None /\ file # None) =>
         \A f \in Fields \ Head(writeQueue[p]).fields :
           file'[f] = IF file = None THEN 0 ELSE file[f]]_settingsVars

\* A change is written, or waits to be, or its loss has been recorded, whatever is
\* reloaded, locked or fails in between.
NoSilentLoss ==
  \A p \in Processes \ crashed : \A f \in owed[p] :
    \/ errors[p]
    \/ f \in modifiedFields[p]
    \/ \E i \in DOMAIN writeQueue[p] : f \in writeQueue[p][i].fields

\* Every write that was queued is done or fails.
WritesSettle == \A p \in Processes : writeQueue[p] # <<>> ~> writeQueue[p] = <<>> \/ p \in crashed
=============================================================================

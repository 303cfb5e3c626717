------------------------- MODULE HostServicesProofs -------------------------
(***************************************************************************)
(* Theorems about the components of HostServices for any messages, events, *)
(* processes and bounds: what each keeps at every step of its own.         *)
(***************************************************************************)
EXTENDS HostServices, ComponentProofs

----------------------------------------------------------------------------
(* Settings *)

SettingContents == [SettingFields -> 0 .. SettingChanges]
SettingWrites == [values : SettingContents, fields : SUBSET SettingFields]
SettingJobs == [kind : {"startup", "reload", "write"}, at : {"look", "lock", "late", "read", "write"},
         seen : SettingContents \union {None}]

SettingNames ==
  /\ SettingChanges \in Nat
  /\ None \notin SettingProcesses \union Nat \union SettingContents \union SettingJobs

SettingsTypeOK ==
  /\ t_changes \in 0 .. SettingChanges /\ t_crashed \subseteq SettingProcesses
  /\ t_file \in SettingContents \union {None}
  /\ t_lock \in SettingProcesses \union {None}
  /\ t_settings \in [SettingProcesses -> SettingContents]
  /\ t_modified \in [SettingProcesses -> SUBSET SettingFields]
  /\ t_loadError \in [SettingProcesses -> BOOLEAN]
  /\ t_errors \in [SettingProcesses -> BOOLEAN]
  /\ t_writes \in [SettingProcesses -> Seq(SettingWrites)]
  /\ t_reloading \in [SettingProcesses -> Nat \union {None}]
  /\ t_job \in [SettingProcesses -> SettingJobs \union {None}]
  /\ t_owed \in [SettingProcesses -> SUBSET SettingFields]

\* reload() waits for writes that are queued, the write that runs is the first of them,
\* and a job locks or reads only a file that is there.
JobsFit ==
  \A p \in SettingProcesses :
    /\ t_reloading[p] # None => t_reloading[p] <= Len(t_writes[p])
    /\ t_job[p] # None /\ t_job[p].kind = "write" => t_writes[p] # <<>> /\ t_reloading[p] # 0
    /\ t_job[p] # None /\ t_job[p].at \in {"late", "write"} => t_job[p].kind = "write"
    /\ t_job[p] # None /\ t_job[p].at \in {"lock", "read"} => t_file # None
    /\ t_job[p] # None /\ t_job[p].at # "write" => t_job[p].seen = None

\* A process that reads or writes holds the lock, and what it has read is the file.
HoldsWhatItRead ==
  \A p \in SettingProcesses :
    /\ SettingsFile!At(p, "read") \/ SettingsFile!At(p, "write") => t_lock = p
    /\ SettingsFile!At(p, "write") /\ t_job[p].seen # None => t_job[p].seen = t_file

\* A field that is owed is in a write that is queued, with the value memory has.
\* A process that could not load has recorded an error.
OwedIsQueued ==
  \A p \in SettingProcesses :
    /\ t_loadError[p] => t_errors[p]
    /\ ~t_errors[p] => \A f \in t_owed[p] : \E i \in DOMAIN t_writes[p] :
         /\ f \in t_writes[p][i].fields
         /\ t_writes[p][i].values[f] = t_settings[p][f]

SettingsInv == SettingsTypeOK /\ JobsFit /\ HoldsWhatItRead /\ OwedIsQueued

----------------------------------------------------------------------------
(* Settings: the steps *)

\* What is none of the values it stands beside, and the empty settings.
LEMMA NoneApart ==
  ASSUME SettingNames
  PROVE  /\ None \notin SettingProcesses /\ None \notin Nat /\ None \notin SettingContents
         /\ None \notin SettingJobs
         /\ SettingsFile!Empty \in SettingContents /\ SettingsFile!Empty # None /\ SettingChanges \in Nat
  BY DEF SettingNames, SettingsFile!Empty, SettingContents

\* A new job is a job.
LEMMA JobType ==
  ASSUME SettingNames, NEW k \in {"startup", "reload", "write"},
         NEW a \in {"look", "lock", "late", "read", "write"}, NEW c \in SettingContents \union {None}
  PROVE  /\ SettingsFile!Job(k, a, c) \in SettingJobs /\ SettingsFile!Job(k, a, c) # None
         /\ SettingsFile!Job(k, a, c).kind = k /\ SettingsFile!Job(k, a, c).at = a
         /\ SettingsFile!Job(k, a, c).seen = c
<1>1. SettingsFile!Job(k, a, c) \in SettingJobs
  BY DEF SettingsFile!Job, SettingJobs
<1> QED BY <1>1, NoneApart DEF SettingsFile!Job

\* The first write of a queue and the rest of it.
LEMMA FirstWrite ==
  ASSUME NEW q \in Seq(SettingWrites), q # <<>>
  PROVE  /\ Head(q) \in SettingWrites /\ Head(q) = q[1] /\ Tail(q) \in Seq(SettingWrites)
         /\ Len(Tail(q)) = Len(q) - 1 /\ Len(q) \in Nat \ {0}
         /\ \A i \in DOMAIN q : i # 1 => i - 1 \in DOMAIN Tail(q) /\ Tail(q)[i - 1] = q[i]
  OBVIOUS

\* A process that goes on with a job changes this job only.
LEMMA JobMoves ==
  ASSUME SettingNames, SettingsTypeOK, NEW p \in SettingProcesses, t_job[p] # None,
         NEW a \in {"look", "lock", "late", "read", "write"}
  PROVE  /\ [t_job[p] EXCEPT !.at = a] \in SettingJobs /\ [t_job[p] EXCEPT !.at = a] # None
         /\ [t_job[p] EXCEPT !.at = a].at = a /\ [t_job[p] EXCEPT !.at = a].kind = t_job[p].kind
         /\ [t_job[p] EXCEPT !.at = a].seen = t_job[p].seen
  BY NoneApart DEF SettingsTypeOK, SettingJobs

\* What is written is the settings of a file.
LEMMA WriteSaves ==
  ASSUME SettingNames, SettingsTypeOK, JobsFit, NEW p \in SettingProcesses, SettingsFile!Write(p)
  PROVE  t_file' \in SettingContents /\ Head(t_writes[p]) \in SettingWrites
<1>1. t_file' = SettingsFile!Merged(p) /\ t_job[p] # None /\ t_job[p].kind = "write"
  BY DEF SettingsFile!Write, SettingsFile!WriteEnds, SettingsFile!Dequeue, SettingsFile!At
<1>2. Head(t_writes[p]) \in SettingWrites
  BY <1>1, FirstWrite DEF JobsFit, SettingsTypeOK
<1>3. t_job[p].seen = None \/ t_job[p].seen \in SettingContents
  <2>1. t_job[p] \in SettingJobs
    BY <1>1 DEF SettingsTypeOK
  <2> QED BY <2>1 DEF SettingJobs
<1>4. Head(t_writes[p]).values \in SettingContents
  BY <1>2 DEF SettingWrites
<1> QED BY <1>1, <1>2, <1>3, <1>4, NoneApart DEF SettingsFile!Merged, SettingContents

\* Every step keeps the types.
LEMMA SettingsTypeStep ==
  SettingNames /\ SettingsTypeOK /\ JobsFit /\ [SettingsFile!Next]_(SettingsFile!settingsVars)
        => SettingsTypeOK'
<1> SUFFICES ASSUME SettingNames, SettingsTypeOK, JobsFit,
                    [SettingsFile!Next]_(SettingsFile!settingsVars)
             PROVE  SettingsTypeOK'
  OBVIOUS
<1>e. /\ None \notin Nat /\ None \notin SettingJobs /\ SettingsFile!Empty \in SettingContents
      /\ SettingChanges \in Nat
      /\ SettingsFile!Empty # None /\ None \notin SettingContents
  BY NoneApart
<1>1. ASSUME NEW p \in SettingProcesses, NEW f \in SettingFields, SettingsFile!Change(p, f)
      PROVE  SettingsTypeOK'
  <2>1. t_changes' \in 0 .. SettingChanges
    BY <1>1, <1>e DEF SettingsFile!Change, SettingsTypeOK
  <2>2. t_settings' \in [SettingProcesses -> SettingContents]
    BY <1>1, <2>1 DEF SettingsFile!Change, SettingsTypeOK, SettingContents
  <2>3. /\ t_modified' \in [SettingProcesses -> SUBSET SettingFields]
        /\ t_owed' \in [SettingProcesses -> SUBSET SettingFields]
    BY <1>1 DEF SettingsFile!Change, SettingsTypeOK
  <2>4. [values |-> t_settings'[p], fields |-> t_modified'[p]] \in SettingWrites
    BY <2>2, <2>3 DEF SettingWrites
  <2>5. t_writes' \in [SettingProcesses -> Seq(SettingWrites)]
    BY <1>1, <2>4 DEF SettingsFile!Change, SettingsTypeOK
  <2> QED BY <1>1, <2>1, <2>2, <2>3, <2>5 DEF SettingsFile!Change, SettingsTypeOK
<1>2. ASSUME NEW p \in SettingProcesses, SettingsFile!Reload(p) PROVE SettingsTypeOK'
  BY <1>2 DEF SettingsFile!Reload, SettingsTypeOK
<1>3. ASSUME NEW p \in SettingProcesses, SettingsFile!Resume(p) PROVE SettingsTypeOK'
  <2>1. /\ SettingsFile!Job("reload", "look", None) \in SettingJobs
        /\ SettingsFile!Job("write", "look", None) \in SettingJobs
    BY JobType
  <2> QED BY <1>3, <2>1 DEF SettingsFile!Resume, SettingsTypeOK
<1>4. ASSUME NEW p \in SettingProcesses, NEW c \in SettingContents, SettingsFile!LoadEnds(p, c)
      PROVE  /\ t_settings' \in [SettingProcesses -> SettingContents]
             /\ t_modified' \in [SettingProcesses -> SUBSET SettingFields]
             /\ t_loadError' \in [SettingProcesses -> BOOLEAN]
             /\ t_errors' \in [SettingProcesses -> BOOLEAN]
             /\ t_writes' \in [SettingProcesses -> Seq(SettingWrites)]
             /\ t_reloading' \in [SettingProcesses -> Nat \union {None}]
             /\ t_job' \in [SettingProcesses -> SettingJobs \union {None}]
             /\ t_owed' \in [SettingProcesses -> SUBSET SettingFields]
  BY <1>4 DEF SettingsFile!LoadEnds, SettingsTypeOK
<1>5. ASSUME NEW p \in SettingProcesses, SettingsFile!LoadFails(p)
      PROVE  /\ t_settings' \in [SettingProcesses -> SettingContents]
             /\ t_modified' \in [SettingProcesses -> SUBSET SettingFields]
             /\ t_loadError' \in [SettingProcesses -> BOOLEAN]
             /\ t_errors' \in [SettingProcesses -> BOOLEAN]
             /\ t_writes' \in [SettingProcesses -> Seq(SettingWrites)]
             /\ t_reloading' \in [SettingProcesses -> Nat \union {None}]
             /\ t_job' \in [SettingProcesses -> SettingJobs \union {None}]
             /\ t_owed' \in [SettingProcesses -> SUBSET SettingFields]
  BY <1>5 DEF SettingsFile!LoadFails, SettingsTypeOK
<1>6. ASSUME NEW p \in SettingProcesses, t_job[p] # None, SettingsFile!Dequeue(p)
      PROVE  /\ t_settings' \in [SettingProcesses -> SettingContents]
             /\ t_loadError' \in [SettingProcesses -> BOOLEAN]
             /\ t_writes' \in [SettingProcesses -> Seq(SettingWrites)]
             /\ t_reloading' \in [SettingProcesses -> Nat \union {None}]
             /\ t_job' \in [SettingProcesses -> SettingJobs \union {None}]
  <2>1. t_writes[p] \in Seq(SettingWrites) /\ t_writes[p] # <<>> /\ t_reloading[p] # 0
    BY <1>6 DEF SettingsFile!Dequeue, JobsFit, SettingsTypeOK
  <2>2. Tail(t_writes[p]) \in Seq(SettingWrites)
    BY <2>1, FirstWrite
  <2>3. t_reloading[p] # None => t_reloading[p] - 1 \in Nat
    BY <2>1, <1>e DEF SettingsTypeOK
  <2> QED BY <1>6, <2>2, <2>3 DEF SettingsFile!Dequeue, SettingsTypeOK
<1>7. ASSUME NEW p \in SettingProcesses, SettingsFile!Look(p) PROVE SettingsTypeOK'
  <2>1. CASE t_file # None /\ t_job' = [t_job EXCEPT ![p].at = "lock"]
    BY <1>7, <2>1, JobMoves DEF SettingsFile!Look, SettingsFile!At, SettingsTypeOK
  <2>2. CASE SettingsFile!LoadEnds(p, SettingsFile!Empty)
    BY <1>7, <2>2, <1>4, <1>e DEF SettingsFile!Look, SettingsTypeOK
  <2>3. CASE t_file = None /\ t_job' = [t_job EXCEPT ![p].at = "late"]
    BY <1>7, <2>3, JobMoves, <1>e
       DEF SettingsFile!Look, SettingsFile!At, SettingsTypeOK, SettingsFile!LoadEnds
  <2> QED BY <1>7, <2>1, <2>2, <2>3 DEF SettingsFile!Look
<1>8. ASSUME NEW p \in SettingProcesses, SettingsFile!Lock(p) PROVE SettingsTypeOK'
  BY <1>8, JobMoves DEF SettingsFile!Lock, SettingsFile!At, SettingsTypeOK
<1>9. ASSUME NEW p \in SettingProcesses, SettingsFile!Locked(p) PROVE SettingsTypeOK'
  <2>1. CASE SettingsFile!LoadFails(p)
    BY <1>9, <2>1, <1>5 DEF SettingsFile!Locked, SettingsTypeOK
  <2>2. CASE SettingsFile!WriteFails(p)
    BY <1>9, <2>2, <1>6
       DEF SettingsFile!Locked, SettingsFile!At, SettingsFile!WriteFails, SettingsTypeOK
  <2> QED BY <1>9, <2>1, <2>2 DEF SettingsFile!Locked, SettingsFile!Fails
<1>10. ASSUME NEW p \in SettingProcesses, SettingsFile!Read(p) PROVE SettingsTypeOK'
  <2> t_file # None
    BY <1>10 DEF SettingsFile!Read, SettingsFile!At, JobsFit
  <2>1. CASE SettingsFile!LoadEnds(p, t_file) /\ t_lock' = None
    BY <1>10, <2>1, <1>4 DEF SettingsFile!Read, SettingsTypeOK
  <2>2. CASE t_job' = [t_job EXCEPT ![p] = SettingsFile!Job("write", "write", t_file)]
    BY <1>10, <2>2, JobType, <1>e DEF SettingsFile!Read, SettingsTypeOK, SettingsFile!LoadEnds
  <2> QED BY <1>10, <2>1, <2>2 DEF SettingsFile!Read
<1>11. ASSUME NEW p \in SettingProcesses, SettingsFile!Write(p) PROVE SettingsTypeOK'
  <2>1. /\ SettingsFile!Dequeue(p) /\ t_job[p] # None /\ t_file' = SettingsFile!Merged(p)
        /\ t_lock' = None
        /\ t_modified' = [t_modified EXCEPT ![p] = {}]
        /\ t_owed' = [t_owed EXCEPT ![p] = @ \
             {f \in Head(t_writes[p]).fields : Head(t_writes[p]).values[f] = t_settings[p][f]}]
        /\ UNCHANGED <<t_errors, t_changes, t_crashed>>
    BY <1>11 DEF SettingsFile!Write, SettingsFile!WriteEnds, SettingsFile!At
  <2>3. t_file' \in SettingContents
    BY <1>11, WriteSaves
  <2>4. /\ t_modified' \in [SettingProcesses -> SUBSET SettingFields]
        /\ t_owed' \in [SettingProcesses -> SUBSET SettingFields]
    BY <2>1 DEF SettingsTypeOK
  <2> QED BY <2>1, <2>3, <2>4, <1>6 DEF SettingsTypeOK
<1>12. ASSUME NEW p \in SettingProcesses, SettingsFile!Crash(p) PROVE SettingsTypeOK'
  BY <1>12, <1>e DEF SettingsFile!Crash, SettingsTypeOK
<1>13. CASE SettingsFile!GrowStale \/ UNCHANGED SettingsFile!settingsVars
  BY <1>13 DEF SettingsFile!GrowStale, SettingsFile!settingsVars, SettingsTypeOK
<1> QED
  BY <1>1, <1>2, <1>3, <1>7, <1>8, <1>9, <1>10, <1>11, <1>12, <1>13
     DEF SettingsFile!Next, SettingsFile!Synchronous

\* How a job ends for its process, and that nothing changes for the others.
LEMMA JobEnds ==
  ASSUME SettingNames, SettingsTypeOK, JobsFit, NEW p \in SettingProcesses, t_job[p] # None,
         \/ \E c \in SettingContents : SettingsFile!LoadEnds(p, c)
         \/ SettingsFile!LoadFails(p) \/ SettingsFile!WriteFails(p) \/ SettingsFile!WriteEnds(p)
  PROVE  /\ t_job' = [t_job EXCEPT ![p] = None]
         /\ \A q \in SettingProcesses \ {p} :
              /\ t_writes'[q] = t_writes[q] /\ t_reloading'[q] = t_reloading[q]
              /\ t_errors'[q] = t_errors[q] /\ t_owed'[q] = t_owed[q]
              /\ t_settings'[q] = t_settings[q]
              /\ t_loadError'[q] = t_loadError[q]
         /\ \/ t_reloading'[p] = None
            \/ /\ t_reloading'[p] = t_reloading[p] - 1 /\ t_writes[p] # <<>>
               /\ t_writes'[p] = Tail(t_writes[p]) /\ t_reloading[p] # None
         /\ t_errors[p] => t_errors'[p]
  BY DEF SettingsFile!LoadEnds, SettingsFile!LoadFails, SettingsFile!WriteFails,
         SettingsFile!WriteEnds, SettingsFile!Dequeue, SettingsTypeOK, JobsFit

\* Every step keeps what is known of jobs.
LEMMA JobsStep ==
  SettingNames /\ SettingsTypeOK /\ JobsFit /\ [SettingsFile!Next]_(SettingsFile!settingsVars) => JobsFit'
<1> SUFFICES ASSUME SettingNames, SettingsTypeOK, JobsFit,
                    [SettingsFile!Next]_(SettingsFile!settingsVars)
             PROVE  JobsFit'
  OBVIOUS
<1>e. /\ None \notin Nat /\ None \notin SettingJobs /\ SettingsFile!Empty # None
      /\ None \notin SettingContents
  BY NoneApart
<1>f. t_file # None => t_file' # None
  <2>1. ASSUME NEW p \in SettingProcesses, SettingsFile!Write(p) PROVE t_file' # None
    BY <2>1, <1>e, WriteSaves
  <2>2. ASSUME NEW p \in SettingProcesses, SettingsFile!Crash(p), t_file # None PROVE t_file' # None
    BY <2>2, <1>e DEF SettingsFile!Crash
  <2>3. ASSUME NEW p \in SettingProcesses,
               \/ SettingsFile!Resume(p) \/ SettingsFile!Look(p) \/ SettingsFile!Lock(p)
               \/ SettingsFile!Locked(p) \/ SettingsFile!Read(p) \/ SettingsFile!Reload(p)
               \/ \E f \in SettingFields : SettingsFile!Change(p, f)
        PROVE  UNCHANGED t_file
    BY <2>3
       DEF SettingsFile!Resume, SettingsFile!Look, SettingsFile!Lock, SettingsFile!Locked,
           SettingsFile!Read, SettingsFile!Reload, SettingsFile!Change
  <2>4. CASE SettingsFile!GrowStale \/ UNCHANGED SettingsFile!settingsVars
    BY <2>4 DEF SettingsFile!GrowStale, SettingsFile!settingsVars
  <2> QED BY <2>1, <2>2, <2>3, <2>4 DEF SettingsFile!Next, SettingsFile!Synchronous
<1>1. ASSUME NEW p \in SettingProcesses, NEW f \in SettingFields, SettingsFile!Change(p, f) PROVE JobsFit'
  <2> DEFINE w == [values |-> t_settings'[p], fields |-> t_modified'[p]]
  <2>1. ASSUME NEW q \in SettingProcesses
        PROVE  /\ Len(t_writes[q]) <= Len(t_writes'[q])
               /\ t_writes[q] # <<>> => t_writes'[q] # <<>>
    <3>1. t_writes[q] \in Seq(SettingWrites)
      BY DEF SettingsTypeOK
    <3>2. t_writes'[q] = t_writes[q] \/ t_writes'[q] = Append(t_writes[q], w)
      BY <1>1 DEF SettingsFile!Change, SettingsTypeOK
    <3> HIDE DEF w
    <3> QED BY <3>1, <3>2
  <2>2. UNCHANGED <<t_job, t_reloading>>
    BY <1>1 DEF SettingsFile!Change
  <2>3. \A q \in SettingProcesses :
          t_reloading[q] # None =>
            t_reloading[q] \in Nat /\ Len(t_writes[q]) \in Nat /\ Len(t_writes'[q]) \in Nat
    BY SettingsTypeStep DEF SettingsTypeOK
  <2> QED BY <2>1, <2>2, <2>3, <1>f DEF JobsFit
<1>2. ASSUME NEW p \in SettingProcesses, SettingsFile!Reload(p) PROVE JobsFit'
  BY <1>2, <1>e, <1>f DEF SettingsFile!Reload, SettingsFile!Idle, JobsFit, SettingsTypeOK
<1>3. ASSUME NEW p \in SettingProcesses, SettingsFile!Resume(p) PROVE JobsFit'
  <2>1. \A k \in {"reload", "write"} :
          /\ SettingsFile!Job(k, "look", None) # None /\ SettingsFile!Job(k, "look", None).kind = k
          /\ SettingsFile!Job(k, "look", None).at = "look"
          /\ SettingsFile!Job(k, "look", None).seen = None
    BY JobType
  <2> QED BY <1>3, <2>1, <1>f DEF SettingsFile!Resume, JobsFit, SettingsTypeOK
<1>4. ASSUME NEW p \in SettingProcesses, t_job[p] # None,
             \/ \E c \in SettingContents : SettingsFile!LoadEnds(p, c)
             \/ SettingsFile!LoadFails(p) \/ SettingsFile!WriteFails(p) \/ SettingsFile!WriteEnds(p)
      PROVE  JobsFit'
  <2>1. \A q \in SettingProcesses : t_reloading[q] \in Nat \union {None} /\ t_writes[q] \in Seq(SettingWrites)
    BY DEF SettingsTypeOK
  <2>2. t_reloading'[p] # None => t_reloading'[p] <= Len(t_writes'[p])
    <3>1. CASE t_reloading'[p] # None
      <4>1. /\ t_reloading'[p] = t_reloading[p] - 1 /\ t_writes[p] # <<>>
            /\ t_writes'[p] = Tail(t_writes[p]) /\ t_reloading[p] # None
        BY <1>4, <3>1, JobEnds
      <4>2. t_reloading[p] <= Len(t_writes[p]) /\ t_reloading[p] \in Nat
        BY <4>1, <2>1 DEF JobsFit
      <4> QED BY <4>1, <4>2, <2>1, FirstWrite
    <3> QED BY <3>1
  <2>3. t_job'[p] = None
    BY <1>4, JobEnds DEF SettingsTypeOK
  <2>4. \A q \in SettingProcesses \ {p} : /\ t_job'[q] = t_job[q] /\ t_writes'[q] = t_writes[q]
                                   /\ t_reloading'[q] = t_reloading[q]
    BY <1>4, JobEnds DEF SettingsTypeOK
  <2> QED BY <2>2, <2>3, <2>4, <1>f DEF JobsFit
<1>5. ASSUME NEW p \in SettingProcesses, SettingsFile!Look(p) PROVE JobsFit'
  <2>1. CASE t_file # None /\ t_job' = [t_job EXCEPT ![p].at = "lock"] /\ UNCHANGED <<t_writes, t_reloading>>
    <3>1. t_job[p] # None /\ t_file' # None
      BY <1>5, <2>1, <1>f DEF SettingsFile!Look, SettingsFile!At
    <3>2. /\ t_job'[p] # None /\ t_job'[p].at = "lock" /\ t_job'[p].kind = t_job[p].kind
          /\ t_job'[p].seen = None /\ \A q \in SettingProcesses \ {p} : t_job'[q] = t_job[q]
      BY <1>5, <2>1, <3>1, JobMoves DEF SettingsTypeOK, JobsFit, SettingsFile!Look, SettingsFile!At
    <3> QED BY <2>1, <3>1, <3>2 DEF JobsFit
  <2>2. CASE SettingsFile!LoadEnds(p, SettingsFile!Empty)
    BY <1>5, <2>2, <1>4, NoneApart DEF SettingsFile!Look, SettingsFile!At
  <2>3. CASE /\ t_file = None /\ t_job[p].kind = "write" /\ t_job' = [t_job EXCEPT ![p].at = "late"]
             /\ UNCHANGED <<t_writes, t_reloading>>
    <3>1. t_job[p] # None /\ t_job[p].at # "write"
      BY <1>5 DEF SettingsFile!Look, SettingsFile!At
    <3>2. /\ t_job'[p] # None /\ t_job'[p].at = "late" /\ t_job'[p].kind = t_job[p].kind
          /\ t_job'[p].seen = None /\ \A q \in SettingProcesses \ {p} : t_job'[q] = t_job[q]
      <4>1. t_job[p].seen = None
        BY <3>1 DEF JobsFit
      <4> QED BY <2>3, <3>1, <4>1, JobMoves DEF SettingsTypeOK
    <3> QED BY <2>3, <3>1, <3>2, <1>f DEF JobsFit
  <2> QED BY <1>5, <2>1, <2>2, <2>3 DEF SettingsFile!Look
<1>6. ASSUME NEW p \in SettingProcesses, SettingsFile!Lock(p) PROVE JobsFit'
  BY <1>6, <1>f, JobMoves DEF SettingsFile!Lock, SettingsFile!At, JobsFit, SettingsTypeOK
<1>7. ASSUME NEW p \in SettingProcesses, SettingsFile!Locked(p) PROVE JobsFit'
  BY <1>7, <1>4 DEF SettingsFile!Locked, SettingsFile!Fails, SettingsFile!At
<1>8. ASSUME NEW p \in SettingProcesses, SettingsFile!Read(p) PROVE JobsFit'
  <2> t_file \in SettingContents
    BY <1>8 DEF SettingsFile!Read, SettingsFile!At, JobsFit, SettingsTypeOK
  <2>1. CASE SettingsFile!LoadEnds(p, t_file)
    BY <1>8, <2>1, <1>4 DEF SettingsFile!Read, SettingsFile!At
  <2>2. CASE /\ t_job[p].kind = "write"
             /\ t_job' = [t_job EXCEPT ![p] = SettingsFile!Job("write", "write", t_file)]
             /\ UNCHANGED <<t_writes, t_reloading>>
    BY <1>8, <2>2, <1>f, JobType DEF SettingsFile!Read, SettingsFile!At, JobsFit, SettingsTypeOK
  <2> QED BY <1>8, <2>1, <2>2 DEF SettingsFile!Read
<1>9. ASSUME NEW p \in SettingProcesses, SettingsFile!Write(p) PROVE JobsFit'
  BY <1>9, <1>4 DEF SettingsFile!Write, SettingsFile!At
<1>10. ASSUME NEW p \in SettingProcesses, SettingsFile!Crash(p) PROVE JobsFit'
  BY <1>10, <1>f DEF SettingsFile!Crash, JobsFit
<1>11. CASE SettingsFile!GrowStale \/ UNCHANGED SettingsFile!settingsVars
  BY <1>11 DEF SettingsFile!GrowStale, SettingsFile!settingsVars, JobsFit
<1> QED
  BY <1>1, <1>2, <1>3, <1>5, <1>6, <1>7, <1>8, <1>9, <1>10, <1>11
     DEF SettingsFile!Next, SettingsFile!Synchronous

\* Every step keeps a reader or writer the holder of the lock, and what it has read
\* the file.
LEMMA HoldsStep ==
  SettingNames /\ SettingsTypeOK /\ JobsFit /\ HoldsWhatItRead
    /\ [SettingsFile!Next]_(SettingsFile!settingsVars) => HoldsWhatItRead'
<1> SUFFICES ASSUME SettingNames, SettingsTypeOK, JobsFit, HoldsWhatItRead,
                    [SettingsFile!Next]_(SettingsFile!settingsVars)
             PROVE  HoldsWhatItRead'
  OBVIOUS
<1>e. None \notin SettingProcesses
  BY NoneApart
<1>1. ASSUME NEW p \in SettingProcesses, UNCHANGED <<t_file, t_lock, t_crashed>>,
             \A q \in SettingProcesses \ {p} : t_job'[q] = t_job[q],
             SettingsFile!At(p, "read")' \/ SettingsFile!At(p, "write")' => t_job'[p] = t_job[p]
      PROVE  HoldsWhatItRead'
  BY <1>1 DEF HoldsWhatItRead, SettingsFile!At
<1>2. ASSUME NEW p \in SettingProcesses, SettingsFile!Resume(p) PROVE HoldsWhatItRead'
  <2>1. \A k \in {"reload", "write"} : SettingsFile!Job(k, "look", None).at = "look"
    BY JobType
  <2> QED BY <1>2, <2>1, <1>1 DEF SettingsFile!Resume, SettingsFile!At, SettingsTypeOK
<1>3. ASSUME NEW p \in SettingProcesses, SettingsFile!Look(p) PROVE HoldsWhatItRead'
  <2>1. CASE SettingsFile!LoadEnds(p, SettingsFile!Empty)
    BY <1>3, <2>1, <1>1
       DEF SettingsFile!Look, SettingsFile!LoadEnds, SettingsFile!At, SettingsTypeOK
  <2>2. CASE \E a \in {"lock", "late"} : t_job' = [t_job EXCEPT ![p].at = a]
    <3>1. t_job[p] # None /\ UNCHANGED <<t_file, t_lock, t_crashed>>
      BY <1>3 DEF SettingsFile!Look, SettingsFile!At
    <3>2. t_job'[p].at \in {"lock", "late"} /\ \A q \in SettingProcesses \ {p} : t_job'[q] = t_job[q]
      BY <2>2, <3>1, JobMoves DEF SettingsTypeOK
    <3> QED BY <3>1, <3>2, <1>1 DEF SettingsFile!At
  <2> QED BY <1>3, <2>1, <2>2 DEF SettingsFile!Look
<1>4. ASSUME NEW p \in SettingProcesses, SettingsFile!Lock(p) PROVE HoldsWhatItRead'
  <2>1. /\ t_lock = None /\ t_lock' = p /\ UNCHANGED <<t_file, t_crashed>> /\ t_job[p] # None
        /\ \A q \in SettingProcesses \ {p} : t_job'[q] = t_job[q]
    BY <1>4 DEF SettingsFile!Lock, SettingsFile!At, SettingsTypeOK
  <2>2. \A q \in SettingProcesses \ {p} : ~SettingsFile!At(q, "read")' /\ ~SettingsFile!At(q, "write")'
    BY <2>1, <1>e DEF HoldsWhatItRead, SettingsFile!At
  <2>3. SettingsFile!At(p, "write")' => t_job'[p].seen = None
    BY <1>4, JobMoves DEF SettingsFile!Lock, SettingsFile!At, SettingsTypeOK, JobsFit
  <2> QED BY <2>1, <2>2, <2>3 DEF HoldsWhatItRead
<1>5. ASSUME NEW p \in SettingProcesses, SettingsFile!Locked(p) PROVE HoldsWhatItRead'
  BY <1>5, <1>1, JobEnds
     DEF SettingsFile!Locked, SettingsFile!Fails, SettingsFile!At, SettingsTypeOK
<1>6. ASSUME NEW p \in SettingProcesses, SettingsFile!Read(p) PROVE HoldsWhatItRead'
  <2>0. t_lock = p /\ t_file \in SettingContents /\ t_job[p] # None /\ UNCHANGED <<t_file, t_crashed>>
    BY <1>6 DEF SettingsFile!Read, SettingsFile!At, HoldsWhatItRead, JobsFit, SettingsTypeOK
  <2>1. \A q \in SettingProcesses \ {p} : ~SettingsFile!At(q, "read") /\ ~SettingsFile!At(q, "write")
    BY <2>0 DEF HoldsWhatItRead
  <2>2. \A q \in SettingProcesses \ {p} : t_job'[q] = t_job[q]
    BY <1>6, <2>0, JobEnds DEF SettingsFile!Read, SettingsTypeOK
  <2>3. CASE SettingsFile!LoadEnds(p, t_file)
    <3>1. t_job'[p] = None
      BY <2>0, <2>3, JobEnds DEF SettingsTypeOK
    <3> QED BY <2>0, <2>1, <2>2, <3>1 DEF HoldsWhatItRead, SettingsFile!At
  <2>4. CASE UNCHANGED t_lock /\ t_job' = [t_job EXCEPT ![p] = SettingsFile!Job("write", "write", t_file)]
    BY <2>0, <2>1, <2>2, <2>4, JobType DEF HoldsWhatItRead, SettingsFile!At, SettingsTypeOK
  <2> QED BY <1>6, <2>3, <2>4 DEF SettingsFile!Read
<1>7. ASSUME NEW p \in SettingProcesses, SettingsFile!Write(p) PROVE HoldsWhatItRead'
  <2>1. t_lock = p /\ t_job[p] # None /\ UNCHANGED t_crashed
    BY <1>7 DEF SettingsFile!Write, SettingsFile!At, HoldsWhatItRead
  <2>2. \A q \in SettingProcesses \ {p} : ~SettingsFile!At(q, "read") /\ ~SettingsFile!At(q, "write")
    BY <2>1 DEF HoldsWhatItRead
  <2>3. t_job' = [t_job EXCEPT ![p] = None]
    BY <1>7, <2>1, JobEnds DEF SettingsFile!Write
  <2> QED BY <2>1, <2>2, <2>3 DEF HoldsWhatItRead, SettingsFile!At, SettingsTypeOK
<1>8. ASSUME NEW p \in SettingProcesses, SettingsFile!Crash(p) PROVE HoldsWhatItRead'
  <2>1. /\ UNCHANGED <<t_lock, t_job>> /\ t_crashed' = t_crashed \union {p}
        /\ UNCHANGED t_file \/ SettingsFile!At(p, "write")
    BY <1>8 DEF SettingsFile!Crash
  <2> QED BY <2>1 DEF HoldsWhatItRead, SettingsFile!At
<1>9. CASE SettingsFile!GrowStale
  BY <1>9 DEF SettingsFile!GrowStale, HoldsWhatItRead, SettingsFile!At
<1>10. ASSUME NEW p \in SettingProcesses,
              SettingsFile!Reload(p) \/ \E f \in SettingFields : SettingsFile!Change(p, f)
       PROVE  HoldsWhatItRead'
  BY <1>10 DEF SettingsFile!Reload, SettingsFile!Change, HoldsWhatItRead, SettingsFile!At
<1>11. CASE UNCHANGED SettingsFile!settingsVars
  BY <1>11 DEF SettingsFile!settingsVars, HoldsWhatItRead, SettingsFile!At
<1> QED
  BY <1>2, <1>3, <1>4, <1>5, <1>6, <1>7, <1>8, <1>9, <1>10, <1>11
     DEF SettingsFile!Next, SettingsFile!Synchronous

\* A step that leaves a process's memory, its writes and what it owes as they are.
LEMMA OwedRest ==
  ASSUME OwedIsQueued, UNCHANGED <<t_loadError, t_errors, t_writes, t_settings, t_owed>>
  PROVE  OwedIsQueued'
  BY DEF OwedIsQueued

\* Every step keeps what is owed in the queue.
LEMMA OwedStep ==
  SettingNames /\ SettingsTypeOK /\ JobsFit /\ OwedIsQueued
    /\ [SettingsFile!Next]_(SettingsFile!settingsVars) => OwedIsQueued'
<1> SUFFICES ASSUME SettingNames, SettingsTypeOK, JobsFit, OwedIsQueued,
                    [SettingsFile!Next]_(SettingsFile!settingsVars)
             PROVE  OwedIsQueued'
  OBVIOUS
<1> DEFINE Held(q) == \A f \in t_owed[q] : \E i \in DOMAIN t_writes[q] :
                        /\ f \in t_writes[q][i].fields
                        /\ t_writes[q][i].values[f] = t_settings[q][f]
<1>1. ASSUME NEW p \in SettingProcesses, NEW f \in SettingFields, SettingsFile!Change(p, f)
      PROVE  OwedIsQueued'
  <2> DEFINE w == [values |-> t_settings'[p], fields |-> t_modified'[p]]
  <2>1. /\ UNCHANGED <<t_loadError, t_errors>>
        /\ \A q \in SettingProcesses \ {p} :
             /\ t_owed'[q] = t_owed[q] /\ t_writes'[q] = t_writes[q]
             /\ t_settings'[q] = t_settings[q]
        /\ t_owed'[p] = t_owed[p] \union {f}
        /\ \A g \in SettingFields \ {f} : t_settings'[p][g] = t_settings[p][g]
        /\ f \in t_modified'[p]
    BY <1>1 DEF SettingsFile!Change, SettingsTypeOK, SettingContents
  <2>2. CASE ~t_errors[p]
    <3>1. ~t_loadError[p]
      BY <2>2 DEF OwedIsQueued
    <3>2. t_writes'[p] = Append(t_writes[p], w) /\ t_writes[p] \in Seq(SettingWrites)
      BY <1>1, <3>1 DEF SettingsFile!Change, SettingsTypeOK
    <3>3. /\ Len(t_writes[p]) + 1 \in DOMAIN t_writes'[p]
          /\ t_writes'[p][Len(t_writes[p]) + 1] = w
          /\ \A i \in DOMAIN t_writes[p] :
               i \in DOMAIN t_writes'[p] /\ t_writes'[p][i] = t_writes[p][i]
      <4> HIDE DEF w
      <4> QED BY <3>2
    <3>4. Held(p)'
      <4> SUFFICES ASSUME NEW g \in t_owed'[p]
                   PROVE  \E i \in DOMAIN t_writes'[p] :
                            /\ g \in t_writes'[p][i].fields
                            /\ t_writes'[p][i].values[g] = t_settings'[p][g]
        OBVIOUS
      <4>1. CASE g = f
        BY <2>1, <3>3, <4>1
      <4>2. CASE g # f
        <5>1. g \in t_owed[p] /\ g \in SettingFields
          BY <2>1, <4>2 DEF SettingsTypeOK
        <5>2. PICK i \in DOMAIN t_writes[p] :
                /\ g \in t_writes[p][i].fields
                /\ t_writes[p][i].values[g] = t_settings[p][g]
          BY <2>2, <5>1 DEF OwedIsQueued
        <5> QED BY <2>1, <3>3, <4>2, <5>1, <5>2
      <4> QED BY <4>1, <4>2
    <3> QED BY <2>1, <3>4 DEF OwedIsQueued
  <2> QED BY <2>1, <2>2 DEF OwedIsQueued
<1>2. ASSUME NEW p \in SettingProcesses, NEW c \in SettingContents, t_job[p] # None,
             SettingsFile!LoadEnds(p, c)
      PROVE  OwedIsQueued'
  <2>1. t_owed'[p] = {} /\ ~t_loadError'[p]
    BY <1>2 DEF SettingsFile!LoadEnds, SettingsTypeOK
  <2> QED BY <1>2, <2>1, JobEnds DEF OwedIsQueued
<1>3. ASSUME NEW p \in SettingProcesses, t_job[p] # None, SettingsFile!Fails(p) PROVE OwedIsQueued'
  <2>1. t_errors'[p]
    BY <1>3 DEF SettingsFile!Fails, SettingsFile!LoadFails, SettingsFile!WriteFails, SettingsTypeOK
  <2> QED BY <1>3, <2>1, JobEnds DEF OwedIsQueued, SettingsFile!Fails
<1>4. ASSUME NEW p \in SettingProcesses, SettingsFile!Look(p) PROVE OwedIsQueued'
  <2>1. CASE SettingsFile!LoadEnds(p, SettingsFile!Empty)
    BY <1>4, <2>1, <1>2, NoneApart DEF SettingsFile!Look, SettingsFile!At
  <2>2. CASE UNCHANGED <<t_settings, t_modified, t_loadError, t_errors, t_writes,
                         t_reloading, t_owed>>
    BY <2>2, OwedRest
  <2> QED BY <1>4, <2>1, <2>2 DEF SettingsFile!Look
<1>5. ASSUME NEW p \in SettingProcesses, SettingsFile!Locked(p) PROVE OwedIsQueued'
  BY <1>5, <1>3 DEF SettingsFile!Locked, SettingsFile!At
<1>6. ASSUME NEW p \in SettingProcesses, SettingsFile!Read(p) PROVE OwedIsQueued'
  <2>1. t_file \in SettingContents
    BY <1>6 DEF SettingsFile!Read, SettingsFile!At, JobsFit, SettingsTypeOK
  <2> QED BY <1>6, <2>1, <1>2, OwedRest DEF SettingsFile!Read, SettingsFile!At
<1>7. ASSUME NEW p \in SettingProcesses, SettingsFile!Write(p) PROVE OwedIsQueued'
  <2> DEFINE q == t_writes[p]
  <2>1. t_job[p] # None /\ SettingsFile!WriteEnds(p) /\ q \in Seq(SettingWrites) /\ q # <<>>
    BY <1>7
       DEF SettingsFile!Write, SettingsFile!At, SettingsFile!WriteEnds, SettingsFile!Dequeue,
           JobsFit, SettingsTypeOK
  <2>2. /\ t_writes'[p] = Tail(q) /\ UNCHANGED <<t_settings, t_loadError, t_errors>>
        /\ t_owed'[p] = t_owed[p] \ {f \in Head(q).fields : Head(q).values[f] = t_settings[p][f]}
    BY <2>1 DEF SettingsFile!WriteEnds, SettingsFile!Dequeue, SettingsTypeOK
  <2>3. ASSUME ~t_errors[p], NEW f \in t_owed'[p]
        PROVE  \E i \in DOMAIN t_writes'[p] :
                 /\ f \in t_writes'[p][i].fields
                 /\ t_writes'[p][i].values[f] = t_settings'[p][f]
    <3>1. PICK i \in DOMAIN q : f \in q[i].fields /\ q[i].values[f] = t_settings[p][f]
      BY <2>2, <2>3 DEF OwedIsQueued
    <3>2. i # 1
      BY <2>1, <2>2, <2>3, <3>1, FirstWrite
    <3>3. i - 1 \in DOMAIN Tail(q) /\ Tail(q)[i - 1] = q[i]
      BY <2>1, <3>2, FirstWrite
    <3> QED BY <2>2, <3>1, <3>3
  <2>4. \A r \in SettingProcesses \ {p} :
          /\ t_writes'[r] = t_writes[r] /\ t_owed'[r] = t_owed[r]
    BY <2>1, JobEnds
  <2> SUFFICES ASSUME NEW r \in SettingProcesses
               PROVE  /\ t_loadError'[r] => t_errors'[r]
                      /\ ~t_errors'[r] => Held(r)'
    BY DEF OwedIsQueued
  <2>5. CASE r = p
    BY <2>2, <2>3, <2>5 DEF OwedIsQueued
  <2>6. CASE r # p
    BY <2>2, <2>4, <2>6 DEF OwedIsQueued
  <2> QED BY <2>5, <2>6
<1>8. ASSUME NEW p \in SettingProcesses,
             SettingsFile!Resume(p) \/ SettingsFile!Lock(p) \/ SettingsFile!Reload(p) \/ SettingsFile!Crash(p)
      PROVE  OwedIsQueued'
  BY <1>8, OwedRest
     DEF SettingsFile!Resume, SettingsFile!Lock, SettingsFile!Reload, SettingsFile!Crash
<1>9. CASE SettingsFile!GrowStale \/ UNCHANGED SettingsFile!settingsVars
  BY <1>9, OwedRest DEF SettingsFile!GrowStale, SettingsFile!settingsVars
<1> QED
  BY <1>1, <1>4, <1>5, <1>6, <1>7, <1>8, <1>9 DEF SettingsFile!Next, SettingsFile!Synchronous

----------------------------------------------------------------------------
(* The theorems *)

\* The initial states satisfy the invariant.
LEMMA SettingsInit == SettingNames /\ SettingsFile!Init => SettingsInv
<1> SUFFICES ASSUME SettingNames, SettingsFile!Init PROVE SettingsInv
  OBVIOUS
<1>1. /\ SettingsFile!Job("startup", "look", None) \in SettingJobs
      /\ SettingsFile!Job("startup", "look", None) # None
      /\ SettingsFile!Job("startup", "look", None).kind = "startup"
      /\ SettingsFile!Job("startup", "look", None).at = "look"
      /\ SettingsFile!Job("startup", "look", None).seen = None
  BY JobType
<1>2. SettingsTypeOK
  BY <1>1, NoneApart DEF SettingsFile!Init, SettingsTypeOK
<1>3. JobsFit /\ HoldsWhatItRead
  BY <1>1 DEF SettingsFile!Init, JobsFit, HoldsWhatItRead, SettingsFile!At
<1>4. OwedIsQueued
  BY DEF SettingsFile!Init, OwedIsQueued
<1> QED BY <1>2, <1>3, <1>4 DEF SettingsInv

\* Every step keeps the invariant.
LEMMA SettingsStep ==
  SettingNames /\ SettingsInv /\ [SettingsFile!Next]_(SettingsFile!settingsVars) => SettingsInv'
  BY SettingsTypeStep, JobsStep, HoldsStep, OwedStep DEF SettingsInv

\* Every variable keeps its type, and reload() waits for writes that are queued.
THEOREM SettingsTypeTheorem == ASSUME SettingNames PROVE SettingsFile!Spec => []SettingsFile!TypeOK
<1>1. SettingsInv => SettingsFile!TypeOK
  BY DEF SettingsInv, SettingsTypeOK, JobsFit, SettingsFile!TypeOK, SettingContents
<1> QED BY <1>1, SettingsInit, SettingsStep, PTL DEF SettingsFile!Spec

\* A change of a setting is written, waits to be, or its loss is on record.
THEOREM NoLossTheorem == ASSUME SettingNames PROVE SettingsFile!Spec => []SettingsFile!NoSilentLoss
<1>1. SettingsInv => SettingsFile!NoSilentLoss
  BY DEF SettingsInv, OwedIsQueued, SettingsFile!NoSilentLoss
<1> QED BY <1>1, SettingsInit, SettingsStep, PTL DEF SettingsFile!Spec

\* A write changes the fields its process has changed, and keeps what others have
\* saved, except in a file that was created after the process had looked for it.
THEOREM OtherFieldsTheorem == ASSUME SettingNames PROVE SettingsFile!Spec => SettingsFile!OtherFieldsKept
<1> DEFINE OthersKept ==
      t_file' # t_file => \A p \in SettingProcesses \ t_crashed' :
        SettingsFile!At(p, "write") /\ ~(t_job[p].seen = None /\ t_file # None) =>
          \A f \in SettingFields \ Head(t_writes[p]).fields :
            t_file'[f] = IF t_file = None THEN 0 ELSE t_file[f]
<1>1. ASSUME SettingNames, SettingsInv, SettingsFile!Next PROVE OthersKept
  <2> SUFFICES ASSUME NEW p \in SettingProcesses, p \notin t_crashed', SettingsFile!At(p, "write"),
                      t_file' # t_file,
                      ~(t_job[p].seen = None /\ t_file # None),
                      NEW f \in SettingFields, f \notin Head(t_writes[p]).fields
               PROVE  t_file'[f] = IF t_file = None THEN 0 ELSE t_file[f]
    OBVIOUS
  <2>1. /\ SettingsTypeOK /\ JobsFit /\ t_lock = p
        /\ t_job[p].seen # None => t_job[p].seen = t_file
        /\ \A q \in SettingProcesses \ {p} : ~SettingsFile!At(q, "write")
    BY <1>1 DEF SettingsInv, HoldsWhatItRead
  <2>2. SettingsFile!Write(p)
    <3>1. ASSUME NEW q \in SettingProcesses, SettingsFile!Write(q) PROVE q = p
      BY <2>1, <3>1 DEF SettingsFile!Write
    <3>2. ASSUME NEW q \in SettingProcesses, SettingsFile!Crash(q) PROVE FALSE
      BY <2>1, <3>2 DEF SettingsFile!Crash
    <3>3. ASSUME NEW q \in SettingProcesses,
                 \/ SettingsFile!Resume(q) \/ SettingsFile!Look(q) \/ SettingsFile!Lock(q)
                 \/ SettingsFile!Locked(q) \/ SettingsFile!Read(q) \/ SettingsFile!Reload(q)
                 \/ \E g \in SettingFields : SettingsFile!Change(q, g)
          PROVE  FALSE
      BY <3>3
         DEF SettingsFile!Resume, SettingsFile!Look, SettingsFile!Lock, SettingsFile!Locked,
             SettingsFile!Read, SettingsFile!Reload, SettingsFile!Change
    <3>4. CASE SettingsFile!GrowStale
      BY <3>4 DEF SettingsFile!GrowStale
    <3> QED BY <1>1, <3>1, <3>2, <3>3, <3>4 DEF SettingsFile!Next, SettingsFile!Synchronous
  <2>3. t_file' = SettingsFile!Merged(p)
    BY <2>2 DEF SettingsFile!Write
  <2>4. t_file = None => t_job[p].seen = None
    BY <2>1
  <2>5. t_file'[f] = (IF t_job[p].seen = None THEN SettingsFile!Empty ELSE t_job[p].seen)[f]
    BY <2>3 DEF SettingsFile!Merged
  <2> QED BY <2>1, <2>4, <2>5 DEF SettingsFile!Empty
<1>2. SettingNames /\ SettingsInv /\ [SettingsFile!Next]_(SettingsFile!settingsVars)
            => [OthersKept]_(SettingsFile!settingsVars)
  BY <1>1
<1> QED BY <1>2, SettingsInit, SettingsStep, PTL DEF SettingsFile!Spec, SettingsFile!OtherFieldsKept

----------------------------------------------------------------------------
(* Replacing the session *)

RuntimeAssumption == ReplacedSessions \in Nat \ {0}

Stages == Runtime!UnderWay \union {"none", "done"}
JobRecords == [stage : Stages, kind : Runtime!Kinds, target : 0 .. ReplacedSessions,
               last : 0 .. ReplacedSessions, next : 0 .. ReplacedSessions]

\* A command's record is replaced.
JobIs(c, r) == n_job' = [n_job EXCEPT ![c] = r]
Made == {"applying", "setup", "returning"}
JobsTyped ==
  /\ n_job \in [Replacements -> JobRecords]
  /\ \A c \in Replacements : n_job[c].last <= n_created /\ n_job[c].next <= n_created
  /\ \A c \in Replacements : n_job[c].stage \in Made => n_job[c].next # 0

NamesTyped ==
  /\ n_created \in 1 .. ReplacedSessions /\ n_current \in 1 .. n_created
  /\ n_session \in 1 .. n_created /\ n_heard \in 0 .. n_created
  /\ n_connected \subseteq 1 .. n_created /\ n_torn \subseteq 1 .. n_created
  /\ n_process \in {"up", "closing", "gone"} /\ n_overlapped \in BOOLEAN
CountsTyped ==
  /\ n_manager \in [Runtime!Sessions -> Runtime!Sessions]
  /\ n_branch \in [Runtime!Sessions -> Nat] /\ n_view \in [Runtime!Sessions -> Nat]
  /\ n_starts \in [Runtime!Sessions -> Nat] /\ n_stops \in [Runtime!Sessions -> Nat]
RuntimeTypes == JobsTyped /\ NamesTyped /\ CountsTyped
\* What a command has done to the current session.
Disposing(c) == n_job[c].stage \in {"creating", "applying"} /\ n_job[c].last = n_current
Installing(c) == n_job[c].stage \in {"setup", "returning"} /\ n_job[c].next = n_current

\* A session that is to become the current one is connected and nobody else's.  The current
\* one is connected, commands go to it and it is heard, unless a command that has not ended
\* will change that, or one has failed to.
CurrentInv ==
  /\ \A c \in Replacements : n_job[c].stage = "applying" =>
       /\ n_job[c].next \in n_connected /\ n_job[c].next # n_current
       /\ \A d \in Replacements : n_job[d].stage = "applying" /\ n_job[d].next = n_job[c].next => c = d
  /\ n_process # "gone" /\ n_current \notin n_torn =>
       n_current \in n_connected \/ \E c \in Replacements : Disposing(c)
  /\ n_current \notin n_torn =>
       n_session = n_current \/ \E c \in Replacements : Installing(c)
  /\ n_process = "up" /\ n_current \notin n_torn =>
       \/ n_heard = n_current
       \/ \E c \in Replacements :
            Disposing(c) \/ Installing(c) \/ (n_job[c].stage = "binding" /\ n_session = n_current)


----------------------------------------------------------------------------

LEMMA JobGoes ==
  ASSUME RuntimeTypes, NEW c \in Replacements, NEW r \in JobRecords, JobIs(c, r),
         r.last <= n_created', r.next <= n_created', n_created <= n_created', n_created' \in Nat,
         r.stage \in Made => r.next # 0
  PROVE  /\ JobsTyped' /\ n_job'[c] = r
         /\ \A d \in Replacements : d # c => n_job'[d] = n_job[d]
<1>1. n_job' \in [Replacements -> JobRecords]
  BY DEF RuntimeTypes, JobsTyped, JobIs
<1>2. n_job'[c] = r /\ \A d \in Replacements : d # c => n_job'[d] = n_job[d]
  BY DEF RuntimeTypes, JobsTyped, JobIs
<1>3. \A d \in Replacements : n_job'[d].last <= n_created' /\ n_job'[d].next <= n_created'
  <2> SUFFICES ASSUME NEW d \in Replacements, d # c
               PROVE  n_job'[d].last <= n_created' /\ n_job'[d].next <= n_created'
    BY <1>2
  <2>1. n_job[d] \in JobRecords /\ n_job[d].last <= n_created /\ n_job[d].next <= n_created
    BY DEF RuntimeTypes, JobsTyped
  <2>2. n_job[d].last \in 0 .. ReplacedSessions /\ n_job[d].next \in 0 .. ReplacedSessions
    BY <2>1 DEF JobRecords
  <2>3. n_created \in Nat
    BY DEF RuntimeTypes, NamesTyped
  <2> QED BY <1>2, <2>1, <2>2, <2>3
<1>4. \A d \in Replacements : n_job'[d].stage \in Made => n_job'[d].next # 0
  BY <1>2 DEF RuntimeTypes, JobsTyped
<1> QED BY <1>1, <1>2, <1>3, <1>4 DEF JobsTyped

\* A record that only goes on.
LEMMA StageGoes ==
  ASSUME RuntimeTypes, NEW c \in Replacements, NEW st \in Stages, Runtime!Goes(c, st),
         n_created' = n_created, st \in Made => n_job[c].next # 0
  PROVE  /\ JobsTyped' /\ n_job'[c] = [n_job[c] EXCEPT !.stage = st]
         /\ n_job'[c].stage = st /\ n_job'[c].kind = n_job[c].kind
         /\ n_job'[c].target = n_job[c].target
         /\ n_job'[c].last = n_job[c].last /\ n_job'[c].next = n_job[c].next
         /\ \A d \in Replacements : d # c => n_job'[d] = n_job[d]
<1> DEFINE r == [n_job[c] EXCEPT !.stage = st]
<1>1. n_job[c] \in JobRecords /\ n_job[c].last <= n_created /\ n_job[c].next <= n_created
  BY DEF RuntimeTypes, JobsTyped
<1>2. /\ r \in JobRecords /\ r.stage = st /\ r.kind = n_job[c].kind
      /\ r.target = n_job[c].target /\ r.last = n_job[c].last /\ r.next = n_job[c].next
  BY <1>1 DEF JobRecords
<1>3. JobIs(c, r) /\ n_created <= n_created' /\ n_created' \in Nat
  BY DEF Runtime!Goes, JobIs, RuntimeTypes, NamesTyped
<1> HIDE DEF r
<1>4. JobsTyped' /\ n_job'[c] = r /\ \A d \in Replacements : d # c => n_job'[d] = n_job[d]
  BY <1>1, <1>2, <1>3, JobGoes
<1> QED BY <1>2, <1>4 DEF r

LEMMA RuntimeTypesStep ==
  ASSUME RuntimeAssumption PROVE RuntimeTypes /\ [Runtime!Next]_runtimeVars => RuntimeTypes'
<1> SUFFICES ASSUME RuntimeTypes, [Runtime!Next]_runtimeVars PROVE RuntimeTypes'
  OBVIOUS
<1> USE DEF Runtime!runtimeVars, Runtime!managerVars,
            Runtime!extensionVars, Runtime!frontVars, Runtime!historyVars
<1>0. \A c \in Replacements :
      n_job[c] \in JobRecords /\ n_job[c].last <= n_created /\ n_job[c].next <= n_created
  BY DEF RuntimeTypes, JobsTyped
<1>u. {"none", "done", "asking", "stopping", "creating", "applying", "setup", "returning", "binding"} = Stages
  BY DEF Stages, Runtime!UnderWay
<1>t. /\ n_created \in Nat /\ n_created \in Runtime!Sessions /\ n_current \in Runtime!Sessions
      /\ n_current \in 1 .. n_created
  BY DEF RuntimeAssumption, RuntimeTypes, NamesTyped, Runtime!Sessions
<1>j. \A stg \in Stages, k \in Runtime!Kinds, t \in 0 .. ReplacedSessions :
        /\ Runtime!Job(stg, k, t) \in JobRecords /\ Runtime!Job(stg, k, t).stage = stg
        /\ Runtime!Job(stg, k, t).last = 0 /\ Runtime!Job(stg, k, t).next = 0
  BY DEF Runtime!Job, JobRecords, Runtime!Nobody, RuntimeAssumption
<1>1. ASSUME NEW c \in Replacements, NEW kind \in Runtime!Kinds, Runtime!Ask(c, kind)
      PROVE  RuntimeTypes'
  <2> DEFINE r == Runtime!Job("asking", kind, Runtime!Nobody)
  <2>1. JobIs(c, r) /\ UNCHANGED <<n_current, n_created, n_connected, n_session, n_heard, n_process, n_torn,
                                    n_manager, n_branch, n_view, n_starts, n_stops>>
    BY <1>1 DEF Runtime!Ask, JobIs
  <2>2. n_overlapped' \in BOOLEAN
    BY <1>1 DEF Runtime!Ask
  <2>3. Runtime!Nobody \in 0 .. ReplacedSessions
    BY DEF Runtime!Nobody, RuntimeAssumption
  <2>4. r \in JobRecords /\ r.stage \notin Made /\ r.last = 0 /\ r.next = 0
    BY <1>j, <1>u, <2>3 DEF Made
  <2> HIDE DEF r
  <2>5. JobsTyped'
    BY <1>t, <2>1, <2>4, JobGoes
  <2>6. NamesTyped' /\ CountsTyped'
    BY <2>1, <2>2 DEF RuntimeTypes, NamesTyped, CountsTyped
  <2> QED BY <2>5, <2>6 DEF RuntimeTypes
<1>2. ASSUME NEW c \in Replacements, Runtime!Refuse(c) PROVE RuntimeTypes'
  <2>1. JobsTyped'
    BY <1>2, <1>u, StageGoes DEF Runtime!Refuse, Made
  <2>2. NamesTyped' /\ CountsTyped'
    BY <1>2 DEF Runtime!Refuse, RuntimeTypes, NamesTyped, CountsTyped
  <2> QED BY <2>1, <2>2 DEF RuntimeTypes
<1>3. ASSUME NEW c \in Replacements, Runtime!Prepare(c) PROVE RuntimeTypes'
  <2> DEFINE inPlace == n_job[c].kind = "fork" /\ ~n_saved[n_manager[n_current]]
             m == n_manager[n_current]
             r == Runtime!Job("stopping", n_job[c].kind, IF inPlace THEN m ELSE Runtime!Nobody)
  <2>1. /\ JobIs(c, r) /\ n_branch' = IF inPlace THEN [n_branch EXCEPT ![m] = @ + 1] ELSE n_branch
        /\ n_stops' = [n_stops EXCEPT ![n_current] = @ + 1]
        /\ UNCHANGED <<n_current, n_created, n_connected, n_session, n_heard, n_process, n_torn,
                       n_manager, n_view, n_starts, n_overlapped>>
    BY <1>3 DEF Runtime!Prepare, JobIs
  <2>2. m \in Runtime!Sessions /\ n_job[c].kind \in Runtime!Kinds
    BY <1>0, <1>t DEF RuntimeTypes, CountsTyped, JobRecords
  <2>3. (IF inPlace THEN m ELSE Runtime!Nobody) \in 0 .. ReplacedSessions
    BY <2>2 DEF Runtime!Nobody, RuntimeAssumption, Runtime!Sessions
  <2> HIDE DEF inPlace, m
  <2>4. r \in JobRecords /\ r.stage \notin Made /\ r.last = 0 /\ r.next = 0
    BY <1>j, <1>u, <2>2, <2>3 DEF Made
  <2> HIDE DEF r
  <2>5. JobsTyped'
    BY <1>t, <2>1, <2>4, JobGoes
  <2>6. NamesTyped'
    BY <2>1 DEF RuntimeTypes, NamesTyped
  <2>7. CountsTyped'
    <3>1. n_branch' \in [Runtime!Sessions -> Nat]
      BY <2>1, <2>2 DEF RuntimeTypes, CountsTyped
    <3>2. n_stops' \in [Runtime!Sessions -> Nat]
      BY <1>t, <2>1 DEF RuntimeTypes, CountsTyped
    <3> QED BY <2>1, <3>1, <3>2 DEF RuntimeTypes, CountsTyped
  <2> QED BY <2>5, <2>6, <2>7 DEF RuntimeTypes
<1>4. ASSUME NEW c \in Replacements, Runtime!Stopped(c) PROVE RuntimeTypes'
  <2> DEFINE r == [n_job[c] EXCEPT !.stage = "creating", !.last = n_current]
  <2>1. /\ JobIs(c, r)
        /\ UNCHANGED <<n_current, n_created, n_session, n_process, n_torn, n_overlapped,
                       n_manager, n_branch, n_view, n_starts, n_stops>>
    BY <1>4 DEF Runtime!Stopped, JobIs
  <2>2. n_connected' \subseteq n_connected /\ n_heard' \in {n_heard, 0}
    BY <1>4 DEF Runtime!Stopped, Runtime!Dispose, Runtime!Nobody
  <2>3. r \in JobRecords /\ r.stage \notin Made /\ r.last = n_current /\ r.next = n_job[c].next
    <3>1. n_job[c] \in JobRecords /\ "creating" \in Stages /\ n_current \in 0 .. ReplacedSessions
      BY <1>0, <1>t, <1>u DEF Runtime!Sessions
    <3> QED BY <3>1 DEF JobRecords, Made
  <2> HIDE DEF r
  <2>5. JobsTyped'
    BY <1>0, <1>t, <2>1, <2>3, JobGoes
  <2>6. NamesTyped'
    BY <2>1, <2>2 DEF RuntimeTypes, NamesTyped
  <2>7. CountsTyped'
    BY <2>1 DEF RuntimeTypes, CountsTyped
  <2> QED BY <2>5, <2>6, <2>7 DEF RuntimeTypes
<1>5. ASSUME NEW c \in Replacements, Runtime!Create(c) PROVE RuntimeTypes'
  <2> DEFINE s == n_created + 1
             m == IF n_job[c].target = Runtime!Nobody THEN s ELSE n_job[c].target
             r == [n_job[c] EXCEPT !.stage = "applying", !.next = s]
  <2>1. /\ JobIs(c, r) /\ n_created < ReplacedSessions /\ n_created' = s
        /\ n_connected' = n_connected \union {s}
        /\ n_manager' = [n_manager EXCEPT ![s] = m] /\ n_view' = [n_view EXCEPT ![s] = n_branch[m]]
        /\ UNCHANGED <<n_current, n_session, n_heard, n_process, n_torn, n_overlapped,
                       n_branch, n_starts, n_stops>>
    BY <1>5 DEF Runtime!Create, JobIs
  <2>2. s \in Runtime!Sessions /\ s \in 0 .. ReplacedSessions /\ n_created <= s /\ s <= s
    BY <1>t, <2>1 DEF RuntimeAssumption, Runtime!Sessions
  <2>3. m \in Runtime!Sessions
    BY <1>0, <2>2 DEF JobRecords, Runtime!Sessions, Runtime!Nobody
  <2>4. r \in JobRecords /\ r.last = n_job[c].last /\ r.next = s /\ s # 0
    <3>1. n_job[c] \in JobRecords /\ "applying" \in Stages /\ s \in 0 .. ReplacedSessions /\ s # 0
      BY <1>0, <1>t, <1>u, <2>2
    <3> HIDE DEF s
    <3> QED BY <3>1 DEF JobRecords
  <2>8. r.last <= s
    BY <1>0, <1>t, <2>4 DEF JobRecords
  <2> HIDE DEF r, m
  <2>5. JobsTyped'
    BY <1>t, <2>1, <2>2, <2>4, <2>8, JobGoes
  <2>6. NamesTyped'
    <3>1. /\ n_created \in 1 .. ReplacedSessions /\ n_current \in 1 .. n_created
          /\ n_session \in 1 .. n_created /\ n_heard \in 0 .. n_created
          /\ n_connected \subseteq 1 .. n_created /\ n_torn \subseteq 1 .. n_created
          /\ n_process \in {"up", "closing", "gone"} /\ n_overlapped \in BOOLEAN
      BY DEF RuntimeTypes, NamesTyped
    <3>2. \A k : k \in 1 .. n_created => k \in 1 .. n_created'
      BY <1>t, <2>1
    <3>3. n_connected' \subseteq 1 .. n_created'
      BY <1>t, <2>1, <3>1, <3>2
    <3>4. /\ n_created' \in 1 .. ReplacedSessions /\ n_current' \in 1 .. n_created'
          /\ n_session' \in 1 .. n_created' /\ n_heard' \in 0 .. n_created'
      BY <1>t, <2>1, <3>1 DEF RuntimeAssumption
    <3>5. n_torn' \subseteq 1 .. n_created'
      BY <2>1, <3>1, <3>2, Zenon
    <3> QED BY <2>1, <3>1, <3>3, <3>4, <3>5 DEF NamesTyped
  <2>7. CountsTyped'
    BY <2>1, <2>2, <2>3 DEF RuntimeTypes, CountsTyped
  <2> QED BY <2>5, <2>6, <2>7 DEF RuntimeTypes
<1>6. ASSUME NEW c \in Replacements, Runtime!Fail(c) PROVE RuntimeTypes'
  <2>1. JobsTyped'
    BY <1>6, <1>u, StageGoes DEF Runtime!Fail, Made
  <2>2. n_job[c].last \in 0 .. n_created /\ n_job[c].next \in 0 .. n_created
    BY <1>0, <1>t DEF JobRecords
  <2>3. n_torn' \subseteq 1 .. n_created
    <3>1. n_torn' = n_torn \union ({n_job[c].last, n_job[c].next} \ {0}) /\ n_torn \subseteq 1 .. n_created
      BY <1>6 DEF Runtime!Fail, Runtime!Nobody, RuntimeTypes, NamesTyped
    <3>2. \A k \in {n_job[c].last, n_job[c].next} \ {0} : k \in 1 .. n_created
      BY <1>t, <2>2
    <3> QED BY <3>1, <3>2, Zenon
  <2>4. NamesTyped' /\ CountsTyped'
    BY <1>6, <2>3 DEF Runtime!Fail, RuntimeTypes, NamesTyped, CountsTyped
  <2> QED BY <2>1, <2>4 DEF RuntimeTypes
<1>n. \A c \in Replacements : n_job[c].stage \in Made => n_job[c].next \in 1 .. n_created
  <2> SUFFICES ASSUME NEW c \in Replacements, n_job[c].stage \in Made
               PROVE  n_job[c].next \in 1 .. n_created
    OBVIOUS
  <2>1. n_job[c].next # 0
    BY DEF RuntimeTypes, JobsTyped
  <2> QED BY <1>0, <1>t, <2>1 DEF JobRecords
<1>7. ASSUME NEW c \in Replacements, Runtime!Apply(c) PROVE RuntimeTypes'
  <2>1. n_job[c].next \in 1 .. n_created /\ n_job[c].next # 0
    BY <1>7, <1>n, <1>t DEF Runtime!Apply, Made
  <2>2. JobsTyped'
    BY <1>7, <1>u, <2>1, StageGoes DEF Runtime!Apply
  <2>3. NamesTyped' /\ CountsTyped'
    BY <1>7, <2>1 DEF Runtime!Apply, RuntimeTypes, NamesTyped, CountsTyped
  <2> QED BY <2>2, <2>3 DEF RuntimeTypes
<1>8. ASSUME NEW c \in Replacements, Runtime!SetUp(c) PROVE RuntimeTypes'
  <2>1. n_job[c].next # 0 /\ n_view' \in [Runtime!Sessions -> Nat]
    BY <1>8, <1>n, <1>t DEF Runtime!SetUp, Made, RuntimeTypes, CountsTyped
  <2>2. JobsTyped'
    BY <1>8, <1>u, <2>1, StageGoes DEF Runtime!SetUp
  <2>3. NamesTyped' /\ CountsTyped'
    BY <1>8, <2>1 DEF Runtime!SetUp, RuntimeTypes, NamesTyped, CountsTyped
  <2> QED BY <2>2, <2>3 DEF RuntimeTypes
<1>9. ASSUME NEW c \in Replacements, Runtime!SetUpFails(c) PROVE RuntimeTypes'
  <2>1. n_job[c].next \in 1 .. n_created /\ n_job[c].next # 0
    BY <1>9, <1>n, <1>t DEF Runtime!SetUpFails, Made
  <2>2. JobsTyped'
    BY <1>9, <1>u, <2>1, StageGoes DEF Runtime!SetUpFails, Made
  <2>3. NamesTyped' /\ CountsTyped'
    BY <1>9, <2>1 DEF Runtime!SetUpFails, RuntimeTypes, NamesTyped, CountsTyped
  <2> QED BY <2>2, <2>3 DEF RuntimeTypes
<1>10. ASSUME NEW c \in Replacements, Runtime!Bind(c) PROVE RuntimeTypes'
  <2>1. n_starts' \in [Runtime!Sessions -> Nat] /\ n_session' = n_current
    BY <1>10, <1>t DEF Runtime!Bind, Runtime!BindTo, RuntimeTypes, CountsTyped
  <2>2. JobsTyped'
    BY <1>10, <1>u, StageGoes DEF Runtime!Bind, Runtime!BindTo, Made
  <2>3. NamesTyped' /\ CountsTyped'
    BY <1>10, <2>1 DEF Runtime!Bind, Runtime!BindTo, RuntimeTypes, NamesTyped, CountsTyped
  <2> QED BY <2>2, <2>3 DEF RuntimeTypes
<1>11. ASSUME NEW c \in Replacements, Runtime!Bound(c) PROVE RuntimeTypes'
  <2>1. JobsTyped'
    BY <1>11, <1>u, StageGoes DEF Runtime!Bound, Made
  <2>2. NamesTyped' /\ CountsTyped'
    BY <1>11, <1>t DEF Runtime!Bound, RuntimeTypes, NamesTyped, CountsTyped
  <2> QED BY <2>1, <2>2 DEF RuntimeTypes
<1>12. CASE Runtime!Close
  <2>1. n_stops' \in [Runtime!Sessions -> Nat]
    BY <1>12, <1>t DEF Runtime!Close, RuntimeTypes, CountsTyped
  <2>2. n_overlapped' \in BOOLEAN
    BY <1>12 DEF Runtime!Close
  <2>3. JobsTyped' /\ CountsTyped'
    BY <1>12, <2>1 DEF Runtime!Close, RuntimeTypes, JobsTyped, CountsTyped
  <2>4. NamesTyped'
    BY <1>12, <2>2, <1>t DEF Runtime!Close, Runtime!Nobody, RuntimeTypes, NamesTyped
  <2> QED BY <2>3, <2>4 DEF RuntimeTypes
<1>13. CASE Runtime!Exit
  BY <1>13, <1>t DEF Runtime!Exit, Runtime!Dispose, Runtime!Nobody, RuntimeTypes, NamesTyped,
                     CountsTyped, JobsTyped
<1>14. CASE UNCHANGED runtimeVars
  BY <1>14 DEF runtimeVars, RuntimeTypes, NamesTyped, CountsTyped, JobsTyped
<1> QED BY <1>1, <1>2, <1>3, <1>4, <1>5, <1>6, <1>7, <1>8, <1>9, <1>10, <1>11, <1>12, <1>13, <1>14
        DEF Runtime!Next

----------------------------------------------------------------------------

\* What says which session is the current one, and how it stands.
currentVars == <<n_current, n_created, n_connected, n_session, n_heard, n_process, n_torn>>

LEMMA CurrentStep ==
  ASSUME RuntimeAssumption PROVE RuntimeTypes /\ CurrentInv /\ [Runtime!Next]_runtimeVars => CurrentInv'
<1> SUFFICES ASSUME RuntimeTypes, CurrentInv, [Runtime!Next]_runtimeVars PROVE CurrentInv'
  OBVIOUS
<1> USE DEF Runtime!runtimeVars, Runtime!managerVars,
            Runtime!extensionVars, Runtime!frontVars, Runtime!historyVars
<1>0. n_created \in Nat /\ n_current \in 1 .. n_created /\ n_connected \subseteq 1 .. n_created
  BY DEF RuntimeTypes, NamesTyped, RuntimeAssumption
<1>u. {"none", "done", "asking", "stopping", "creating", "applying", "setup", "returning", "binding"} = Stages
  BY DEF Stages, Runtime!UnderWay
<1>t. \A c \in Replacements :
      n_job[c] \in JobRecords /\ n_job[c].last <= n_created /\ n_job[c].next <= n_created
  BY DEF RuntimeTypes, JobsTyped
<1>n. \A c \in Replacements : n_job[c].stage \in Made
            => n_job[c].next \in 1 .. n_created /\ n_job[c].next # 0
  <2> SUFFICES ASSUME NEW c \in Replacements, n_job[c].stage \in Made
               PROVE  n_job[c].next \in 1 .. n_created /\ n_job[c].next # 0
    OBVIOUS
  <2>1. n_job[c].next # 0
    BY DEF RuntimeTypes, JobsTyped
  <2> QED BY <1>0, <1>t, <2>1 DEF JobRecords
<1> DEFINE Quiet == {"none", "asking", "stopping", "done"}
\* A command whose stage means nothing to the current session.
<1>q. ASSUME NEW c \in Replacements, n_job[c].stage \in Quiet, n_job'[c].stage \in Quiet,
             \A d \in Replacements : d # c => n_job'[d] = n_job[d],
             UNCHANGED currentVars
      PROVE  CurrentInv'
  BY <1>q DEF CurrentInv, Disposing, Installing, currentVars
<1>1. ASSUME NEW c \in Replacements, NEW kind \in Runtime!Kinds, Runtime!Ask(c, kind) PROVE CurrentInv'
  <2>1. n_job' = [n_job EXCEPT ![c] = Runtime!Job("asking", kind, Runtime!Nobody)]
    BY <1>1 DEF Runtime!Ask
  <2>2. n_job'[c].stage = "asking" /\ \A d \in Replacements : d # c => n_job'[d] = n_job[d]
    BY <2>1 DEF Runtime!Job, RuntimeTypes, JobsTyped
  <2> QED BY <1>1, <1>q, <2>2 DEF Runtime!Ask, currentVars
<1>2. ASSUME NEW c \in Replacements, Runtime!Refuse(c) PROVE CurrentInv'
  <2>1. n_job'[c].stage = "done" /\ \A d \in Replacements : d # c => n_job'[d] = n_job[d]
    BY <1>2, <1>u, StageGoes DEF Runtime!Refuse, Made
  <2> QED BY <1>2, <1>q, <2>1 DEF Runtime!Refuse, currentVars
<1>3. ASSUME NEW c \in Replacements, Runtime!Prepare(c) PROVE CurrentInv'
  <2>1. \E t : n_job' = [n_job EXCEPT ![c] = Runtime!Job("stopping", n_job[c].kind, t)]
    BY <1>3 DEF Runtime!Prepare
  <2>2. n_job'[c].stage = "stopping" /\ \A d \in Replacements : d # c => n_job'[d] = n_job[d]
    BY <2>1 DEF Runtime!Job, RuntimeTypes, JobsTyped
  <2> QED BY <1>3, <1>q, <2>2 DEF Runtime!Prepare, currentVars
<1>4. ASSUME NEW c \in Replacements, Runtime!Stopped(c) PROVE CurrentInv'
  <2>1. n_job' = [n_job EXCEPT ![c] = [n_job[c] EXCEPT !.stage = "creating", !.last = n_current]]
    BY <1>4 DEF Runtime!Stopped
  <2>2. /\ n_job'[c].stage = "creating" /\ n_job'[c].last = n_current
        /\ \A d \in Replacements : d # c => n_job'[d] = n_job[d]
    BY <1>t, <2>1 DEF JobRecords, RuntimeTypes, JobsTyped
  <2>3. /\ n_job[c].stage = "stopping" /\ n_process' = n_process /\ n_current' = n_current
        /\ n_torn' = n_torn /\ n_session' = n_session /\ n_connected' = n_connected \ {n_current}
    BY <1>4 DEF Runtime!Stopped, Runtime!Dispose
  <2>4. Disposing(c)'
    BY <2>2, <2>3 DEF Disposing
  <2>5. \A d \in Replacements : Installing(d) => Installing(d)'
    BY <2>2, <2>3 DEF Installing
  <2>6. \A d \in Replacements : n_job'[d].stage = "applying" =>
          /\ n_job'[d].next \in n_connected' /\ n_job'[d].next # n_current'
          /\ \A e \in Replacements : n_job'[e].stage = "applying" /\ n_job'[e].next = n_job'[d].next => d = e
    BY <2>2, <2>3 DEF CurrentInv
  <2> QED BY <2>3, <2>4, <2>5, <2>6 DEF CurrentInv
<1>5. ASSUME NEW c \in Replacements, Runtime!Create(c) PROVE CurrentInv'
  <2> DEFINE s == n_created + 1
  <2>1. n_job' = [n_job EXCEPT ![c] = [n_job[c] EXCEPT !.stage = "applying", !.next = s]]
    BY <1>5 DEF Runtime!Create
  <2>2. /\ n_job'[c].stage = "applying" /\ n_job'[c].last = n_job[c].last /\ n_job'[c].next = s
        /\ \A d \in Replacements : d # c => n_job'[d] = n_job[d]
    BY <1>t, <2>1 DEF JobRecords, RuntimeTypes, JobsTyped
  <2>3. /\ n_job[c].stage = "creating" /\ n_process' = n_process /\ n_current' = n_current
        /\ n_torn' = n_torn /\ n_session' = n_session /\ n_heard' = n_heard
        /\ n_connected' = n_connected \union {s}
    BY <1>5 DEF Runtime!Create
  <2>4. \A d \in Replacements : Disposing(d) => Disposing(d)'
    BY <2>2, <2>3 DEF Disposing
  <2>5. \A d \in Replacements : Installing(d) => Installing(d)'
    BY <2>2, <2>3 DEF Installing
  <2>6. s # n_current /\ \A d \in Replacements : n_job[d].next # s
    BY <1>0, <1>t DEF JobRecords
  <2>7. \A d \in Replacements : n_job'[d].stage = "applying" =>
          /\ n_job'[d].next \in n_connected' /\ n_job'[d].next # n_current'
          /\ \A e \in Replacements : n_job'[e].stage = "applying" /\ n_job'[e].next = n_job'[d].next => d = e
    <3> HIDE DEF s
    <3> QED BY <2>2, <2>3, <2>6 DEF CurrentInv
  <2>8. \A d \in Replacements : n_job[d].stage = "binding" => n_job'[d].stage = "binding"
    BY <2>2, <2>3
  <2> HIDE DEF s
  <2> QED BY <2>3, <2>4, <2>5, <2>7, <2>8 DEF CurrentInv
<1>6. ASSUME NEW c \in Replacements, Runtime!Fail(c) PROVE CurrentInv'
  <2>1. n_job[c].stage \in {"creating", "applying"}
    BY <1>6 DEF Runtime!Fail
  <2>2. n_job'[c].stage = "done" /\ \A d \in Replacements : d # c => n_job'[d] = n_job[d]
    BY <1>6, <1>u, StageGoes DEF Runtime!Fail, Made
  <2>3. /\ n_process' = n_process /\ n_current' = n_current
        /\ n_session' = n_session /\ n_heard' = n_heard /\ n_connected' = n_connected
        /\ n_torn \subseteq n_torn' /\ (n_job[c].last # 0 => n_job[c].last \in n_torn')
    BY <1>6 DEF Runtime!Fail, Runtime!Nobody
  <2>4. \A d \in Replacements : Disposing(d) => Disposing(d)' \/ n_current' \in n_torn'
    BY <1>0, <2>2, <2>3 DEF Disposing
  <2>5. \A d \in Replacements : Installing(d) => Installing(d)'
    BY <2>1, <2>2, <2>3 DEF Installing
  <2>6. \A d \in Replacements : n_job'[d].stage = "applying" =>
          /\ n_job'[d].next \in n_connected' /\ n_job'[d].next # n_current'
          /\ \A e \in Replacements : n_job'[e].stage = "applying" /\ n_job'[e].next = n_job'[d].next => d = e
    BY <2>2, <2>3 DEF CurrentInv
  <2>7. \A d \in Replacements : n_job[d].stage = "binding" => n_job'[d].stage = "binding"
    BY <2>1, <2>2
  <2> QED BY <2>3, <2>4, <2>5, <2>6, <2>7 DEF CurrentInv
<1>7. ASSUME NEW c \in Replacements, Runtime!Apply(c) PROVE CurrentInv'
  <2>1. n_job[c].stage = "applying" /\ n_current' = n_job[c].next
    BY <1>7 DEF Runtime!Apply
  <2>2. /\ n_job'[c].stage \in {"setup", "returning"} /\ n_job'[c].next = n_job[c].next
        /\ \A d \in Replacements : d # c => n_job'[d] = n_job[d]
    BY <1>7, <1>u, <1>n, StageGoes DEF Runtime!Apply, Made
  <2>3. /\ n_process' = n_process /\ n_torn' = n_torn
        /\ n_session' = n_session /\ n_heard' = n_heard /\ n_connected' = n_connected
    BY <1>7 DEF Runtime!Apply
  <2>4. Installing(c)' /\ n_current' \in n_connected'
    BY <2>1, <2>2, <2>3 DEF Installing, CurrentInv
  <2>6. \A d \in Replacements : n_job'[d].stage = "applying" =>
          /\ n_job'[d].next \in n_connected' /\ n_job'[d].next # n_current'
          /\ \A e \in Replacements : n_job'[e].stage = "applying" /\ n_job'[e].next = n_job'[d].next => d = e
    BY <2>1, <2>2, <2>3 DEF CurrentInv
  <2> QED BY <2>4, <2>6 DEF CurrentInv
<1>8. ASSUME NEW c \in Replacements, Runtime!SetUp(c) PROVE CurrentInv'
  <2>1. n_job[c].stage = "setup" /\ UNCHANGED currentVars
    BY <1>8 DEF Runtime!SetUp, currentVars
  <2>2. /\ n_job'[c].stage = "returning" /\ n_job'[c].next = n_job[c].next
        /\ \A d \in Replacements : d # c => n_job'[d] = n_job[d]
    BY <1>8, <1>u, <1>n, StageGoes DEF Runtime!SetUp, Made
  <2> QED BY <2>1, <2>2 DEF CurrentInv, Disposing, Installing, currentVars
<1>9. ASSUME NEW c \in Replacements, Runtime!SetUpFails(c) PROVE CurrentInv'
  <2>1. n_job[c].stage = "setup"
    BY <1>9 DEF Runtime!SetUpFails
  <2>2. n_job'[c].stage = "done" /\ \A d \in Replacements : d # c => n_job'[d] = n_job[d]
    BY <1>9, <1>u, StageGoes DEF Runtime!SetUpFails, Made
  <2>3. /\ n_process' = n_process /\ n_current' = n_current
        /\ n_session' = n_session /\ n_heard' = n_heard /\ n_connected' = n_connected
        /\ n_torn' = n_torn \union {n_job[c].next}
    BY <1>9 DEF Runtime!SetUpFails
  <2>4. \A d \in Replacements : Disposing(d) => Disposing(d)'
    BY <2>1, <2>2, <2>3 DEF Disposing
  <2>5. \A d \in Replacements : Installing(d) => Installing(d)' \/ n_current' \in n_torn'
    BY <2>1, <2>2, <2>3 DEF Installing
  <2>6. \A d \in Replacements : n_job'[d].stage = "applying" =>
          /\ n_job'[d].next \in n_connected' /\ n_job'[d].next # n_current'
          /\ \A e \in Replacements : n_job'[e].stage = "applying" /\ n_job'[e].next = n_job'[d].next => d = e
    BY <2>2, <2>3 DEF CurrentInv
  <2>7. \A d \in Replacements : n_job[d].stage = "binding" => n_job'[d].stage = "binding"
    BY <2>1, <2>2
  <2> QED BY <2>3, <2>4, <2>5, <2>6, <2>7 DEF CurrentInv
<1>10. ASSUME NEW c \in Replacements, Runtime!Bind(c) PROVE CurrentInv'
  <2>1. n_job[c].stage = "returning" /\ n_session' = n_current
    BY <1>10 DEF Runtime!Bind, Runtime!BindTo
  <2>2. n_job'[c].stage = "binding" /\ \A d \in Replacements : d # c => n_job'[d] = n_job[d]
    BY <1>10, <1>u, StageGoes DEF Runtime!Bind, Runtime!BindTo, Made
  <2>3. /\ n_process' = n_process /\ n_current' = n_current /\ n_torn' = n_torn
        /\ n_heard' = n_heard /\ n_connected' = n_connected
    BY <1>10 DEF Runtime!Bind, Runtime!BindTo
  <2>4. \A d \in Replacements : Disposing(d) => Disposing(d)'
    BY <2>1, <2>2, <2>3 DEF Disposing
  <2>6. \A d \in Replacements : n_job'[d].stage = "applying" =>
          /\ n_job'[d].next \in n_connected' /\ n_job'[d].next # n_current'
          /\ \A e \in Replacements : n_job'[e].stage = "applying" /\ n_job'[e].next = n_job'[d].next => d = e
    BY <2>1, <2>2, <2>3 DEF CurrentInv
  <2> QED BY <2>1, <2>2, <2>3, <2>4, <2>6 DEF CurrentInv
<1>11. ASSUME NEW c \in Replacements, Runtime!Bound(c) PROVE CurrentInv'
  <2>1. n_job[c].stage = "binding" /\ n_heard' = n_session
    BY <1>11 DEF Runtime!Bound
  <2>2. n_job'[c].stage = "done" /\ \A d \in Replacements : d # c => n_job'[d] = n_job[d]
    BY <1>11, <1>u, StageGoes DEF Runtime!Bound, Made
  <2>3. /\ n_process' = n_process /\ n_current' = n_current /\ n_torn' = n_torn
        /\ n_session' = n_session /\ n_connected' = n_connected
    BY <1>11 DEF Runtime!Bound
  <2>4. \A d \in Replacements : (Disposing(d) => Disposing(d)') /\ (Installing(d) => Installing(d)')
    BY <2>1, <2>2, <2>3 DEF Disposing, Installing
  <2>6. \A d \in Replacements : n_job'[d].stage = "applying" =>
          /\ n_job'[d].next \in n_connected' /\ n_job'[d].next # n_current'
          /\ \A e \in Replacements : n_job'[e].stage = "applying" /\ n_job'[e].next = n_job'[d].next => d = e
    BY <2>1, <2>2, <2>3 DEF CurrentInv
  <2> QED BY <2>1, <2>3, <2>4, <2>6 DEF CurrentInv
<1>12. CASE Runtime!Close
  BY <1>12 DEF Runtime!Close, CurrentInv, Disposing, Installing
<1>13. CASE Runtime!Exit
  BY <1>13 DEF Runtime!Exit, Runtime!Dispose, CurrentInv, Disposing, Installing
<1>14. CASE UNCHANGED runtimeVars
  BY <1>14 DEF runtimeVars, CurrentInv, Disposing, Installing
<1> QED BY <1>1, <1>2, <1>3, <1>4, <1>5, <1>6, <1>7, <1>8, <1>9, <1>10, <1>11, <1>12, <1>13, <1>14
        DEF Runtime!Next

----------------------------------------------------------------------------

\* How often the extensions of the sessions that are not torn were told of their start and
\* of their end: once each, except those in two sets.
Told(unstarted, unstopped) ==
  \A s \in 1 .. n_created : s \notin n_torn =>
    /\ n_starts[s] = IF s \in unstarted THEN 0 ELSE 1
    /\ n_stops[s] = IF s \in unstopped THEN 0 ELSE 1
Connects(s) == n_connected \subseteq {s} \union n_torn
Shows(s) == s \notin n_torn => n_view[s] = n_branch[n_manager[s]]

\* The current session is the only one.
Rest == Connects(n_current) /\ Told({}, {n_current}) /\ Shows(n_current)

\* What the only command has done so far.
Progress(c) ==
  LET stg == n_job[c].stage  new == n_job[c].next IN
  /\ stg \in {"asking", "binding"} => Rest
  /\ stg = "stopping" => Connects(n_current) /\ Told({}, {})
  /\ stg = "creating" =>
       n_connected \subseteq n_torn /\ Told({}, {}) /\ n_job[c].last = n_current
  /\ stg = "applying" =>
       /\ Connects(new) /\ Told({new}, {new}) /\ Shows(new)
       /\ n_job[c].last = n_current
  /\ stg \in {"setup", "returning"} =>
       /\ Connects(n_current) /\ Told({n_current}, {n_current}) /\ Shows(n_current)
       /\ new = n_current

\* The session that is current when the process is told to end.
Ending == \/ n_process = "closing" /\ Connects(n_current)
          \/ n_process = "gone" /\ n_connected \subseteq n_torn

AloneCommandInv ==
  ~n_overlapped =>
    /\ \A s \in Runtime!Sessions : s > n_created => n_starts[s] = 0 /\ n_stops[s] = 0
    /\ \/ n_process = "up" /\ Runtime!Busy = {} /\ Rest
       \/ n_process = "up" /\ \E c \in Replacements : Runtime!Busy = {c} /\ Progress(c)
       \/ Runtime!Busy = {} /\ Ending /\ n_stops[n_current] >= 1

\* A command at work is the only one, and stays so.
LEMMA OnlyCommand ==
  ASSUME AloneCommandInv, ~n_overlapped, NEW c \in Replacements, n_job[c].stage \in Runtime!UnderWay
  PROVE  n_process = "up" /\ Runtime!Busy = {c} /\ Progress(c)
BY DEF AloneCommandInv, Runtime!Busy

LEMMA CommandGoes ==
  ASSUME NEW c \in Replacements, Runtime!Busy \subseteq {c},
         \A d \in Replacements : d # c => n_job'[d] = n_job[d]
  PROVE  Runtime!Busy' = IF n_job'[c].stage \in Runtime!UnderWay THEN {c} ELSE {}
BY DEF Runtime!Busy

LEMMA AloneCommandStep ==
  ASSUME RuntimeAssumption
  PROVE  RuntimeTypes /\ CurrentInv /\ AloneCommandInv /\ [Runtime!Next]_runtimeVars
        => AloneCommandInv'
<1> SUFFICES ASSUME RuntimeTypes, CurrentInv, AloneCommandInv, [Runtime!Next]_runtimeVars
             PROVE  AloneCommandInv'
  OBVIOUS
<1> USE DEF Runtime!runtimeVars, Runtime!managerVars,
            Runtime!extensionVars, Runtime!frontVars, Runtime!historyVars
<1>0. /\ n_created \in Nat /\ n_current \in 1 .. n_created /\ n_connected \subseteq 1 .. n_created
      /\ n_torn \subseteq 1 .. n_created /\ n_created <= ReplacedSessions
      /\ \A k \in 1 .. n_created : k \in Runtime!Sessions
  BY DEF RuntimeTypes, NamesTyped, RuntimeAssumption, Runtime!Sessions
<1>u. /\ {"none", "done", "asking", "stopping", "creating", "applying", "setup", "returning",
          "binding"} = Stages
      /\ Runtime!UnderWay = {"asking", "stopping", "creating", "applying", "setup", "returning", "binding"}
  BY DEF Stages, Runtime!UnderWay
<1>t. \A c \in Replacements :
      n_job[c] \in JobRecords /\ n_job[c].last <= n_created /\ n_job[c].next <= n_created
  BY DEF RuntimeTypes, JobsTyped
<1>n. \A c \in Replacements : n_job[c].stage \in Made
            => n_job[c].next \in 1 .. n_created /\ n_job[c].next # 0
  <2> SUFFICES ASSUME NEW c \in Replacements, n_job[c].stage \in Made
               PROVE  n_job[c].next \in 1 .. n_created /\ n_job[c].next # 0
    OBVIOUS
  <2>1. n_job[c].next # 0
    BY DEF RuntimeTypes, JobsTyped
  <2> QED BY <1>0, <1>t, <2>1 DEF JobRecords
<1>f. /\ n_starts \in [Runtime!Sessions -> Nat] /\ n_stops \in [Runtime!Sessions -> Nat]
      /\ n_branch \in [Runtime!Sessions -> Nat] /\ n_view \in [Runtime!Sessions -> Nat]
      /\ n_manager \in [Runtime!Sessions -> Runtime!Sessions]
  BY DEF RuntimeTypes, CountsTyped
<1> SUFFICES ASSUME ~n_overlapped' PROVE AloneCommandInv'
  BY DEF AloneCommandInv
<1>c. ASSUME NEW c \in Replacements, n_process' = "up", Runtime!Busy \subseteq {c},
             \A d \in Replacements : d # c => n_job'[d] = n_job[d],
             \A s \in Runtime!Sessions : s > n_created' => n_starts'[s] = 0 /\ n_stops'[s] = 0,
             IF n_job'[c].stage \in Runtime!UnderWay THEN Progress(c)' ELSE Rest'
      PROVE  AloneCommandInv'
  BY <1>c, CommandGoes DEF AloneCommandInv
<1>1. ASSUME NEW c \in Replacements, NEW kind \in Runtime!Kinds, Runtime!Ask(c, kind)
      PROVE  AloneCommandInv'
  <2>1. /\ n_job' = [n_job EXCEPT ![c] = Runtime!Job("asking", kind, Runtime!Nobody)]
        /\ UNCHANGED <<currentVars, n_manager, n_branch, n_view, n_starts, n_stops>>
    BY <1>1 DEF Runtime!Ask, currentVars
  <2>2. n_job'[c].stage = "asking" /\ \A d \in Replacements : d # c => n_job'[d] = n_job[d]
    BY <2>1 DEF Runtime!Job, RuntimeTypes, JobsTyped
  <2>3. ~n_overlapped /\ Runtime!Busy = {} /\ n_process = "up"
    BY <1>1 DEF Runtime!Ask, RuntimeTypes, NamesTyped
  <2>4. Rest /\ \A s \in Runtime!Sessions : s > n_created => n_starts[s] = 0 /\ n_stops[s] = 0
    BY <2>3 DEF AloneCommandInv, Ending
  <2>5. Rest'
    BY <2>1, <2>4 DEF Rest, Connects, Told, Shows, currentVars
  <2>6. Progress(c)'
    BY <2>2, <2>5 DEF Progress
  <2> QED BY <1>c, <1>u, <2>1, <2>2, <2>3, <2>4, <2>6 DEF currentVars
<1>b. ASSUME NEW c \in Replacements, n_job[c].stage \in Runtime!UnderWay, ~n_overlapped
      PROVE  /\ n_process = "up" /\ Runtime!Busy \subseteq {c} /\ Progress(c)
             /\ \A s \in Runtime!Sessions : s > n_created => n_starts[s] = 0 /\ n_stops[s] = 0
  BY <1>b, OnlyCommand DEF AloneCommandInv
<1>2. ASSUME NEW c \in Replacements, Runtime!Refuse(c) PROVE AloneCommandInv'
  <2>1. n_job'[c].stage = "done" /\ \A d \in Replacements : d # c => n_job'[d] = n_job[d]
    BY <1>2, <1>u, StageGoes DEF Runtime!Refuse, Made
  <2>2. /\ n_job[c].stage = "asking" /\ ~n_overlapped
        /\ UNCHANGED <<currentVars, n_manager, n_branch, n_view, n_starts, n_stops>>
    BY <1>2 DEF Runtime!Refuse, currentVars
  <2>3. /\ n_process = "up" /\ Runtime!Busy \subseteq {c} /\ Progress(c)
        /\ \A s \in Runtime!Sessions : s > n_created => n_starts[s] = 0 /\ n_stops[s] = 0
    BY <1>b, <1>u, <2>2
  <2>4. Rest'
    BY <2>2, <2>3 DEF Progress, Rest, Connects, Told, Shows, currentVars
  <2> QED BY <1>c, <1>u, <2>1, <2>2, <2>3, <2>4 DEF currentVars
<1>3. ASSUME NEW c \in Replacements, Runtime!Prepare(c) PROVE AloneCommandInv'
  <2>1. \E t : n_job' = [n_job EXCEPT ![c] = Runtime!Job("stopping", n_job[c].kind, t)]
    BY <1>3 DEF Runtime!Prepare
  <2>2. n_job'[c].stage = "stopping" /\ \A d \in Replacements : d # c => n_job'[d] = n_job[d]
    BY <2>1 DEF Runtime!Job, RuntimeTypes, JobsTyped
  <2>3. /\ n_job[c].stage = "asking" /\ ~n_overlapped
        /\ n_stops' = [n_stops EXCEPT ![n_current] = @ + 1]
        /\ UNCHANGED <<currentVars, n_manager, n_view, n_starts>>
    BY <1>3 DEF Runtime!Prepare, currentVars
  <2>4. /\ n_process = "up" /\ Runtime!Busy \subseteq {c} /\ Progress(c)
        /\ \A s \in Runtime!Sessions : s > n_created => n_starts[s] = 0 /\ n_stops[s] = 0
    BY <1>b, <1>u, <2>3
  <2>5. Rest
    BY <2>3, <2>4 DEF Progress
  <2>6. /\ n_stops'[n_current] = n_stops[n_current] + 1
        /\ \A s \in Runtime!Sessions : s # n_current => n_stops'[s] = n_stops[s]
    BY <1>0, <1>f, <2>3
  <2>7. Told({}, {})'
    <3> SUFFICES ASSUME NEW s \in 1 .. n_created, s \notin n_torn PROVE n_starts[s] = 1 /\ n_stops'[s] = 1
      BY <2>3 DEF Told, currentVars
    <3>1. n_starts[s] = 1 /\ n_stops[s] = IF s = n_current THEN 0 ELSE 1
      BY <2>5 DEF Rest, Told
    <3> QED BY <1>0, <2>6, <3>1
  <2>8. Progress(c)'
    BY <2>2, <2>3, <2>5, <2>7 DEF Progress, Rest, Connects, currentVars
  <2>9. \A s \in Runtime!Sessions : s > n_created => n_starts'[s] = 0 /\ n_stops'[s] = 0
    BY <1>0, <2>3, <2>4, <2>6
  <2> QED BY <1>c, <1>u, <2>2, <2>3, <2>4, <2>8, <2>9 DEF currentVars
<1>4. ASSUME NEW c \in Replacements, Runtime!Stopped(c) PROVE AloneCommandInv'
  <2>1. n_job' = [n_job EXCEPT ![c] = [n_job[c] EXCEPT !.stage = "creating", !.last = n_current]]
    BY <1>4 DEF Runtime!Stopped
  <2>2. /\ n_job'[c].stage = "creating" /\ n_job'[c].last = n_current
        /\ \A d \in Replacements : d # c => n_job'[d] = n_job[d]
    BY <1>t, <2>1 DEF JobRecords, RuntimeTypes, JobsTyped
  <2>3. /\ n_job[c].stage = "stopping" /\ n_process' = n_process /\ n_current' = n_current
        /\ n_torn' = n_torn /\ n_created' = n_created /\ n_connected' = n_connected \ {n_current}
        /\ ~n_overlapped /\ UNCHANGED <<n_starts, n_stops>>
    BY <1>4 DEF Runtime!Stopped, Runtime!Dispose
  <2>4. /\ n_process = "up" /\ Runtime!Busy \subseteq {c} /\ Progress(c)
        /\ \A s \in Runtime!Sessions : s > n_created => n_starts[s] = 0 /\ n_stops[s] = 0
    BY <1>b, <1>u, <2>3
  <2>5. Connects(n_current) /\ Told({}, {})
    BY <2>3, <2>4 DEF Progress
  <2>6. n_connected' \subseteq n_torn' /\ Told({}, {})'
    BY <2>3, <2>5 DEF Connects, Told
  <2>7. Progress(c)'
    BY <2>2, <2>3, <2>6 DEF Progress
  <2> QED BY <1>c, <1>u, <2>2, <2>3, <2>4, <2>7
<1>5. ASSUME NEW c \in Replacements, Runtime!Create(c) PROVE AloneCommandInv'
  <2>0. PICK s, m : /\ s = n_created + 1
                    /\ m = IF n_job[c].target = Runtime!Nobody THEN s ELSE n_job[c].target
    OBVIOUS
  <2>1. n_job' = [n_job EXCEPT ![c] = [n_job[c] EXCEPT !.stage = "applying", !.next = s]]
    BY <1>5, <2>0 DEF Runtime!Create
  <2>2. /\ n_job'[c].stage = "applying" /\ n_job'[c].last = n_job[c].last /\ n_job'[c].next = s
        /\ \A d \in Replacements : d # c => n_job'[d] = n_job[d]
    BY <1>t, <2>1 DEF JobRecords, RuntimeTypes, JobsTyped
  <2>3. /\ n_job[c].stage = "creating" /\ n_process' = n_process /\ n_current' = n_current
        /\ n_torn' = n_torn /\ n_created' = s /\ n_connected' = n_connected \union {s}
        /\ ~n_overlapped /\ UNCHANGED <<n_starts, n_stops, n_branch>>
        /\ n_manager' = [n_manager EXCEPT ![s] = m] /\ n_view' = [n_view EXCEPT ![s] = n_branch[m]]
        /\ n_created < ReplacedSessions
    BY <1>5, <2>0 DEF Runtime!Create
  <2>4. /\ n_process = "up" /\ Runtime!Busy \subseteq {c} /\ Progress(c)
        /\ \A i \in Runtime!Sessions : i > n_created => n_starts[i] = 0 /\ n_stops[i] = 0
    BY <1>b, <1>u, <2>3
  <2>5. n_connected \subseteq n_torn /\ Told({}, {}) /\ n_job[c].last = n_current
    BY <2>3, <2>4 DEF Progress
  <2>6. s \in Runtime!Sessions /\ s \notin n_torn /\ s > n_created
    BY <1>0, <2>0, <2>3 DEF RuntimeAssumption, Runtime!Sessions
  <2>7. n_starts[s] = 0 /\ n_stops[s] = 0
    BY <2>4, <2>6
  <2>8. Told({s}, {s})'
    <3> SUFFICES ASSUME NEW i \in 1 .. s, i \notin n_torn
                 PROVE  /\ n_starts[i] = IF i \in {s} THEN 0 ELSE 1
                        /\ n_stops[i] = IF i \in {s} THEN 0 ELSE 1
      BY <2>3 DEF Told
    <3>1. CASE i = s
      BY <2>7, <3>1
    <3>2. CASE i # s
      <4>1. i \in 1 .. n_created
        BY <1>0, <2>0, <3>2
      <4>2. n_starts[i] = 1 /\ n_stops[i] = 1
        BY <2>5, <4>1 DEF Told
      <4> QED BY <3>2, <4>2
    <3> QED BY <3>1, <3>2
  <2>9. Shows(s)' /\ Connects(s)'
    <3>1. n_view'[s] = n_branch[m] /\ n_manager'[s] = m
      BY <1>f, <2>3, <2>6
    <3>2. n_connected' \subseteq {s} \union n_torn'
      BY <2>3, <2>5
    <3> QED BY <2>3, <3>1, <3>2 DEF Shows, Connects
  <2>10. Progress(c)'
    BY <2>2, <2>3, <2>5, <2>8, <2>9 DEF Progress
  <2>11. \A i \in Runtime!Sessions : i > n_created' => n_starts'[i] = 0 /\ n_stops'[i] = 0
    BY <1>0, <2>0, <2>3, <2>4 DEF Runtime!Sessions
  <2> QED BY <1>c, <1>u, <2>2, <2>3, <2>4, <2>10, <2>11
<1>6. ASSUME NEW c \in Replacements, Runtime!Fail(c) PROVE AloneCommandInv'
  <2>1. n_job'[c].stage = "done" /\ \A d \in Replacements : d # c => n_job'[d] = n_job[d]
    BY <1>6, <1>u, StageGoes DEF Runtime!Fail, Made
  <2>2. /\ n_job[c].stage \in {"creating", "applying"} /\ ~n_overlapped
        /\ n_torn' = n_torn \union ({n_job[c].last, n_job[c].next} \ {0})
        /\ UNCHANGED <<n_current, n_created, n_connected, n_process, n_manager, n_branch, n_view,
                       n_starts, n_stops>>
    BY <1>6 DEF Runtime!Fail, Runtime!Nobody
  <2>3. /\ n_process = "up" /\ Runtime!Busy \subseteq {c} /\ Progress(c)
        /\ \A s \in Runtime!Sessions : s > n_created => n_starts[s] = 0 /\ n_stops[s] = 0
    BY <1>b, <1>u, <2>2
  <2>4. n_current \in n_torn' /\ n_torn \subseteq n_torn'
    BY <1>0, <2>2, <2>3 DEF Progress
  <2>5. CASE n_job[c].stage = "creating"
    <3>1. n_connected \subseteq n_torn /\ Told({}, {})
      BY <2>3, <2>5 DEF Progress
    <3>2. Rest'
      BY <2>2, <2>4, <3>1 DEF Rest, Connects, Told, Shows
    <3> QED BY <1>c, <1>u, <2>1, <2>2, <2>3, <3>2
  <2>6. CASE n_job[c].stage = "applying"
    <3>0. PICK new : new = n_job[c].next
      OBVIOUS
    <3>1. Connects(new) /\ Told({new}, {new}) /\ new \in n_torn'
      BY <1>n, <2>2, <2>3, <2>6, <3>0 DEF Progress, Made
    <3>2. Connects(n_current)' /\ Shows(n_current)'
      BY <2>2, <2>4, <3>1 DEF Connects, Shows
    <3>3. Told({}, {n_current})'
      BY <2>2, <2>4, <3>1 DEF Told
    <3>4. Rest'
      BY <3>2, <3>3 DEF Rest
    <3> QED BY <1>c, <1>u, <2>1, <2>2, <2>3, <3>4
  <2> QED BY <2>2, <2>5, <2>6
<1>7. ASSUME NEW c \in Replacements, Runtime!Apply(c) PROVE AloneCommandInv'
  <2>1. n_job[c].stage = "applying" /\ n_current' = n_job[c].next /\ ~n_overlapped
    BY <1>7 DEF Runtime!Apply
  <2>2. /\ n_job'[c].stage \in {"setup", "returning"} /\ n_job'[c].next = n_job[c].next
        /\ \A d \in Replacements : d # c => n_job'[d] = n_job[d]
    BY <1>7, <1>u, <1>n, StageGoes DEF Runtime!Apply, Made
  <2>3. UNCHANGED <<n_created, n_connected, n_process, n_torn, n_manager, n_branch, n_view,
                    n_starts, n_stops>>
    BY <1>7 DEF Runtime!Apply
  <2>4. /\ n_process = "up" /\ Runtime!Busy \subseteq {c} /\ Progress(c)
        /\ \A s \in Runtime!Sessions : s > n_created => n_starts[s] = 0 /\ n_stops[s] = 0
    BY <1>b, <1>u, <2>1
  <2>0. PICK new : new = n_job[c].next
    OBVIOUS
  <2>5. Connects(new) /\ Told({new}, {new}) /\ Shows(new)
    BY <2>0, <2>1, <2>4 DEF Progress
  <2>6. Connects(new)' /\ Told({new}, {new})' /\ Shows(new)' /\ n_current' = new
    BY <2>0, <2>1, <2>3, <2>5 DEF Connects, Told, Shows
  <2>7. Connects(n_current)' /\ Told({n_current}, {n_current})' /\ Shows(n_current)'
    BY <2>6 DEF Connects, Told, Shows
  <2>8. Progress(c)'
    BY <2>1, <2>2, <2>7 DEF Progress
  <2> QED BY <1>c, <1>u, <2>2, <2>3, <2>4, <2>8
<1>8. ASSUME NEW c \in Replacements, Runtime!SetUp(c) PROVE AloneCommandInv'
  <2>1. /\ n_job[c].stage = "setup" /\ ~n_overlapped
        /\ n_view' = [n_view EXCEPT ![n_current] = n_branch[n_manager[n_current]]]
        /\ UNCHANGED <<n_current, n_created, n_connected, n_process, n_torn, n_manager, n_branch,
                       n_starts, n_stops>>
    BY <1>8 DEF Runtime!SetUp
  <2>2. /\ n_job'[c].stage = "returning" /\ n_job'[c].next = n_job[c].next
        /\ \A d \in Replacements : d # c => n_job'[d] = n_job[d]
    BY <1>8, <1>u, <1>n, StageGoes DEF Runtime!SetUp, Made
  <2>4. /\ n_process = "up" /\ Runtime!Busy \subseteq {c} /\ Progress(c)
        /\ \A s \in Runtime!Sessions : s > n_created => n_starts[s] = 0 /\ n_stops[s] = 0
    BY <1>b, <1>u, <2>1
  <2>5. /\ Connects(n_current) /\ Told({n_current}, {n_current}) /\ n_job[c].next = n_current
    BY <2>1, <2>4 DEF Progress
  <2>6. n_view'[n_current] = n_branch[n_manager[n_current]]
    BY <1>0, <1>f, <2>1
  <2>7. Connects(n_current)' /\ Told({n_current}, {n_current})' /\ Shows(n_current)'
    BY <2>1, <2>5, <2>6 DEF Connects, Told, Shows
  <2>8. Progress(c)'
    BY <2>1, <2>2, <2>5, <2>7 DEF Progress
  <2> QED BY <1>c, <1>u, <2>1, <2>2, <2>4, <2>8
<1>9. ASSUME NEW c \in Replacements, Runtime!SetUpFails(c) PROVE AloneCommandInv'
  <2>1. n_job'[c].stage = "done" /\ \A d \in Replacements : d # c => n_job'[d] = n_job[d]
    BY <1>9, <1>u, StageGoes DEF Runtime!SetUpFails, Made
  <2>2. /\ n_job[c].stage = "setup" /\ ~n_overlapped
        /\ n_torn' = n_torn \union {n_job[c].next}
        /\ UNCHANGED <<n_current, n_created, n_connected, n_process, n_manager, n_branch, n_view,
                       n_starts, n_stops>>
    BY <1>9 DEF Runtime!SetUpFails
  <2>3. /\ n_process = "up" /\ Runtime!Busy \subseteq {c} /\ Progress(c)
        /\ \A s \in Runtime!Sessions : s > n_created => n_starts[s] = 0 /\ n_stops[s] = 0
    BY <1>b, <1>u, <2>2
  <2>4. Connects(n_current) /\ Told({n_current}, {n_current}) /\ n_current \in n_torn'
    BY <2>2, <2>3 DEF Progress
  <2>5. Rest'
    BY <2>2, <2>4 DEF Rest, Connects, Told, Shows
  <2> QED BY <1>c, <1>u, <2>1, <2>2, <2>3, <2>5
<1>10. ASSUME NEW c \in Replacements, Runtime!Bind(c) PROVE AloneCommandInv'
  <2>1. /\ n_job[c].stage = "returning" /\ ~n_overlapped
        /\ n_starts' = [n_starts EXCEPT ![n_current] = @ + 1]
        /\ UNCHANGED <<n_current, n_created, n_connected, n_process, n_torn, n_manager, n_branch,
                       n_view, n_stops>>
    BY <1>10 DEF Runtime!Bind, Runtime!BindTo
  <2>2. n_job'[c].stage = "binding" /\ \A d \in Replacements : d # c => n_job'[d] = n_job[d]
    BY <1>10, <1>u, StageGoes DEF Runtime!Bind, Runtime!BindTo, Made
  <2>4. /\ n_process = "up" /\ Runtime!Busy \subseteq {c} /\ Progress(c)
        /\ \A s \in Runtime!Sessions : s > n_created => n_starts[s] = 0 /\ n_stops[s] = 0
    BY <1>b, <1>u, <2>1
  <2>5. Connects(n_current) /\ Told({n_current}, {n_current}) /\ Shows(n_current)
    BY <2>1, <2>4 DEF Progress
  <2>6. /\ n_starts'[n_current] = n_starts[n_current] + 1
        /\ \A s \in Runtime!Sessions : s # n_current => n_starts'[s] = n_starts[s]
    BY <1>0, <1>f, <2>1
  <2>7. Told({}, {n_current})'
    <3> SUFFICES ASSUME NEW s \in 1 .. n_created, s \notin n_torn
                 PROVE  n_starts'[s] = 1 /\ n_stops[s] = IF s = n_current THEN 0 ELSE 1
      BY <2>1 DEF Told
    <3>1. n_starts[s] = (IF s = n_current THEN 0 ELSE 1) /\ n_stops[s] = IF s = n_current THEN 0 ELSE 1
      BY <2>5 DEF Told
    <3> QED BY <1>0, <2>6, <3>1
  <2>8. Rest'
    BY <2>1, <2>5, <2>7 DEF Rest, Connects, Shows
  <2>9. Progress(c)'
    BY <2>2, <2>8 DEF Progress
  <2>10. \A s \in Runtime!Sessions : s > n_created => n_starts'[s] = 0 /\ n_stops'[s] = 0
    BY <1>0, <2>1, <2>4, <2>6
  <2> QED BY <1>c, <1>u, <2>1, <2>2, <2>4, <2>9, <2>10
<1>11. ASSUME NEW c \in Replacements, Runtime!Bound(c) PROVE AloneCommandInv'
  <2>1. n_job'[c].stage = "done" /\ \A d \in Replacements : d # c => n_job'[d] = n_job[d]
    BY <1>11, <1>u, StageGoes DEF Runtime!Bound, Made
  <2>2. /\ n_job[c].stage = "binding" /\ ~n_overlapped
        /\ UNCHANGED <<n_current, n_created, n_connected, n_process, n_torn, n_manager, n_branch,
                       n_view, n_starts, n_stops>>
    BY <1>11 DEF Runtime!Bound
  <2>3. /\ n_process = "up" /\ Runtime!Busy \subseteq {c} /\ Progress(c)
        /\ \A s \in Runtime!Sessions : s > n_created => n_starts[s] = 0 /\ n_stops[s] = 0
    BY <1>b, <1>u, <2>2
  <2>4. Rest'
    BY <2>2, <2>3 DEF Progress, Rest, Connects, Told, Shows
  <2> QED BY <1>c, <1>u, <2>1, <2>2, <2>3, <2>4
<1>12. CASE Runtime!Close
  <2>1. /\ ~n_overlapped /\ Runtime!Busy = {} /\ n_process = "up" /\ n_process' = "closing"
        /\ n_stops' = [n_stops EXCEPT ![n_current] = @ + 1]
        /\ UNCHANGED <<n_current, n_created, n_connected, n_torn, n_starts, n_job>>
    BY <1>12 DEF Runtime!Close
  <2>2. /\ Connects(n_current)
        /\ \A s \in Runtime!Sessions : s > n_created => n_starts[s] = 0 /\ n_stops[s] = 0
    BY <2>1 DEF AloneCommandInv, Ending, Rest
  <2>3. /\ n_stops'[n_current] >= 1
        /\ \A s \in Runtime!Sessions : s # n_current => n_stops'[s] = n_stops[s]
    BY <1>0, <1>f, <2>1
  <2>4. Ending' /\ Runtime!Busy' = {}
    BY <2>1, <2>2 DEF Ending, Connects, Runtime!Busy
  <2> QED BY <1>0, <2>1, <2>2, <2>3, <2>4 DEF AloneCommandInv
<1>13. CASE Runtime!Exit
  <2>1. /\ ~n_overlapped /\ n_process = "closing" /\ n_process' = "gone"
        /\ n_connected' = n_connected \ {n_current}
        /\ UNCHANGED <<n_current, n_created, n_torn, n_starts, n_stops, n_job>>
    BY <1>13 DEF Runtime!Exit, Runtime!Dispose
  <2>2. /\ Connects(n_current) /\ Runtime!Busy = {} /\ n_stops[n_current] >= 1
        /\ \A s \in Runtime!Sessions : s > n_created => n_starts[s] = 0 /\ n_stops[s] = 0
    BY <2>1 DEF AloneCommandInv, Ending
  <2>4. Ending' /\ Runtime!Busy' = {}
    BY <2>1, <2>2 DEF Ending, Connects, Runtime!Busy
  <2> QED BY <2>1, <2>2, <2>4 DEF AloneCommandInv
<1>14. CASE UNCHANGED runtimeVars
  BY <1>14
     DEF runtimeVars, AloneCommandInv, Ending, Rest, Progress, Connects, Told, Shows, Runtime!Busy
<1> QED BY <1>1, <1>2, <1>3, <1>4, <1>5, <1>6, <1>7, <1>8, <1>9, <1>10, <1>11, <1>12, <1>13, <1>14
        DEF Runtime!Next

----------------------------------------------------------------------------
(* Event files *)

Contents == [v : 1 .. e_versions, type : Watcher!EventTypes, start : 1 .. e_starts]

WatchTypes ==
  /\ e_versions \in 0 .. EventVersions /\ e_starts \in Nat \ {0}
  /\ e_disk = None \/ e_disk \in Contents
  /\ e_up \in BOOLEAN /\ e_debounced \in BOOLEAN /\ e_known \in BOOLEAN /\ e_mixed \in BOOLEAN
  /\ e_handlers = [h \in EventHandlers |-> e_handlers[h]]
  /\ e_executions \in [1 .. EventVersions -> Nat]
  /\ ~e_up => e_armed = {} /\ e_handlers = Watcher!NoHandlers

\* The file was executed already and will not be again.
Spent == \/ e_disk.type = "one-shot" /\ e_disk.v \in e_ripe
         \/ e_disk.type = "immediate" /\ (e_disk.start < e_starts \/ ~e_up)

\* Unless handlers were mixed: what a schedule will execute was not executed before, there
\* is one schedule and no handler at work beside it, the maps name it, and but for changes
\* still to be noticed it is what the file says.
WatchInv ==
  ~e_mixed =>
    /\ \A v \in 1 .. EventVersions :
         e_executions[v] <= 1 /\ (v > e_versions => e_executions[v] = 0)
    /\ \A a \in e_armed :
         /\ a.v \in 1 .. e_versions /\ e_known
         /\ a.id = IF a.kind = "timer" THEN e_timers ELSE e_crons
         /\ \A b \in e_armed : a = b
         /\ ~e_debounced => e_disk # None /\ a.v = e_disk.v
         /\ a.kind = "timer" =>
              /\ e_executions[a.v] = 0
              /\ e_disk # None /\ e_disk.v = a.v => e_disk.type = "one-shot"
    /\ \A h \in EventHandlers : Watcher!Busy(h) =>
         e_armed = {} /\ \A g \in EventHandlers : Watcher!Busy(g) => g = h
    /\ e_disk # None /\ e_executions[e_disk.v] >= 1 => Spent

\* A handler makes a schedule of what it has read.
Arms(h, a) ==
  /\ e_armed' = e_armed \union {a} /\ a.v = e_handlers[h].got.v
  /\ a.id = IF a.kind = "timer" THEN e_timers' ELSE e_crons'
  /\ a.kind = "timer" => e_handlers[h].got.type = "one-shot" /\ a.v \notin e_ripe

LEMMA WatchStep ==
  ASSUME EventVersions \in Nat
  PROVE  WatchTypes /\ WatchInv /\ [Watcher!Next]_eventVars => WatchTypes' /\ WatchInv'
<1> SUFFICES ASSUME WatchTypes, WatchInv, [Watcher!Next]_eventVars
             PROVE  WatchTypes' /\ WatchInv'
  OBVIOUS
<1> USE DEF Watcher!outside
<1>0. /\ e_versions \in Nat /\ e_starts \in Nat /\ e_versions <= EventVersions
      /\ \A h : Watcher!Busy(h) <=> e_handlers[h] # None
  BY DEF WatchTypes, Watcher!Busy
<1>d. e_disk # None => /\ e_disk.v \in 1 .. e_versions /\ e_disk.start \in 1 .. e_starts
                       /\ e_disk \in Contents
  BY DEF WatchTypes, Contents
<1>1. CASE Watcher!WriteFile
  <2>1. PICK t \in Watcher!EventTypes : e_disk' = [v |-> e_versions', type |-> t, start |-> e_starts]
    BY <1>1 DEF Watcher!WriteFile, Watcher!EventTypes
  <2>2. WatchTypes'
    <3>1. e_versions' = e_versions + 1 /\ e_versions < EventVersions /\ e_starts' = e_starts
      BY <1>1 DEF Watcher!WriteFile
    <3>2. e_versions' \in 1 .. e_versions' /\ e_starts \in 1 .. e_starts'
      BY <3>1 DEF WatchTypes
    <3>3. e_disk' \in Contents'
      BY <2>1, <3>2 DEF Contents
    <3> QED BY <1>1, <3>1, <3>3 DEF Watcher!WriteFile, WatchTypes
  <2>3. WatchInv'
    BY <1>0, <1>1, <2>1 DEF Watcher!WriteFile, WatchInv, WatchTypes, Watcher!Busy
  <2> QED BY <2>2, <2>3
<1>2. CASE Watcher!RemoveFile
  BY <1>2 DEF Watcher!RemoveFile, WatchInv, WatchTypes, Watcher!Busy
<1>3. CASE Watcher!TouchFile
  BY <1>3 DEF Watcher!TouchFile, WatchInv, WatchTypes, Contents, Spent, Watcher!Busy
<1>4. ASSUME NEW v, Watcher!TimePasses(v) PROVE WatchTypes' /\ WatchInv'
  BY <1>4 DEF Watcher!TimePasses, WatchInv, WatchTypes, Contents, Spent, Watcher!Busy
<1>5. CASE Watcher!Crash
  BY <1>5
     DEF Watcher!Crash, Watcher!Die, Watcher!NoHandlers, WatchInv, WatchTypes, Contents, Spent,
         Watcher!Busy
<1>6. CASE Watcher!Start
  <2>1. /\ ~e_up /\ e_up' = TRUE /\ e_starts' = e_starts + 1 /\ e_armed = {}
        /\ e_handlers = Watcher!NoHandlers
        /\ UNCHANGED <<e_disk, e_versions, e_ripe, e_debounced, e_known, e_timers, e_crons, e_armed,
                       e_executions, e_mixed>>
    BY <1>6 DEF Watcher!Start, WatchTypes
  <2>2. PICK h, r : e_handlers' = IF e_disk # None THEN [e_handlers EXCEPT ![h] = r] ELSE e_handlers
    BY <1>6 DEF Watcher!Start
  <2>3. WatchTypes'
    BY <1>0, <2>1, <2>2 DEF WatchTypes, Contents, Watcher!NoHandlers
  <2>4. \A g, k \in EventHandlers : Watcher!Busy(g)' /\ Watcher!Busy(k)' => g = k
    BY <2>1, <2>2 DEF Watcher!NoHandlers, Watcher!Busy
  <2>5. WatchInv'
    BY <1>0, <1>d, <2>1, <2>4 DEF WatchInv, Spent
  <2> QED BY <2>3, <2>5
\* A handler ends, or mom dies.
<1>e. ASSUME NEW h \in EventHandlers, Watcher!Ends(h)
      PROVE  /\ e_handlers' = [g \in EventHandlers |-> e_handlers'[g]]
             /\ ~e_up' => e_handlers' = Watcher!NoHandlers
             /\ \A g \in EventHandlers : g # h /\ ~Watcher!Busy(g) => ~Watcher!Busy(g)'
             /\ ~Watcher!Busy(h)'
  BY <1>e DEF Watcher!Ends, Watcher!NoHandlers, Watcher!Busy, WatchTypes
\* A handler of an unmixed history is the only one.
<1>h. ASSUME ~e_mixed, NEW h \in EventHandlers, Watcher!Busy(h)
      PROVE  e_armed = {} /\ \A g \in EventHandlers : g # h => ~Watcher!Busy(g)
  BY <1>h DEF WatchInv
<1>p. ASSUME NEW h, NEW place, Watcher!Place(h, place) PROVE e_up /\ Watcher!Busy(h)
  BY <1>p DEF Watcher!Place
<1>7. CASE Watcher!HandleFileChange
  <2>1. /\ e_up /\ e_debounced' = FALSE
        /\ UNCHANGED <<e_disk, e_versions, e_starts, e_ripe, e_up, e_executions>>
        /\ IF e_known THEN Watcher!Changed ELSE UNCHANGED <<e_timers, e_crons, e_armed>>
        /\ e_known' \in {e_known, FALSE}
    BY <1>7 DEF Watcher!HandleFileChange
  <2>2. ~e_mixed => e_armed' = {}
    <3> SUFFICES ASSUME ~e_mixed PROVE e_armed' = {}
      OBVIOUS
    <3>1. CASE e_known
      <4>1. e_armed' = {a \in e_armed : a.id \notin {e_timers, e_crons}}
        BY <2>1, <3>1 DEF Watcher!Changed, Watcher!CancelScheduled
      <4>2. \A a \in e_armed : a.id \in {e_timers, e_crons}
        BY DEF WatchInv
      <4> QED BY <4>1, <4>2
    <3>2. CASE ~e_known
      BY <2>1, <3>2 DEF WatchInv
    <3> QED BY <3>1, <3>2
  <2>3. \/ e_handlers' = e_handlers /\ e_mixed' = e_mixed
        \/ \E h \in EventHandlers : /\ e_handlers' = [e_handlers EXCEPT ![h] = Watcher!Reading(0)]
                                    /\ e_mixed' = (e_mixed \/ \E g \in EventHandlers : Watcher!Busy(g))
    BY <1>7 DEF Watcher!HandleFileChange, Watcher!BeginHandler
  <2>4. WatchTypes'
    <3>1. e_handlers' = [h \in EventHandlers |-> e_handlers'[h]] /\ e_mixed' \in BOOLEAN
      BY <2>3 DEF WatchTypes
    <3>2. e_known' \in BOOLEAN
      BY <2>1 DEF WatchTypes
    <3> QED BY <2>1, <3>1, <3>2 DEF WatchTypes, Contents
  <2>5. ASSUME ~e_mixed' PROVE /\ ~e_mixed
                               /\ \A g, k \in EventHandlers : Watcher!Busy(g)' /\ Watcher!Busy(k)' => g = k
    BY <2>3, <2>5 DEF WatchInv, WatchTypes, Watcher!Busy
  <2>6. WatchInv'
    BY <2>1, <2>2, <2>5 DEF WatchInv, Spent
  <2> QED BY <2>4, <2>6
<1>8. ASSUME NEW h \in EventHandlers, Watcher!ReadFile(h) \/ Watcher!WakeUp(h)
      PROVE  WatchTypes' /\ WatchInv'
  <2>1. /\ UNCHANGED <<e_disk, e_versions, e_starts, e_ripe, e_up, e_debounced, e_known, e_timers, e_crons,
                       e_armed, e_executions, e_mixed>>
        /\ e_up /\ Watcher!Busy(h) /\ \E r : e_handlers' = [e_handlers EXCEPT ![h] = r]
    BY <1>8 DEF Watcher!ReadFile, Watcher!WakeUp, Watcher!Place
  <2>2. WatchTypes'
    BY <2>1 DEF WatchTypes, Contents
  <2>3. \A g \in EventHandlers : g # h => (Watcher!Busy(g)' <=> Watcher!Busy(g))
    BY <2>1 DEF WatchTypes, Watcher!Busy
  <2>4. WatchInv'
    BY <2>1, <2>3 DEF WatchInv, Spent
  <2> QED BY <2>2, <2>4
<1>9. ASSUME NEW h \in EventHandlers, Watcher!Retry(h) PROVE WatchTypes' /\ WatchInv'
  <2>1. /\ UNCHANGED <<e_versions, e_starts, e_ripe, e_up, e_timers, e_crons, e_armed, e_executions, e_mixed>>
        /\ e_up /\ Watcher!Busy(h)
        /\ \/ /\ UNCHANGED <<e_disk, e_debounced, e_known>>
              /\ \E r : e_handlers' = [e_handlers EXCEPT ![h] = r]
           \/ Watcher!DeleteFile /\ e_handlers' = [e_handlers EXCEPT ![h] = None]
    BY <1>9 DEF Watcher!Retry, Watcher!Place, Watcher!Ends, WatchTypes
  <2>2. WatchTypes'
    BY <2>1 DEF WatchTypes, Contents, Watcher!DeleteFile
  <2>3. \A g \in EventHandlers : g # h => (Watcher!Busy(g)' <=> Watcher!Busy(g))
    BY <2>1 DEF WatchTypes, Watcher!Busy
  <2>4. e_disk' = e_disk \/ e_disk' = None
    BY <2>1 DEF Watcher!DeleteFile
  <2>5. ~e_mixed => e_armed' = {}
    BY <1>h, <2>1
  <2>6. WatchInv'
    BY <2>1, <2>3, <2>4, <2>5 DEF WatchInv, Spent
  <2> QED BY <2>2, <2>6
\* What a schedule or a handler executes.
<1>x. ASSUME NEW v, Watcher!Execute(v)
      PROVE  /\ e_executions' = [e_executions EXCEPT ![v] = @ + 1]
             /\ e_disk' = None \/ (e_disk' = e_disk /\ ~e_up')
             /\ e_known' = FALSE /\ e_up' \in {e_up, FALSE} /\ e_debounced' \in BOOLEAN
             /\ e_executions' \in [1 .. EventVersions -> Nat]
  <2>1. e_executions' = [e_executions EXCEPT ![v] = e_executions[v] + 1]
    BY <1>x DEF Watcher!Execute
  <2>2. e_executions' \in [1 .. EventVersions -> Nat]
    <3>1. e_executions' = [k \in 1 .. EventVersions |->
                             IF k = v THEN e_executions[k] + 1 ELSE e_executions[k]]
      BY <2>1 DEF WatchTypes
    <3>2. \A k \in 1 .. EventVersions : e_executions[k] \in Nat
      BY DEF WatchTypes
    <3> QED BY <3>1, <3>2
  <2> QED BY <1>x, <2>2 DEF Watcher!Execute, Watcher!DeleteFile, WatchTypes
<1>10. ASSUME NEW h \in EventHandlers, Watcher!HandleImmediate(h) PROVE WatchTypes' /\ WatchInv'
  <2>1. /\ e_up /\ Watcher!Busy(h) /\ Watcher!Parsed(h) /\ e_handlers[h].got.type = "immediate"
        /\ UNCHANGED <<e_versions, e_starts, e_ripe>> /\ Watcher!Ends(h)
        /\ e_mixed' = (e_mixed \/ e_disk # e_handlers[h].got)
        /\ IF e_up' THEN UNCHANGED <<e_timers, e_crons, e_armed>> ELSE e_armed' = {}
    BY <1>10 DEF Watcher!HandleImmediate, Watcher!Place
  <2>2. \/ e_disk = None /\ e_known' = TRUE /\ UNCHANGED <<e_disk, e_up, e_debounced, e_executions>>
        \/ /\ e_disk # None /\ e_disk.start < e_starts /\ Watcher!DeleteFile
           /\ UNCHANGED <<e_up, e_executions>>
        \/ e_disk # None /\ e_disk.start = e_starts /\ Watcher!Execute(e_handlers[h].got.v)
    BY <1>10 DEF Watcher!HandleImmediate
  <2>3. /\ e_disk' = None \/ (e_disk' = e_disk /\ ~e_up')
        /\ e_known' \in BOOLEAN /\ e_up' \in {e_up, FALSE} /\ e_debounced' \in BOOLEAN
        /\ e_executions' \in [1 .. EventVersions -> Nat]
    <3>1. CASE Watcher!Execute(e_handlers[h].got.v)
      BY <1>x, <3>1
    <3>2. CASE e_disk = None /\ e_known' = TRUE /\ UNCHANGED <<e_disk, e_up, e_debounced, e_executions>>
      BY <3>2 DEF WatchTypes
    <3>3. CASE Watcher!DeleteFile /\ UNCHANGED <<e_up, e_executions>>
      BY <3>3 DEF WatchTypes, Watcher!DeleteFile
    <3> QED BY <2>2, <3>1, <3>2, <3>3
  <2>4. WatchTypes'
    BY <1>e, <2>1, <2>3 DEF WatchTypes, Contents
  <2>5. ASSUME ~e_mixed' PROVE WatchInv'
    <3>1. ~e_mixed /\ e_disk = e_handlers[h].got /\ e_disk # None /\ e_disk.type = "immediate"
      BY <2>1, <2>5 DEF Watcher!Parsed
    <3>2. e_armed' = {} /\ \A g \in EventHandlers : ~Watcher!Busy(g)'
      BY <1>e, <1>h, <2>1, <3>1
    <3>3. CASE e_executions' = e_executions
      BY <1>d, <2>1, <2>2, <2>3, <3>1, <3>2, <3>3 DEF WatchInv, Spent
    <3>4. CASE e_disk.start = e_starts /\ Watcher!Execute(e_disk.v)
      <4>1. e_executions[e_disk.v] = 0
        BY <1>0, <1>d, <2>1, <3>1, <3>4 DEF WatchInv, Spent, WatchTypes
      <4>2. /\ e_executions' = [e_executions EXCEPT ![e_disk.v] = 1]
            /\ e_disk.v \in 1 .. EventVersions /\ e_disk.v <= e_versions
        <5>1. e_executions' = [e_executions EXCEPT ![e_disk.v] = e_executions[e_disk.v] + 1]
          BY <3>4 DEF Watcher!Execute
        <5> QED BY <1>0, <1>d, <3>1, <4>1, <5>1
      <4>3. \A v \in 1 .. EventVersions : e_executions'[v] = IF v = e_disk.v THEN 1 ELSE e_executions[v]
        BY <4>2 DEF WatchTypes
      <4>4. e_disk' # None => e_disk' = e_disk /\ ~e_up'
        BY <2>3
      <4>5. \A v \in 1 .. EventVersions :
              e_executions'[v] <= 1 /\ (v > e_versions => e_executions'[v] = 0)
        BY <1>0, <3>1, <4>2, <4>3 DEF WatchInv
      <4> QED BY <2>1, <3>1, <3>2, <4>4, <4>5 DEF WatchInv, Spent
    <3> QED BY <2>2, <3>1, <3>3, <3>4
  <2> QED BY <2>4, <2>5 DEF WatchInv
\* A handler ends without an execution; it has changed the schedules.
<1>s. ASSUME NEW h \in EventHandlers, e_up, Watcher!Busy(h), UNCHANGED e_up, Watcher!Ends(h),
             UNCHANGED <<e_versions, e_starts, e_ripe, e_executions>>,
             e_disk' = None \/ e_disk' = e_disk, e_known' \in BOOLEAN, e_debounced' \in BOOLEAN,
             e_mixed' = (e_mixed \/ e_disk # e_handlers[h].got),
             \/ e_armed' = e_armed
             \/ /\ UNCHANGED <<e_disk, e_debounced>> /\ e_known' = TRUE /\ Watcher!Parsed(h)
                /\ \E a : Arms(h, a)
      PROVE  WatchTypes' /\ WatchInv'
  <2>1. WatchTypes'
    BY <1>e, <1>s DEF WatchTypes, Contents
  <2>2. ASSUME ~e_mixed' PROVE WatchInv'
    <3>1. ~e_mixed /\ e_disk = e_handlers[h].got
      BY <1>s, <2>2
    <3>2. e_armed = {} /\ \A g \in EventHandlers : ~Watcher!Busy(g)'
      BY <1>e, <1>h, <1>s, <3>1
    <3>3. CASE e_armed' = e_armed
      BY <1>s, <3>1, <3>2, <3>3 DEF WatchInv, Spent
    <3>4. ASSUME NEW a, e_armed' = {a}, a.v = e_disk.v, UNCHANGED <<e_disk, e_debounced>>, e_known',
                 e_disk # None,
                 a.id = (IF a.kind = "timer" THEN e_timers' ELSE e_crons'),
                 a.kind = "timer" => e_disk.type = "one-shot" /\ a.v \notin e_ripe
          PROVE  WatchInv'
      <4>1. a.kind = "timer" => e_executions[a.v] = 0
        BY <1>0, <1>d, <3>1, <3>4 DEF WatchInv, Spent, WatchTypes
      <4>2. a.v \in 1 .. e_versions
        BY <1>d, <3>4
      <4> QED BY <1>s, <3>1, <3>2, <3>4, <4>1, <4>2 DEF WatchInv, Spent
    <3>5. CASE e_armed' # e_armed
      <4>1. PICK a : Arms(h, a)
        BY <1>s, <3>5
      <4>2. UNCHANGED <<e_disk, e_debounced>> /\ e_known' = TRUE /\ e_disk # None
        BY <1>s, <3>1, <3>5 DEF Watcher!Parsed
      <4>3. e_armed' = {a} /\ a.v = e_disk.v
        BY <3>1, <3>2, <4>1 DEF Arms
      <4> QED BY <3>1, <3>4, <4>1, <4>2, <4>3 DEF Arms
    <3> QED BY <3>3, <3>5
  <2> QED BY <2>1, <2>2 DEF WatchInv
<1>11. ASSUME NEW h \in EventHandlers, Watcher!HandleOneShot(h) PROVE WatchTypes' /\ WatchInv'
  <2>1. /\ e_up /\ Watcher!Busy(h) /\ Watcher!Parsed(h) /\ e_handlers[h].got.type = "one-shot"
        /\ UNCHANGED <<e_versions, e_starts, e_ripe, e_up, e_executions, e_crons>> /\ Watcher!Ends(h)
        /\ e_mixed' = (e_mixed \/ e_disk # e_handlers[h].got)
    BY <1>11 DEF Watcher!HandleOneShot, Watcher!Place
  <2>2. CASE Watcher!DeleteFile /\ e_armed' = e_armed
    BY <1>s, <2>1, <2>2 DEF Watcher!DeleteFile, WatchTypes
  <2>3. CASE /\ e_handlers[h].got.v \notin e_ripe /\ Watcher!Arm(e_handlers[h].got.v, "timer")
             /\ e_timers' = e_scheduled' /\ e_known' = TRUE /\ UNCHANGED <<e_disk, e_debounced>>
    <3> DEFINE a == [id |-> e_timers', v |-> e_handlers[h].got.v, kind |-> "timer"]
    <3>1. Arms(h, a)
      BY <2>1, <2>3 DEF Watcher!Arm, Arms
    <3> HIDE DEF a
    <3> QED BY <1>s, <2>1, <2>3, <3>1 DEF WatchTypes
  <2> QED BY <1>11, <2>2, <2>3 DEF Watcher!HandleOneShot
<1>12. ASSUME NEW h \in EventHandlers, Watcher!HandlePeriodic(h) PROVE WatchTypes' /\ WatchInv'
  <2>1. /\ e_up /\ Watcher!Busy(h) /\ Watcher!Parsed(h)
        /\ UNCHANGED <<e_versions, e_starts, e_ripe, e_up, e_executions, e_timers>> /\ Watcher!Ends(h)
        /\ e_mixed' = (e_mixed \/ e_disk # e_handlers[h].got)
    BY <1>12 DEF Watcher!HandlePeriodic, Watcher!Place
  <2>2. CASE Watcher!DeleteFile /\ e_armed' = e_armed
    BY <1>s, <2>1, <2>2 DEF Watcher!DeleteFile, WatchTypes
  <2>3. CASE /\ Watcher!Arm(e_handlers[h].got.v, "cron")
             /\ e_crons' = e_scheduled' /\ e_known' = TRUE /\ UNCHANGED <<e_disk, e_debounced>>
    <3> DEFINE a == [id |-> e_crons', v |-> e_handlers[h].got.v, kind |-> "cron"]
    <3>1. Arms(h, a)
      BY <2>3 DEF Watcher!Arm, Arms
    <3> HIDE DEF a
    <3> QED BY <1>s, <2>1, <2>3, <3>1 DEF WatchTypes
  <2> QED BY <1>12, <2>2, <2>3 DEF Watcher!HandlePeriodic
<1>13. ASSUME NEW a \in e_armed, Watcher!Fire(a) PROVE WatchTypes' /\ WatchInv'
  <2>1. /\ e_up /\ a.kind = "timer" /\ a.v \in e_ripe /\ Watcher!Execute(a.v)
        /\ e_armed' = (IF e_up' THEN e_armed \ {a} ELSE {})
        /\ e_handlers' = (IF e_up' THEN e_handlers ELSE Watcher!NoHandlers)
        /\ UNCHANGED <<e_versions, e_starts, e_ripe, e_mixed>>
    BY <1>13 DEF Watcher!Fire
  <2>2. /\ e_executions' = [e_executions EXCEPT ![a.v] = @ + 1]
        /\ e_disk' = None \/ (e_disk' = e_disk /\ ~e_up')
        /\ e_known' = FALSE /\ e_up' \in {e_up, FALSE} /\ e_debounced' \in BOOLEAN
    BY <1>x, <2>1
  <2>3. WatchTypes'
    <3>1. e_executions' \in [1 .. EventVersions -> Nat]
      BY <1>x, <2>1
    <3>2. e_handlers' = [h \in EventHandlers |-> e_handlers'[h]]
      BY <2>1 DEF WatchTypes, Watcher!NoHandlers
    <3> QED BY <2>1, <2>2, <3>1, <3>2 DEF WatchTypes, Contents
  <2>4. ASSUME ~e_mixed' PROVE WatchInv'
    <3>1. /\ ~e_mixed /\ a.v \in 1 .. e_versions /\ e_executions[a.v] = 0 /\ e_armed' = {}
          /\ e_disk # None /\ e_disk.v = a.v => e_disk.type = "one-shot"
      BY <2>1, <2>4 DEF WatchInv
    <3>2. \A g \in EventHandlers : ~Watcher!Busy(g)'
      BY <1>13, <2>1, <3>1 DEF WatchInv, Watcher!Busy, Watcher!NoHandlers
    <3>3. a.v \in 1 .. EventVersions /\ a.v <= e_versions
      BY <1>0, <3>1
    <3>4. \A v \in 1 .. EventVersions : e_executions'[v] = IF v = a.v THEN 1 ELSE e_executions[v]
      BY <2>2, <3>1, <3>3 DEF WatchTypes
    <3>5. \A v \in 1 .. EventVersions :
            e_executions'[v] <= 1 /\ (v > e_versions => e_executions'[v] = 0)
      BY <1>0, <3>1, <3>3, <3>4 DEF WatchInv
    <3>6. e_disk' # None /\ e_executions'[e_disk'.v] >= 1 => Spent'
      <4> SUFFICES ASSUME e_disk' # None, e_executions'[e_disk'.v] >= 1 PROVE Spent'
        OBVIOUS
      <4>1. e_disk' = e_disk /\ ~e_up' /\ e_disk.v \in 1 .. EventVersions
        BY <1>0, <1>d, <2>2
      <4>2. CASE e_disk.v = a.v
        BY <2>1, <3>1, <4>1, <4>2 DEF Spent
      <4>3. CASE e_disk.v # a.v
        BY <2>1, <3>1, <3>4, <4>1, <4>3 DEF Spent, WatchInv
      <4> QED BY <4>2, <4>3
    <3> QED BY <2>1, <3>1, <3>2, <3>5, <3>6 DEF WatchInv
  <2> QED BY <2>3, <2>4 DEF WatchInv
<1>14. CASE UNCHANGED eventVars
  BY <1>14 DEF eventVars, WatchTypes, WatchInv, Contents, Spent, Watcher!Busy
<1> QED BY <1>1, <1>2, <1>3, <1>4, <1>5, <1>6, <1>7, <1>8, <1>9, <1>10, <1>11, <1>12, <1>13, <1>14
        DEF Watcher!Next, Watcher!Handle

----------------------------------------------------------------------------
(* The webhook receiver *)

\* What a wait comes to is told from the events; there is a port to try.
WebhookAssumption ==
  /\ WebhookEvents \cap {"none", "waiting", "nothing"} = {}
  /\ WebhookPorts \in Nat \ {0} /\ WebhookQueue \in Nat

\* What has left the queue and what is in it, for all that has come and what was dropped.
OrderOf(X, s, all, dropped) ==
  /\ Webhook!ToSet(s) = Webhook!ToSet(all) \ dropped
  /\ \A d, e \in X : Webhook!Before(s, d, e) => Webhook!Before(all, d, e) /\ d # e

\* The places of a sequence are the numbers up to its length.
LEMMA SequencePlaces ==
  ASSUME NEW X, NEW s \in Seq(X)
  PROVE  /\ Len(s) \in Nat /\ DOMAIN s = 1 .. Len(s)
         /\ \A i \in 1 .. Len(s) : s[i] \in X
         /\ \A x : x \in Webhook!ToSet(s) <=> \E i \in 1 .. Len(s) : s[i] = x
         /\ \A d, e : Webhook!Before(s, d, e) <=>
              \E i, j \in 1 .. Len(s) : i < j /\ s[i] = d /\ s[j] = e
<1>1. Len(s) \in Nat /\ DOMAIN s = 1 .. Len(s) /\ \A i \in 1 .. Len(s) : s[i] \in X
  OBVIOUS
<1>2. \A x : x \in Webhook!ToSet(s) <=> \E i \in 1 .. Len(s) : s[i] = x
  BY <1>1 DEF Webhook!ToSet
<1>3. \A d, e : Webhook!Before(s, d, e) <=>
        \E i, j \in 1 .. Len(s) : i < j /\ s[i] = d /\ s[j] = e
  BY <1>1 DEF Webhook!Before
<1> QED BY <1>1, <1>2, <1>3

\* An event that comes is the last.
LEMMA OrderAppended ==
  ASSUME NEW X, NEW s \in Seq(X), NEW all \in Seq(X), NEW dropped, OrderOf(X, s, all, dropped),
         NEW x \in X, x \notin Webhook!ToSet(all), x \notin dropped
  PROVE  OrderOf(X, Append(s, x), Append(all, x), dropped)
<1> DEFINE t == Append(s, x)
           more == Append(all, x)
<1>1. /\ t \in Seq(X) /\ Len(t) = Len(s) + 1 /\ t[Len(s) + 1] = x
      /\ \A i \in 1 .. Len(s) : t[i] = s[i]
  OBVIOUS
<1>2. /\ more \in Seq(X) /\ Len(more) = Len(all) + 1 /\ more[Len(all) + 1] = x
      /\ \A i \in 1 .. Len(all) : more[i] = all[i]
  OBVIOUS
<1> HIDE DEF t, more
<1>3. ASSUME NEW q \in Seq(X), NEW r \in Seq(X), Len(r) = Len(q) + 1, r[Len(q) + 1] = x,
             \A i \in 1 .. Len(q) : r[i] = q[i]
      PROVE  Webhook!ToSet(r) = Webhook!ToSet(q) \union {x}
  <2>1. Len(q) \in Nat /\ \A i \in 1 .. Len(r) : i \in 1 .. Len(q) \/ i = Len(q) + 1
    BY <1>3, SequencePlaces
  <2>2. \A y : y \in Webhook!ToSet(r) => y \in Webhook!ToSet(q) \union {x}
    BY <1>3, <2>1, SequencePlaces
  <2>3. \A i \in 1 .. Len(q) : i \in 1 .. Len(r)
    BY <1>3, <2>1
  <2>4. \A y : y \in Webhook!ToSet(q) \union {x} => y \in Webhook!ToSet(r)
    <3>1. Len(q) + 1 \in 1 .. Len(r)
      BY <1>3, <2>1
    <3>2. x \in Webhook!ToSet(r)
      BY <1>3, <3>1, SequencePlaces
    <3>3. ASSUME NEW y \in Webhook!ToSet(q) PROVE y \in Webhook!ToSet(r)
      BY <1>3, <2>3, <3>3, SequencePlaces
    <3> QED BY <3>2, <3>3
  <2> QED BY <2>2, <2>4
<1>4. Webhook!ToSet(t) = Webhook!ToSet(s) \union {x} /\ Webhook!ToSet(more) = Webhook!ToSet(all) \union {x}
  BY <1>1, <1>2, <1>3
<1>5. Webhook!ToSet(t) = Webhook!ToSet(more) \ dropped
  BY <1>4 DEF OrderOf
<1>6. ASSUME NEW d \in X, NEW e \in X, Webhook!Before(t, d, e)
      PROVE  Webhook!Before(more, d, e) /\ d # e
  <2>1. PICK i \in 1 .. Len(t), j \in 1 .. Len(t) : i < j /\ t[i] = d /\ t[j] = e
    BY <1>1, <1>6, SequencePlaces
  <2>2. Len(s) \in Nat /\ Len(all) \in Nat /\ i \in 1 .. Len(s) /\ s[i] = d
    <3>1. Len(s) \in Nat /\ Len(all) \in Nat
      BY SequencePlaces
    <3>2. i \in 1 .. Len(s)
      BY <1>1, <2>1, <3>1
    <3> QED BY <1>1, <2>1, <3>1, <3>2
  <2>3. CASE j \in 1 .. Len(s)
    <3>1. Webhook!Before(s, d, e)
      <4>1. s[j] = e
        BY <1>1, <2>1, <2>3
      <4> QED BY <2>1, <2>2, <2>3, <4>1, SequencePlaces
    <3>2. d # e
      BY <3>1 DEF OrderOf
    <3>3. PICK k \in 1 .. Len(all), l \in 1 .. Len(all) : k < l /\ all[k] = d /\ all[l] = e
      <4>1. Webhook!Before(all, d, e)
        BY <3>1 DEF OrderOf
      <4> QED BY <4>1, SequencePlaces
    <3>4. k \in 1 .. Len(more) /\ l \in 1 .. Len(more) /\ more[k] = d /\ more[l] = e
      BY <1>2, <2>2, <3>3
    <3> QED BY <1>2, <3>2, <3>3, <3>4, SequencePlaces
  <2>4. CASE j = Len(s) + 1
    <3>1. e = x
      BY <1>1, <2>1, <2>4
    <3>2. d \in Webhook!ToSet(all)
      <4>1. d \in Webhook!ToSet(s)
        BY <2>2, SequencePlaces
      <4> QED BY <4>1 DEF OrderOf
    <3>3. PICK k \in 1 .. Len(all) : all[k] = d
      BY <3>2, SequencePlaces
    <3>4. /\ k \in 1 .. Len(more) /\ more[k] = d /\ k < Len(all) + 1
          /\ Len(all) + 1 \in 1 .. Len(more) /\ more[Len(all) + 1] = e
      BY <1>2, <2>2, <3>1, <3>3
    <3> QED BY <1>2, <3>1, <3>2, <3>4, SequencePlaces
  <2>5. j \in 1 .. Len(s) \/ j = Len(s) + 1
    BY <1>1, <2>1, <2>2
  <2> QED BY <2>3, <2>4, <2>5
<1>7. OrderOf(X, t, more, dropped)
  BY <1>5, <1>6 DEF OrderOf
<1> QED BY <1>7 DEF t, more

\* The first in the queue is dropped.
LEMMA OrderWithoutHead ==
  ASSUME NEW X, NEW h \in Seq(X), NEW q \in Seq(X), NEW all, NEW dropped, q # <<>>,
         OrderOf(X, h \o q, all, dropped)
  PROVE  OrderOf(X, h \o Tail(q), all, dropped \union {Head(q)})
<1> DEFINE s == h \o q
           t == h \o Tail(q)
           n == Len(h)
           head == Head(q)
<1>1. /\ s \in Seq(X) /\ t \in Seq(X) /\ n \in Nat /\ head \in X /\ Len(s) \in Nat
      /\ n + 1 \in 1 .. Len(s) /\ s[n + 1] = head
      /\ Len(s) = Len(t) + 1
  OBVIOUS
<1>2. \A i \in 1 .. Len(t) : t[i] = IF i <= n THEN s[i] ELSE s[i + 1]
  OBVIOUS
<1> HIDE DEF s, t, n, head
<1> DEFINE place(i) == IF i <= n THEN i ELSE i + 1
<1>3. ASSUME NEW i \in 1 .. Len(t)
      PROVE  place(i) \in 1 .. Len(s) /\ place(i) # n + 1 /\ t[i] = s[place(i)]
  BY <1>1, <1>2
<1>4. \A i, j \in 1 .. Len(t) : i < j => place(i) < place(j)
  BY <1>1
<1>5. ASSUME NEW k \in 1 .. Len(s), k # n + 1 PROVE \E i \in 1 .. Len(t) : place(i) = k
  <2>1. CASE k <= n
    BY <1>1, <2>1
  <2>2. CASE k > n + 1
    <3>1. k - 1 \in 1 .. Len(t) /\ place(k - 1) = k
      BY <1>1, <2>2
    <3> QED BY <3>1
  <2> QED BY <1>1, <1>5, <2>1, <2>2
<1> HIDE DEF place
<1>6. ASSUME NEW i \in 1 .. Len(s), NEW j \in 1 .. Len(s), i # j PROVE s[i] # s[j]
  <2>1. ASSUME NEW k \in 1 .. Len(s), NEW l \in 1 .. Len(s), k < l PROVE s[k] # s[l]
    <3>1. Webhook!Before(s, s[k], s[l]) /\ s[k] \in X /\ s[l] \in X
      BY <1>1, <2>1, SequencePlaces
    <3> QED BY <3>1 DEF OrderOf, s
  <2>2. i < j \/ j < i
    BY <1>1, <1>6
  <2> QED BY <2>1, <2>2
<1>7. \A x : x \in Webhook!ToSet(t) <=> x \in Webhook!ToSet(s) /\ x # head
  <2>1. ASSUME NEW x \in Webhook!ToSet(t) PROVE x \in Webhook!ToSet(s) /\ x # head
    <3>1. PICK i \in 1 .. Len(t) : t[i] = x
      BY <1>1, <2>1, SequencePlaces
    <3>2. place(i) \in 1 .. Len(s) /\ place(i) # n + 1 /\ x = s[place(i)]
      BY <1>3, <3>1
    <3>3. x # head
      BY <1>1, <1>6, <3>2
    <3> QED BY <1>1, <3>2, <3>3, SequencePlaces
  <2>2. ASSUME NEW x \in Webhook!ToSet(s), x # head PROVE x \in Webhook!ToSet(t)
    <3>1. PICK k \in 1 .. Len(s) : s[k] = x
      BY <1>1, <2>2, SequencePlaces
    <3>2. k # n + 1
      BY <1>1, <2>2, <3>1
    <3>3. PICK i \in 1 .. Len(t) : place(i) = k
      BY <1>5, <3>2
    <3>4. t[i] = x
      BY <1>3, <3>1, <3>3
    <3> QED BY <1>1, <3>4, SequencePlaces
  <2> QED BY <2>1, <2>2
<1>8. Webhook!ToSet(t) = Webhook!ToSet(all) \ (dropped \union {head})
  <2>1. Webhook!ToSet(s) = Webhook!ToSet(all) \ dropped
    BY DEF OrderOf, s
  <2> QED BY <1>7, <2>1
<1>9. ASSUME NEW d \in X, NEW e \in X, Webhook!Before(t, d, e) PROVE Webhook!Before(s, d, e)
  <2>1. PICK i \in 1 .. Len(t), j \in 1 .. Len(t) : i < j /\ t[i] = d /\ t[j] = e
    BY <1>1, <1>9, SequencePlaces
  <2>2. place(i) \in 1 .. Len(s) /\ place(j) \in 1 .. Len(s) /\ place(i) < place(j)
        /\ s[place(i)] = d /\ s[place(j)] = e
    BY <1>3, <1>4, <2>1
  <2> QED BY <1>1, <2>2, SequencePlaces
<1>10. \A d, e \in X : Webhook!Before(s, d, e) => Webhook!Before(all, d, e) /\ d # e
  BY DEF OrderOf, s
<1>11. OrderOf(X, t, all, dropped \union {head})
  BY <1>8, <1>9, <1>10 DEF OrderOf
<1> QED BY <1>11 DEF t, head

\* All that is in the queue is dropped.
LEMMA OrderWithoutQueue ==
  ASSUME NEW X, NEW h \in Seq(X), NEW q \in Seq(X), NEW all, NEW dropped,
         OrderOf(X, h \o q, all, dropped)
  PROVE  OrderOf(X, h, all, dropped \union Webhook!ToSet(q))
<1> DEFINE s == h \o q
<1>1. /\ s \in Seq(X) /\ Len(h) \in Nat /\ Len(q) \in Nat /\ Len(s) = Len(h) + Len(q)
      /\ \A i \in 1 .. Len(h) : s[i] = h[i]
      /\ \A i \in 1 .. Len(q) : s[Len(h) + i] = q[i]
  OBVIOUS
<1> HIDE DEF s
<1>2. \A d, e \in X : Webhook!Before(s, d, e) => Webhook!Before(all, d, e) /\ d # e
  BY DEF OrderOf, s
<1>3. ASSUME NEW x \in Webhook!ToSet(h) PROVE x \in Webhook!ToSet(s) /\ x \notin Webhook!ToSet(q)
  <2>1. PICK i \in 1 .. Len(h) : h[i] = x
    BY <1>3, SequencePlaces
  <2>2. i \in 1 .. Len(s) /\ s[i] = x /\ x \in X
    BY <1>1, <2>1, SequencePlaces
  <2>3. ASSUME NEW j \in 1 .. Len(q), q[j] = x PROVE FALSE
    <3>1. Len(h) + j \in 1 .. Len(s) /\ i < Len(h) + j /\ s[Len(h) + j] = x
      BY <1>1, <2>1, <2>3
    <3>2. Webhook!Before(s, x, x)
      <4>1. \E k, l \in 1 .. Len(s) : k < l /\ s[k] = x /\ s[l] = x
        BY <2>2, <3>1
      <4> QED BY <1>1, <4>1, SequencePlaces
    <3> QED BY <1>2, <2>2, <3>2
  <2>4. x \in Webhook!ToSet(s)
    BY <1>1, <2>2, SequencePlaces
  <2>5. x \notin Webhook!ToSet(q)
    BY <2>3, SequencePlaces
  <2> QED BY <2>4, <2>5
<1>4. ASSUME NEW x \in Webhook!ToSet(s), x \notin Webhook!ToSet(q) PROVE x \in Webhook!ToSet(h)
  <2>1. PICK i \in 1 .. Len(s) : s[i] = x
    BY <1>1, <1>4, SequencePlaces
  <2>2. CASE i \in 1 .. Len(h)
    <3>1. h[i] = x
      BY <1>1, <2>1, <2>2
    <3> QED BY <2>2, <3>1, SequencePlaces
  <2>3. CASE i > Len(h)
    <3>1. i - Len(h) \in 1 .. Len(q) /\ Len(h) + (i - Len(h)) = i
      BY <1>1, <2>3
    <3>2. q[i - Len(h)] = x
      BY <1>1, <2>1, <3>1
    <3> QED BY <1>4, <3>1, <3>2, SequencePlaces
  <2> QED BY <1>1, <2>1, <2>2, <2>3
<1>5. Webhook!ToSet(h) = Webhook!ToSet(all) \ (dropped \union Webhook!ToSet(q))
  <2>1. Webhook!ToSet(s) = Webhook!ToSet(all) \ dropped
    BY DEF OrderOf, s
  <2> QED BY <1>3, <1>4, <2>1
<1>6. ASSUME NEW d \in X, NEW e \in X, Webhook!Before(h, d, e) PROVE Webhook!Before(s, d, e)
  <2>1. PICK i \in 1 .. Len(h), j \in 1 .. Len(h) : i < j /\ h[i] = d /\ h[j] = e
    BY <1>6, SequencePlaces
  <2>2. i \in 1 .. Len(s) /\ j \in 1 .. Len(s) /\ s[i] = d /\ s[j] = e
    BY <1>1, <2>1
  <2> QED BY <1>1, <2>1, <2>2, SequencePlaces
<1> QED BY <1>2, <1>5, <1>6 DEF OrderOf

----------------------------------------------------------------------------

WebStates == {"binding", "open", "closed", "failed"}
WebServers == {r \in [state : WebStates, port : 1 .. WebhookPorts, left : 0 .. WebhookPorts] :
                 r.port + r.left <= WebhookPorts}
WebRequests == {"none", "reading", "answered", "intercepted", "preparing", "prompted",
                "queued", "refused"}

WebTypes ==
  /\ w_queue \in Seq(WebhookEvents) /\ Len(w_queue) <= WebhookQueue
  /\ w_waiters \in Seq(WebhookWaits) /\ w_cancelled \subseteq WebhookWaits
  /\ w_waited \in [WebhookWaits -> WebhookEvents \union {"none", "waiting", "nothing"}]
  /\ w_server \in 0 .. Len(w_servers) /\ w_servers \in Seq(WebServers)
  /\ w_forced \in 0 .. WebhookPorts /\ w_session \in {"none", "up", "down"}
  /\ w_mode \in [WebhookEvents -> {"queue", "trigger"}]
  /\ w_request \in [WebhookEvents -> WebRequests]
  /\ w_followUp \subseteq WebhookEvents /\ w_crowded \subseteq WebhookEvents
  /\ w_dropped \subseteq WebhookEvents
  /\ w_streaming \in BOOLEAN /\ w_rushed \in BOOLEAN
  /\ w_accepted \in Seq(WebhookEvents) /\ w_handed \in Seq(WebhookEvents)

\* The list holds the waits that have not ended, once each, and none while the queue holds
\* events; what came, left and was dropped are in order; what is being read has not come.
QueueInv ==
  /\ \A i, j \in 1 .. Len(w_waiters) : w_waiters[i] = w_waiters[j] => i = j
  /\ \A w \in WebhookWaits :
       w_waited[w] = "waiting" <=> \E i \in 1 .. Len(w_waiters) : w_waiters[i] = w
  /\ w_waiters # <<>> => w_queue = <<>>
  /\ OrderOf(WebhookEvents, w_handed \o w_queue, w_accepted, w_dropped)
  /\ \A e \in WebhookEvents :
       e \in Webhook!ToSet(w_accepted) \/ e \in w_dropped => w_request[e] = "answered"

\* A message that finds the agent running when it is checked was sent as a follow-up, or
\* a run began meanwhile.
MessageInv ==
  \A e \in WebhookEvents :
    /\ w_request[e] = "intercepted" /\ w_streaming => e \in w_followUp \/ e \in w_crowded
    /\ w_request[e] = "preparing" /\ w_streaming => e \in w_crowded
    /\ w_request[e] = "refused" => e \in w_crowded

\* Unless one was started or stopped meanwhile: one server binds at a time, none is known
\* while it does, and the one that is open is known.
ServerInv ==
  ~w_rushed =>
    /\ \A i, j \in 1 .. Len(w_servers) :
         w_servers[i].state = "binding" /\ w_servers[j].state = "binding" => i = j
    /\ \A i \in 1 .. Len(w_servers) :
         /\ w_servers[i].state = "binding" => w_server = 0 /\ w_session # "down"
         /\ w_servers[i].state = "open" => i = w_server

----------------------------------------------------------------------------

\* A server that changes its state stays in its place.
LEMMA StateChanged ==
  ASSUME WebTypes, NEW i \in 1 .. Len(w_servers), NEW state \in WebStates
  PROVE  /\ [w_servers EXCEPT ![i].state = state] \in Seq(WebServers)
         /\ Len([w_servers EXCEPT ![i].state = state]) = Len(w_servers)
<1>1. w_servers[i] \in WebServers
  BY DEF WebTypes
<1>2. [w_servers[i] EXCEPT !.state = state] \in WebServers
  BY <1>1 DEF WebServers
<1>3. w_servers \in [1 .. Len(w_servers) -> WebServers] /\ Len(w_servers) \in Nat
  BY DEF WebTypes
<1>4. [w_servers EXCEPT ![i].state = state] \in [1 .. Len(w_servers) -> WebServers]
  BY <1>2, <1>3
<1> QED BY <1>3, <1>4

LEMMA ClosedType ==
  ASSUME WebTypes
  PROVE  Webhook!Closed \in Seq(WebServers) /\ Len(Webhook!Closed) = Len(w_servers)
<1>1. w_server = 0 \/ w_server \in 1 .. Len(w_servers)
  BY DEF WebTypes
<1>2. CASE w_server = 0
  BY <1>2 DEF Webhook!Closed, WebTypes
<1>3. CASE w_server \in 1 .. Len(w_servers)
  <2>1. "closed" \in WebStates /\ w_server # 0
    BY <1>3 DEF WebStates
  <2>2. Webhook!Closed = [w_servers EXCEPT ![w_server].state = "closed"]
    BY <2>1 DEF Webhook!Closed
  <2> QED BY <1>3, <2>1, <2>2, StateChanged
<1> QED BY <1>1, <1>2, <1>3

LEMMA ServerTypesStep ==
  ASSUME WebhookAssumption, WebTypes, [Webhook!Next]_webhookVars
  PROVE  /\ w_servers' \in Seq(WebServers) /\ w_server' \in 0 .. Len(w_servers)'
         /\ w_forced' \in 0 .. WebhookPorts /\ w_session' \in {"none", "up", "down"}
         /\ w_rushed' \in BOOLEAN
<1> USE DEF WebTypes, WebhookAssumption
<1>1. \A p \in 1 .. WebhookPorts : Webhook!Attempt(p, 0) \in WebServers
  BY DEF Webhook!Attempt, WebServers, WebStates
<1>2. Webhook!Attempt(1, WebhookPorts - 1) \in WebServers
  BY DEF Webhook!Attempt, WebServers, WebStates
<1>3. ASSUME NEW i \in 1 .. Len(w_servers), NEW state \in WebStates
      PROVE  /\ [w_servers EXCEPT ![i].state = state] \in Seq(WebServers)
             /\ Len([w_servers EXCEPT ![i].state = state]) = Len(w_servers)
  BY StateChanged
<1>4. Webhook!Closed \in Seq(WebServers) /\ Len(Webhook!Closed) = Len(w_servers)
  BY ClosedType
<1>5. ASSUME Webhook!StartServer
      PROVE  /\ w_servers' \in Seq(WebServers) /\ w_server' \in 0 .. Len(w_servers)'
             /\ w_forced' \in 0 .. WebhookPorts /\ w_rushed' \in BOOLEAN
  BY <1>1, <1>2, <1>5 DEF Webhook!StartServer, Webhook!Rush
<1>6. CASE Webhook!SessionStart
  BY <1>5, <1>6 DEF Webhook!SessionStart
<1>7. CASE Webhook!Register
  BY <1>5, <1>7 DEF Webhook!Register
<1>8. ASSUME NEW p \in 1 .. WebhookPorts, Webhook!NewPort(p)
      PROVE  /\ w_servers' \in Seq(WebServers) /\ w_server' \in 0 .. Len(w_servers)'
             /\ w_forced' \in 0 .. WebhookPorts /\ w_session' \in {"none", "up", "down"}
             /\ w_rushed' \in BOOLEAN
  BY <1>1, <1>4, <1>8 DEF Webhook!NewPort, Webhook!Rush
<1>9. ASSUME NEW i \in 1 .. WebhookServers, Webhook!Listening(i)
      PROVE  /\ w_servers' \in Seq(WebServers) /\ w_server' \in 0 .. Len(w_servers)'
  <2>1. i \in 1 .. Len(w_servers)
    BY <1>9 DEF Webhook!Listening, Webhook!Binding
  <2>2. "open" \in WebStates
    BY DEF WebStates
  <2>3. /\ [w_servers EXCEPT ![i].state = "open"] \in Seq(WebServers)
        /\ Len([w_servers EXCEPT ![i].state = "open"]) = Len(w_servers)
    BY <1>3, <2>1, <2>2
  <2>4. w_servers' = [w_servers EXCEPT ![i].state = "open"] /\ w_server' = i
    BY <1>9 DEF Webhook!Listening
  <2> QED BY <2>1, <2>3, <2>4
<1>10. ASSUME NEW i \in 1 .. WebhookServers, NEW taken \in BOOLEAN, Webhook!CannotListen(i, taken)
       PROVE  /\ w_servers' \in Seq(WebServers) /\ w_server' \in 0 .. Len(w_servers)'
  <2> DEFINE failed == [w_servers EXCEPT ![i].state = "failed"]
             next == Webhook!Attempt(w_servers[i].port + 1, w_servers[i].left - 1)
  <2>1. i \in 1 .. Len(w_servers)
    BY <1>10 DEF Webhook!CannotListen, Webhook!Binding
  <2>2. failed \in Seq(WebServers) /\ Len(failed) = Len(w_servers)
    BY <1>3, <2>1 DEF WebStates
  <2>3. w_servers[i] \in WebServers
    BY <2>1
  <2>4. w_servers[i].left > 0 => next \in WebServers
    <3> SUFFICES ASSUME w_servers[i].left > 0 PROVE next \in WebServers
      OBVIOUS
    <3>1. /\ w_servers[i].left \in Nat /\ w_servers[i].port \in Nat
          /\ w_servers[i].port + w_servers[i].left <= WebhookPorts
      BY <2>3 DEF WebServers
    <3>2. /\ w_servers[i].port + 1 \in 1 .. WebhookPorts
          /\ w_servers[i].left - 1 \in 0 .. WebhookPorts
          /\ (w_servers[i].port + 1) + (w_servers[i].left - 1) <= WebhookPorts
      <4>1. \A p, l \in Nat : l > 0 /\ p + l <= WebhookPorts =>
              /\ p + 1 \in 1 .. WebhookPorts /\ l - 1 \in 0 .. WebhookPorts
              /\ (p + 1) + (l - 1) <= WebhookPorts
        OBVIOUS
      <4> QED BY <3>1, <4>1
    <3> QED BY <3>2 DEF WebServers, WebStates, Webhook!Attempt
  <2>5. \/ w_servers' = failed /\ w_server' = 0
        \/ w_servers[i].left > 0 /\ w_servers' = Append(failed, next) /\ w_server' = w_server
    BY <1>10 DEF Webhook!CannotListen
  <2> HIDE DEF failed, next
  <2>6. w_server \in 0 .. Len(w_servers)
    OBVIOUS
  <2>7. CASE w_servers' = failed /\ w_server' = 0
    BY <2>2, <2>7
  <2>8. CASE w_servers[i].left > 0 /\ w_servers' = Append(failed, next) /\ w_server' = w_server
    <3>1. Append(failed, next) \in Seq(WebServers) /\ Len(Append(failed, next)) = Len(failed) + 1
      BY <2>2, <2>4, <2>8
    <3> QED BY <2>2, <2>6, <2>8, <3>1
  <2> QED BY <2>5, <2>7, <2>8
<1>11. CASE Webhook!SessionShutdown
  BY <1>4, <1>11 DEF Webhook!SessionShutdown, Webhook!Rush
<1>12. CASE UNCHANGED <<w_servers, w_server, w_forced, w_session, w_rushed>>
  BY <1>12
<1>13. \/ Webhook!SessionStart \/ Webhook!Register \/ Webhook!SessionShutdown
       \/ \E p \in 1 .. WebhookPorts : Webhook!NewPort(p)
       \/ \E i \in 1 .. WebhookServers :
            Webhook!Listening(i) \/ \E taken \in BOOLEAN : Webhook!CannotListen(i, taken)
       \/ UNCHANGED <<w_servers, w_server, w_forced, w_session, w_rushed>>
  BY DEF Webhook!Next, webhookVars, Webhook!serverVars, Webhook!Poll, Webhook!RunBegins,
         Webhook!RunEnds, Webhook!Wait, Webhook!TimeOut, Webhook!Cancel, Webhook!Arrive,
         Webhook!Reject, Webhook!Queued, Webhook!Triggered, Webhook!Checked, Webhook!Prompted
<1> QED
  <2>1. CASE \E i \in 1 .. WebhookServers :
            Webhook!Listening(i) \/ \E taken \in BOOLEAN : Webhook!CannotListen(i, taken)
    <3>1. w_servers' \in Seq(WebServers) /\ w_server' \in 0 .. Len(w_servers)'
      BY <1>9, <1>10, <2>1
    <3>2. UNCHANGED <<w_forced, w_session, w_rushed>>
      BY <2>1 DEF Webhook!Listening, Webhook!CannotListen
    <3> QED BY <3>1, <3>2
  <2> QED BY <1>6, <1>7, <1>8, <1>11, <1>12, <1>13, <2>1

LEMMA WebTypesStep ==
  ASSUME WebhookAssumption, WebTypes, QueueInv, [Webhook!Next]_webhookVars
  PROVE  WebTypes'
<1>1. /\ w_servers' \in Seq(WebServers) /\ w_server' \in 0 .. Len(w_servers)'
      /\ w_forced' \in 0 .. WebhookPorts /\ w_session' \in {"none", "up", "down"}
      /\ w_rushed' \in BOOLEAN
  BY ServerTypesStep
<1> DEFINE Registry ==
             /\ w_queue \in Seq(WebhookEvents) /\ Len(w_queue) <= WebhookQueue
             /\ w_waiters \in Seq(WebhookWaits) /\ w_cancelled \subseteq WebhookWaits
             /\ w_waited \in [WebhookWaits -> WebhookEvents \union {"none", "waiting", "nothing"}]
           Requests ==
             /\ w_mode \in [WebhookEvents -> {"queue", "trigger"}]
             /\ w_request \in [WebhookEvents -> WebRequests]
             /\ w_followUp \subseteq WebhookEvents /\ w_crowded \subseteq WebhookEvents
             /\ w_streaming \in BOOLEAN
           History ==
             /\ w_accepted \in Seq(WebhookEvents) /\ w_handed \in Seq(WebhookEvents)
             /\ w_dropped \subseteq WebhookEvents
<1>2. Registry /\ Requests /\ History /\ WebhookQueue \in Nat
  BY DEF WebTypes, WebhookAssumption
<1>3. ASSUME UNCHANGED <<Webhook!registryVars, Webhook!historyVars>> PROVE Registry' /\ History'
  BY <1>2, <1>3 DEF Webhook!registryVars, Webhook!historyVars
<1>4. ASSUME UNCHANGED Webhook!messageVars PROVE Requests'
  BY <1>2, <1>4 DEF Webhook!messageVars
<1>5. ASSUME Webhook!SessionStart \/ Webhook!Register
             \/ (\E p \in 1 .. WebhookPorts : Webhook!NewPort(p))
             \/ (\E i \in 1 .. WebhookServers :
                   Webhook!Listening(i) \/ \E taken \in BOOLEAN : Webhook!CannotListen(i, taken))
      PROVE  UNCHANGED <<Webhook!registryVars, Webhook!historyVars, Webhook!messageVars>>
  BY <1>5 DEF Webhook!SessionStart, Webhook!Register, Webhook!NewPort, Webhook!Listening,
              Webhook!CannotListen
<1>6. CASE Webhook!SessionShutdown
  <2>1. Requests'
    BY <1>4, <1>6 DEF Webhook!SessionShutdown
  <2>2. Registry'
    BY <1>2, <1>6 DEF Webhook!SessionShutdown
  <2>3. History'
    <3>1. Webhook!ToSet(w_queue) \subseteq WebhookEvents
      BY <1>2 DEF Webhook!ToSet
    <3> QED BY <1>2, <1>6, <3>1 DEF Webhook!SessionShutdown
  <2> QED BY <1>1, <2>1, <2>2, <2>3 DEF WebTypes
<1>7. CASE Webhook!Poll
  <2>1. Requests'
    BY <1>4, <1>7 DEF Webhook!Poll
  <2>2. Registry'
    BY <1>2, <1>7 DEF Webhook!Poll
  <2>3. History'
    BY <1>2, <1>7 DEF Webhook!Poll
  <2> QED BY <1>1, <2>1, <2>2, <2>3 DEF WebTypes
<1>8. CASE Webhook!RunBegins \/ Webhook!RunEnds
  <2>1. Registry' /\ History'
    BY <1>3, <1>8 DEF Webhook!RunBegins, Webhook!RunEnds
  <2>2. Requests'
    BY <1>2, <1>8 DEF Webhook!RunBegins, Webhook!RunEnds, Webhook!InPreparation
  <2> QED BY <1>1, <2>1, <2>2 DEF WebTypes
<1>9. ASSUME NEW w \in WebhookWaits, Webhook!Wait(w) PROVE WebTypes'
  <2>1. Requests'
    BY <1>4, <1>9 DEF Webhook!Wait
  <2>2. Registry' /\ History'
    <3>1. CASE w_queue # <<>>
      <4>1. Head(w_queue) \in WebhookEvents /\ Tail(w_queue) \in Seq(WebhookEvents)
            /\ Len(Tail(w_queue)) = Len(w_queue) - 1
        BY <1>2, <3>1
      <4>2. /\ w_waited' = [w_waited EXCEPT ![w] = Head(w_queue)] /\ w_queue' = Tail(w_queue)
            /\ w_handed' = Append(w_handed, Head(w_queue))
            /\ UNCHANGED <<w_waiters, w_cancelled, w_accepted, w_dropped>>
        BY <1>9, <3>1 DEF Webhook!Wait
      <4>3. Len(Tail(w_queue)) <= WebhookQueue
        BY <1>2, <4>1
      <4>4. Append(w_handed, Head(w_queue)) \in Seq(WebhookEvents)
        BY <1>2, <4>1
      <4>5. w_waited' \in [WebhookWaits -> WebhookEvents \union {"none", "waiting", "nothing"}]
        BY <1>2, <4>1, <4>2
      <4>6. w_queue' \in Seq(WebhookEvents) /\ Len(w_queue') <= WebhookQueue
        BY <4>1, <4>2, <4>3
      <4> QED BY <1>2, <4>2, <4>4, <4>5, <4>6
    <3>2. CASE w_queue = <<>>
      <4>1. /\ w_waited' = [w_waited EXCEPT ![w] = "waiting"]
            /\ w_waiters' = Append(w_waiters, w)
            /\ UNCHANGED <<w_queue, w_handed, w_cancelled, w_accepted, w_dropped>>
        BY <1>9, <3>2 DEF Webhook!Wait
      <4>2. w_waited' \in [WebhookWaits -> WebhookEvents \union {"none", "waiting", "nothing"}]
        BY <1>2, <4>1
      <4>3. w_waiters' \in Seq(WebhookWaits)
        BY <1>2, <4>1
      <4> QED BY <1>2, <4>1, <4>2, <4>3
    <3> QED BY <3>1, <3>2
  <2> QED BY <1>1, <2>1, <2>2 DEF WebTypes
<1>10. ASSUME NEW w \in WebhookWaits, w_waited[w] = "waiting", Webhook!GiveUp(w)
       PROVE  /\ w_waiters' \in Seq(WebhookWaits)
              /\ w_waited' \in [WebhookWaits -> WebhookEvents \union {"none", "waiting", "nothing"}]
  <2> DEFINE i == CHOOSE i \in DOMAIN w_waiters : w_waiters[i] = w
  <2>1. i \in 1 .. Len(w_waiters)
    <3>1. \E j \in 1 .. Len(w_waiters) : w_waiters[j] = w
      BY <1>10 DEF QueueInv
    <3>2. DOMAIN w_waiters = 1 .. Len(w_waiters)
      BY <1>2
    <3> QED BY <3>1, <3>2
  <2>2. w_waiters' = Webhook!RemoveAt(w_waiters, i)
    BY <1>10 DEF Webhook!GiveUp
  <2> HIDE DEF i
  <2>3. w_waiters' = SubSeq(w_waiters, 1, i - 1) \o SubSeq(w_waiters, i + 1, Len(w_waiters))
    BY <2>2 DEF Webhook!RemoveAt
  <2>4. w_waiters' \in Seq(WebhookWaits)
    <3>1. /\ SubSeq(w_waiters, 1, i - 1) \in Seq(WebhookWaits)
          /\ SubSeq(w_waiters, i + 1, Len(w_waiters)) \in Seq(WebhookWaits)
      BY <1>2, <2>1
    <3> QED BY <2>3, <3>1
  <2> QED BY <1>2, <1>10, <2>4 DEF Webhook!GiveUp
<1>11. ASSUME NEW w \in WebhookWaits, Webhook!TimeOut(w) \/ Webhook!Cancel(w) PROVE WebTypes'
  <2>1. Requests'
    BY <1>4, <1>11 DEF Webhook!TimeOut, Webhook!Cancel
  <2>2. Registry' /\ History'
    BY <1>2, <1>10, <1>11 DEF Webhook!TimeOut, Webhook!Cancel, Webhook!historyVars
  <2> QED BY <1>1, <2>1, <2>2 DEF WebTypes
<1>12. ASSUME NEW e \in WebhookEvents,
              Webhook!Arrive(e) \/ Webhook!Reject(e) \/ Webhook!Triggered(e)
              \/ Webhook!Checked(e) \/ Webhook!Prompted(e)
       PROVE  WebTypes'
  <2>1. Registry' /\ History'
    BY <1>3, <1>12 DEF Webhook!Arrive, Webhook!Reject, Webhook!Triggered, Webhook!Checked,
                       Webhook!Prompted
  <2>2. Requests'
    BY <1>2, <1>12 DEF Webhook!Arrive, Webhook!Reject, Webhook!Triggered, Webhook!Checked,
                       Webhook!Prompted, Webhook!SentAsFollowUp, Webhook!InPreparation, WebRequests
  <2> QED BY <1>1, <2>1, <2>2 DEF WebTypes
<1>13. ASSUME NEW e \in WebhookEvents, Webhook!Queued(e) PROVE WebTypes'
  <2>1. Requests'
    BY <1>2, <1>13 DEF Webhook!Queued, WebRequests
  <2>2. w_accepted' \in Seq(WebhookEvents) /\ UNCHANGED w_cancelled
    BY <1>2, <1>13 DEF Webhook!Queued, Webhook!Enqueue
  <2>3. CASE w_waiters # <<>>
    <3>1. Head(w_waiters) \in WebhookWaits /\ Tail(w_waiters) \in Seq(WebhookWaits)
      BY <1>2, <2>3
    <3>2. UNCHANGED <<w_queue, w_dropped>> /\ w_waiters' = Tail(w_waiters)
      BY <1>13, <2>3 DEF Webhook!Queued, Webhook!Enqueue
    <3>3. w_waited' \in [WebhookWaits -> WebhookEvents \union {"none", "waiting", "nothing"}]
      BY <1>2, <1>13, <2>3, <3>1 DEF Webhook!Queued, Webhook!Enqueue
    <3>4. w_handed' \in Seq(WebhookEvents)
      <4>1. w_handed' = w_handed \/ w_handed' = Append(w_handed, e)
        BY <1>13, <2>3 DEF Webhook!Queued, Webhook!Enqueue
      <4>2. w_handed \in Seq(WebhookEvents) /\ Append(w_handed, e) \in Seq(WebhookEvents)
        BY <1>2
      <4> QED BY <4>1, <4>2, Zenon
    <3> QED BY <1>1, <1>2, <2>1, <2>2, <3>1, <3>2, <3>3, <3>4 DEF WebTypes
  <2>4. CASE w_waiters = <<>>
    <3> DEFINE longer == Append(w_queue, e)
    <3>1. /\ longer \in Seq(WebhookEvents) /\ Len(longer) = Len(w_queue) + 1
          /\ Head(longer) \in WebhookEvents /\ Tail(longer) \in Seq(WebhookEvents)
          /\ Len(Tail(longer)) = Len(w_queue) /\ Len(w_queue) \in Nat
      <4>1. longer \in Seq(WebhookEvents) /\ Len(longer) = Len(w_queue) + 1 /\ Len(w_queue) \in Nat
        BY <1>2
      <4> HIDE DEF longer
      <4>2. longer # <<>>
        BY <4>1
      <4> QED BY <4>1, <4>2
    <3>2. \/ w_queue' = Tail(longer) /\ w_dropped' = w_dropped \union {Head(longer)}
          \/ ~(Len(longer) > WebhookQueue) /\ w_queue' = longer /\ w_dropped' = w_dropped
      BY <1>13, <2>4 DEF Webhook!Queued, Webhook!Enqueue
    <3>3. UNCHANGED <<w_waiters, w_waited, w_handed>>
      BY <1>13, <2>4 DEF Webhook!Queued, Webhook!Enqueue
    <3> HIDE DEF longer
    <3>4. /\ w_queue' \in Seq(WebhookEvents) /\ Len(w_queue') <= WebhookQueue
          /\ w_dropped' \subseteq WebhookEvents
      <4>1. CASE w_queue' = Tail(longer) /\ w_dropped' = w_dropped \union {Head(longer)}
        BY <1>2, <3>1, <4>1
      <4>2. CASE ~(Len(longer) > WebhookQueue) /\ w_queue' = longer /\ w_dropped' = w_dropped
        <5>1. Len(longer) <= WebhookQueue
          BY <1>2, <3>1, <4>2
        <5> QED BY <1>2, <3>1, <4>2, <5>1
      <4> QED BY <3>2, <4>1, <4>2
    <3> QED BY <1>1, <1>2, <2>1, <2>2, <3>3, <3>4 DEF WebTypes
  <2> QED BY <2>3, <2>4
<1>14. CASE UNCHANGED webhookVars
  BY <1>1, <1>2, <1>14 DEF webhookVars, WebTypes
<1>15. ASSUME UNCHANGED <<Webhook!registryVars, Webhook!historyVars, Webhook!messageVars>>
       PROVE  WebTypes'
  <2>1. Registry' /\ History' /\ Requests'
    BY <1>3, <1>4, <1>15
  <2> QED BY <1>1, <2>1 DEF WebTypes
<1> QED BY <1>5, <1>6, <1>7, <1>8, <1>9, <1>11, <1>12, <1>13, <1>14, <1>15 DEF Webhook!Next

----------------------------------------------------------------------------

LEMMA MessageStep ==
  ASSUME WebTypes, MessageInv, [Webhook!Next]_webhookVars
  PROVE  MessageInv'
<1>1. CASE UNCHANGED <<w_request, w_streaming, w_followUp, w_crowded>>
  BY <1>1 DEF MessageInv
<1>2. CASE Webhook!RunBegins
  <2>1. \A e \in WebhookEvents : w_request[e] \in {"intercepted", "preparing"} => e \in w_crowded'
    BY <1>2 DEF Webhook!RunBegins, Webhook!InPreparation
  <2>2. w_crowded \subseteq w_crowded' /\ UNCHANGED <<w_request, w_followUp>>
    BY <1>2 DEF Webhook!RunBegins
  <2> QED BY <2>1, <2>2 DEF MessageInv
<1>3. CASE Webhook!RunEnds
  BY <1>3 DEF Webhook!RunEnds, MessageInv
<1>4. ASSUME NEW d \in WebhookEvents,
             Webhook!Arrive(d) \/ Webhook!Reject(d) \/ Webhook!Queued(d)
      PROVE  MessageInv'
  <2>1. /\ \A e \in WebhookEvents : e # d => w_request'[e] = w_request[e]
        /\ w_request'[d] \in {"reading", "answered"}
        /\ UNCHANGED <<w_streaming, w_followUp, w_crowded>>
    BY <1>4 DEF WebTypes, Webhook!Arrive, Webhook!Reject, Webhook!Queued
  <2> QED BY <2>1 DEF MessageInv
<1>5. ASSUME NEW d \in WebhookEvents, Webhook!Triggered(d) PROVE MessageInv'
  <2>1. /\ \A e \in WebhookEvents : e # d => w_request'[e] = w_request[e]
        /\ w_request'[d] = "intercepted" /\ UNCHANGED <<w_streaming, w_crowded>>
    BY <1>5 DEF WebTypes, Webhook!Triggered
  <2>2. w_followUp \subseteq w_followUp' /\ (w_streaming => d \in w_followUp')
    BY <1>5 DEF Webhook!Triggered, Webhook!SentAsFollowUp
  <2> QED BY <2>1, <2>2 DEF MessageInv
<1>6. ASSUME NEW d \in WebhookEvents, Webhook!Checked(d) PROVE MessageInv'
  <2>1. /\ \A e \in WebhookEvents : e # d => w_request'[e] = w_request[e]
        /\ w_request[d] = "intercepted" /\ UNCHANGED <<w_streaming, w_crowded, w_followUp>>
    BY <1>6 DEF WebTypes, Webhook!Checked
  <2>2. \/ ~w_streaming /\ w_request'[d] = "preparing"
        \/ w_request'[d] = "queued"
        \/ w_streaming /\ d \notin w_followUp /\ w_request'[d] = "refused"
    BY <1>6 DEF WebTypes, Webhook!Checked
  <2> QED BY <2>1, <2>2 DEF MessageInv
<1>7. ASSUME NEW d \in WebhookEvents, Webhook!Prompted(d) PROVE MessageInv'
  <2>1. /\ \A e \in WebhookEvents : e # d => w_request'[e] = w_request[e]
        /\ w_request[d] = "preparing" /\ UNCHANGED w_followUp
        /\ w_request'[d] = IF w_streaming THEN "refused" ELSE "prompted"
    BY <1>7 DEF WebTypes, Webhook!Prompted
  <2>2. w_crowded \subseteq w_crowded'
    BY <1>7 DEF Webhook!Prompted
  <2>3. CASE w_streaming
    <3>1. w_streaming' /\ w_crowded' = w_crowded
      BY <1>7, <2>3 DEF Webhook!Prompted
    <3> QED BY <2>1, <2>3, <3>1 DEF MessageInv
  <2>4. CASE ~w_streaming
    <3>1. \A e \in WebhookEvents :
            e # d /\ w_request[e] \in {"intercepted", "preparing"} => e \in w_crowded'
      BY <1>7, <2>4 DEF Webhook!Prompted, Webhook!InPreparation
    <3> QED BY <2>1, <2>2, <2>4, <3>1 DEF MessageInv
  <2> QED BY <2>3, <2>4
<1>8. \/ Webhook!RunBegins \/ Webhook!RunEnds
      \/ \E d \in WebhookEvents :
           Webhook!Arrive(d) \/ Webhook!Reject(d) \/ Webhook!Queued(d) \/ Webhook!Triggered(d)
           \/ Webhook!Checked(d) \/ Webhook!Prompted(d)
      \/ UNCHANGED <<w_request, w_streaming, w_followUp, w_crowded>>
  BY DEF Webhook!Next, webhookVars, Webhook!messageVars, Webhook!Poll, Webhook!SessionStart,
         Webhook!Register, Webhook!SessionShutdown, Webhook!NewPort, Webhook!Listening,
         Webhook!CannotListen, Webhook!Wait, Webhook!TimeOut, Webhook!Cancel
<1> QED BY <1>1, <1>2, <1>3, <1>4, <1>5, <1>6, <1>7, <1>8

----------------------------------------------------------------------------

LEMMA ServerStep ==
  ASSUME WebTypes, ServerInv, [Webhook!Next]_webhookVars
  PROVE  ServerInv'
<1>1. /\ Len(w_servers) \in Nat /\ DOMAIN w_servers = 1 .. Len(w_servers)
      /\ w_server \in 0 .. Len(w_servers)
      /\ \A i \in 1 .. Len(w_servers) : w_servers[i] \in WebServers
  BY DEF WebTypes
<1>2. Webhook!Binding = {i \in 1 .. Len(w_servers) : w_servers[i].state = "binding"}
  BY <1>1 DEF Webhook!Binding
<1>3. ASSUME Webhook!Rush, ~w_rushed' PROVE ~w_rushed /\ Webhook!Binding = {}
  BY <1>3 DEF WebTypes, Webhook!Rush
<1>4. ASSUME NEW i \in 1 .. Len(w_servers), NEW state
      PROVE  /\ Len([w_servers EXCEPT ![i].state = state]) = Len(w_servers)
             /\ \A j \in 1 .. Len(w_servers) :
                  [w_servers EXCEPT ![i].state = state][j].state =
                    IF j = i THEN state ELSE w_servers[j].state
  <2>1. w_servers \in [1 .. Len(w_servers) -> WebServers]
    BY DEF WebTypes
  <2>2. /\ [w_servers EXCEPT ![i].state = state] =
             [j \in 1 .. Len(w_servers) |->
                IF j = i THEN [w_servers[i] EXCEPT !.state = state] ELSE w_servers[j]]
    BY <2>1
  <2>3. [w_servers[i] EXCEPT !.state = state].state = state
    BY <2>1 DEF WebServers
  <2> QED BY <1>1, <2>2, <2>3
\* Closing the server that is known leaves none open.
<1>5. ASSUME ~w_rushed, Webhook!Binding = {}
      PROVE  /\ Len(Webhook!Closed) = Len(w_servers)
             /\ \A j \in 1 .. Len(w_servers) : Webhook!Closed[j].state \notin {"binding", "open"}
  <2>1. CASE w_server = 0
    <3>1. Webhook!Closed = w_servers
      BY <2>1 DEF Webhook!Closed
    <3> QED BY <1>1, <1>2, <1>5, <2>1, <3>1 DEF ServerInv
  <2>2. CASE w_server # 0
    <3>1. Webhook!Closed = [w_servers EXCEPT ![w_server].state = "closed"]
      BY <2>2 DEF Webhook!Closed
    <3>2. w_server \in 1 .. Len(w_servers)
      BY <1>1, <2>2
    <3>3. /\ Len(Webhook!Closed) = Len(w_servers)
          /\ \A j \in 1 .. Len(w_servers) :
               Webhook!Closed[j].state = IF j = w_server THEN "closed" ELSE w_servers[j].state
      BY <1>4, <3>1, <3>2
    <3>4. \A j \in 1 .. Len(w_servers) :
            w_servers[j].state # "binding" /\ (w_servers[j].state = "open" => j = w_server)
      BY <1>2, <1>5 DEF ServerInv
    <3> QED BY <3>3, <3>4
  <2> QED BY <2>1, <2>2
\* A new server, beside others that are neither binding nor open.
<1>6. ASSUME NEW S, NEW old \in Seq(S), Len(old) = Len(w_servers), NEW new,
             new.state = "binding", w_servers' = Append(old, new), w_server' = 0,
             w_session' # "down",
             \A j \in 1 .. Len(w_servers) : old[j].state \notin {"binding", "open"}
      PROVE  ServerInv'
  <2>1. /\ Len(w_servers') = Len(w_servers) + 1 /\ w_servers'[Len(w_servers) + 1] = new
        /\ \A j \in 1 .. Len(w_servers) : w_servers'[j] = old[j]
    BY <1>1, <1>6
  <2>2. \A j \in 1 .. Len(w_servers') : j \in 1 .. Len(w_servers) \/ j = Len(w_servers) + 1
    BY <1>1, <2>1
  <2>3. \A j \in 1 .. Len(w_servers') :
          /\ w_servers'[j].state # "open"
          /\ w_servers'[j].state = "binding" => j = Len(w_servers) + 1
    BY <1>6, <2>1, <2>2
  <2> QED BY <1>6, <2>3 DEF ServerInv
<1>7. ASSUME Webhook!StartServer, w_session' # "down" PROVE ServerInv'
  <2> SUFFICES ASSUME ~w_rushed' PROVE ServerInv'
    BY DEF ServerInv
  <2>1. ~w_rushed /\ Webhook!Binding = {} /\ w_server = 0 /\ w_server' = 0
    BY <1>3, <1>7 DEF Webhook!StartServer
  <2>2. \A j \in 1 .. Len(w_servers) : w_servers[j].state \notin {"binding", "open"}
    BY <1>1, <1>2, <2>1 DEF ServerInv
  <2>3. PICK new : w_servers' = Append(w_servers, new) /\ new.state = "binding"
    BY <1>7 DEF Webhook!StartServer, Webhook!Attempt
  <2> QED BY <1>6, <1>7, <2>1, <2>2, <2>3 DEF WebTypes
<1>8. CASE Webhook!SessionStart
  BY <1>7, <1>8 DEF Webhook!SessionStart
<1>9. CASE Webhook!Register
  BY <1>7, <1>9 DEF Webhook!Register
<1>10. ASSUME NEW p \in 1 .. WebhookPorts, Webhook!NewPort(p) PROVE ServerInv'
  <2> SUFFICES ASSUME ~w_rushed' PROVE ServerInv'
    BY DEF ServerInv
  <2>1. /\ ~w_rushed /\ Webhook!Binding = {} /\ w_server' = 0 /\ w_session' # "down"
        /\ w_servers' = Append(Webhook!Closed, Webhook!Attempt(p, 0))
    BY <1>3, <1>10 DEF Webhook!NewPort
  <2>2. Webhook!Attempt(p, 0).state = "binding"
    BY DEF Webhook!Attempt
  <2>3. Webhook!Closed \in Seq(WebServers)
    BY ClosedType
  <2> QED BY <1>5, <1>6, <2>1, <2>2, <2>3
<1>11. CASE Webhook!SessionShutdown
  <2> SUFFICES ASSUME ~w_rushed' PROVE ServerInv'
    BY DEF ServerInv
  <2>1. ~w_rushed /\ Webhook!Binding = {} /\ w_servers' = Webhook!Closed
    BY <1>3, <1>11 DEF Webhook!SessionShutdown
  <2> QED BY <1>5, <2>1 DEF ServerInv
<1>12. ASSUME NEW i \in 1 .. WebhookServers, Webhook!Listening(i) PROVE ServerInv'
  <2> SUFFICES ASSUME ~w_rushed' PROVE ServerInv'
    BY DEF ServerInv
  <2>1. /\ ~w_rushed /\ i \in 1 .. Len(w_servers) /\ w_servers[i].state = "binding"
        /\ w_servers' = [w_servers EXCEPT ![i].state = "open"] /\ w_server' = i
    BY <1>2, <1>12 DEF Webhook!Listening
  <2>2. /\ Len(w_servers') = Len(w_servers)
        /\ \A j \in 1 .. Len(w_servers) :
             w_servers'[j].state = IF j = i THEN "open" ELSE w_servers[j].state
    BY <1>4, <2>1
  <2>3. \A j \in 1 .. Len(w_servers) : j # i => w_servers[j].state \notin {"binding", "open"}
    BY <1>1, <2>1 DEF ServerInv
  <2> QED BY <2>1, <2>2, <2>3 DEF ServerInv
<1>13. ASSUME NEW i \in 1 .. WebhookServers, NEW taken \in BOOLEAN,
              Webhook!CannotListen(i, taken)
       PROVE  ServerInv'
  <2> SUFFICES ASSUME ~w_rushed' PROVE ServerInv'
    BY DEF ServerInv
  <2> DEFINE failed == [w_servers EXCEPT ![i].state = "failed"]
  <2>1. /\ ~w_rushed /\ i \in 1 .. Len(w_servers) /\ w_servers[i].state = "binding"
        /\ w_session' = w_session
    BY <1>2, <1>13 DEF Webhook!CannotListen
  <2>2. /\ Len(failed) = Len(w_servers)
        /\ \A j \in 1 .. Len(w_servers) :
             failed[j].state = IF j = i THEN "failed" ELSE w_servers[j].state
    BY <1>4, <2>1
  <2>3. /\ w_server = 0 /\ w_session # "down"
        /\ \A j \in 1 .. Len(w_servers) : j # i => w_servers[j].state \notin {"binding", "open"}
    BY <1>1, <2>1 DEF ServerInv
  <2>4. \A j \in 1 .. Len(w_servers) : failed[j].state \notin {"binding", "open"}
    BY <2>2, <2>3
  <2>5. /\ w_server' = 0
        /\ \/ w_servers' = failed
           \/ w_servers' = Append(failed, Webhook!Attempt(w_servers[i].port + 1, w_servers[i].left - 1))
    BY <1>13, <2>3 DEF Webhook!CannotListen
  <2>6. CASE w_servers' = failed
    <3> HIDE DEF failed
    <3> QED BY <2>2, <2>4, <2>6 DEF ServerInv
  <2>7. CASE w_servers' = Append(failed, Webhook!Attempt(w_servers[i].port + 1, w_servers[i].left - 1))
    <3>1. failed \in Seq(WebServers)
      <4>1. "failed" \in WebStates
        BY DEF WebStates
      <4> QED BY <2>1, <4>1, StateChanged
    <3>2. Webhook!Attempt(w_servers[i].port + 1, w_servers[i].left - 1).state = "binding"
      BY DEF Webhook!Attempt
    <3> HIDE DEF failed
    <3> QED BY <1>6, <2>1, <2>2, <2>3, <2>4, <2>5, <2>7, <3>1, <3>2
  <2> QED BY <2>5, <2>6, <2>7
<1>14. CASE UNCHANGED <<w_servers, w_server, w_session, w_rushed>>
  BY <1>14 DEF ServerInv
<1>15. \/ Webhook!SessionStart \/ Webhook!Register \/ Webhook!SessionShutdown
       \/ \E p \in 1 .. WebhookPorts : Webhook!NewPort(p)
       \/ \E i \in 1 .. WebhookServers :
            Webhook!Listening(i) \/ \E taken \in BOOLEAN : Webhook!CannotListen(i, taken)
       \/ UNCHANGED <<w_servers, w_server, w_session, w_rushed>>
  BY DEF Webhook!Next, webhookVars, Webhook!serverVars, Webhook!Poll, Webhook!RunBegins,
         Webhook!RunEnds, Webhook!Wait, Webhook!TimeOut, Webhook!Cancel, Webhook!Arrive,
         Webhook!Reject, Webhook!Queued, Webhook!Triggered, Webhook!Checked, Webhook!Prompted
<1> QED BY <1>8, <1>9, <1>10, <1>11, <1>12, <1>13, <1>14, <1>15

----------------------------------------------------------------------------

\* No reading event has come; what has come and left or waits is in order after one more.
LEMMA QueueStep ==
  ASSUME WebhookAssumption, WebTypes, QueueInv, [Webhook!Next]_webhookVars
  PROVE  QueueInv'
<1> DEFINE Waiters == /\ \A i, j \in 1 .. Len(w_waiters) : w_waiters[i] = w_waiters[j] => i = j
                      /\ \A w \in WebhookWaits :
                           w_waited[w] = "waiting" <=> \E i \in 1 .. Len(w_waiters) : w_waiters[i] = w
           SameElse == w_waiters # <<>> => w_queue = <<>>
           Ordered == OrderOf(WebhookEvents, w_handed \o w_queue, w_accepted, w_dropped)
           Come == \A e \in WebhookEvents :
                     e \in Webhook!ToSet(w_accepted) \/ e \in w_dropped => w_request[e] = "answered"
<1>1. Waiters /\ SameElse /\ Ordered /\ Come
  BY DEF QueueInv
<1>2. ASSUME Waiters', SameElse', Ordered', Come' PROVE QueueInv'
  BY <1>2 DEF QueueInv
<1>3. /\ w_queue \in Seq(WebhookEvents) /\ w_handed \in Seq(WebhookEvents)
      /\ w_accepted \in Seq(WebhookEvents) /\ w_waiters \in Seq(WebhookWaits)
      /\ w_waited \in [WebhookWaits -> WebhookEvents \union {"none", "waiting", "nothing"}]
      /\ w_request \in [WebhookEvents -> WebRequests]
      /\ {"none", "waiting", "nothing"} \cap WebhookEvents = {}
  BY DEF WebTypes, WebhookAssumption
<1>4. ASSUME UNCHANGED <<w_waiters, w_waited>> PROVE Waiters'
  BY <1>1, <1>4
<1>5. ASSUME UNCHANGED <<w_waiters, w_queue>> PROVE SameElse'
  BY <1>1, <1>5
<1>6. ASSUME w_handed' \o w_queue' = w_handed \o w_queue, UNCHANGED <<w_accepted, w_dropped>>
      PROVE  Ordered'
  BY <1>1, <1>6
<1>7. ASSUME UNCHANGED <<w_accepted, w_dropped>>,
             \A e \in WebhookEvents : w_request[e] = "answered" => w_request'[e] = "answered"
      PROVE  Come'
  BY <1>1, <1>7
<1>8. CASE Webhook!SessionShutdown
  <2>1. /\ w_waiters' = <<>> /\ w_queue' = <<>>
        /\ w_waited' = [w \in WebhookWaits |-> IF w_waited[w] = "waiting" THEN "nothing" ELSE w_waited[w]]
        /\ w_dropped' = w_dropped \union Webhook!ToSet(w_queue)
        /\ UNCHANGED <<w_accepted, w_handed, w_request>>
    BY <1>8 DEF Webhook!SessionShutdown, Webhook!messageVars
  <2>2. Waiters'
    <3>1. Len(w_waiters') = 0
      BY <2>1
    <3>2. \A w \in WebhookWaits : w_waited'[w] # "waiting"
      BY <2>1
    <3> QED BY <3>1, <3>2
  <2>3. SameElse'
    BY <2>1
  <2>4. Ordered'
    <3>1. OrderOf(WebhookEvents, w_handed, w_accepted, w_dropped \union Webhook!ToSet(w_queue))
      BY <1>1, <1>3, OrderWithoutQueue
    <3>2. w_handed \o <<>> = w_handed
      BY <1>3
    <3> QED BY <2>1, <3>1, <3>2
  <2>5. Come'
    <3>1. ASSUME NEW e \in Webhook!ToSet(w_queue) PROVE e \in Webhook!ToSet(w_accepted)
      <4>1. PICK i \in 1 .. Len(w_queue) : w_queue[i] = e
        BY <1>3, <3>1, SequencePlaces
      <4>2. /\ w_handed \o w_queue \in Seq(WebhookEvents)
            /\ Len(w_handed) + i \in 1 .. Len(w_handed \o w_queue)
            /\ (w_handed \o w_queue)[Len(w_handed) + i] = e
        BY <1>3, <4>1
      <4>3. e \in Webhook!ToSet(w_handed \o w_queue)
        BY <4>2, SequencePlaces
      <4> QED BY <1>1, <4>3 DEF OrderOf
    <3> QED BY <1>1, <2>1, <3>1
  <2> QED BY <1>2, <2>2, <2>3, <2>4, <2>5
<1>9. CASE Webhook!Poll
  <2>1. /\ w_queue # <<>> /\ w_queue' = <<>> /\ w_handed' = w_handed \o w_queue
        /\ UNCHANGED <<w_waiters, w_waited, w_accepted, w_dropped, w_request>>
    BY <1>9 DEF Webhook!Poll, Webhook!messageVars
  <2>2. w_handed' \o w_queue' = w_handed \o w_queue
    BY <1>3, <2>1
  <2>3. Waiters' /\ Ordered' /\ Come'
    BY <1>4, <1>6, <1>7, <2>1, <2>2
  <2>4. SameElse'
    BY <2>1
  <2> QED BY <1>2, <2>3, <2>4
<1>10. ASSUME NEW w \in WebhookWaits, Webhook!Wait(w) PROVE QueueInv'
  <2>1. w_waited[w] = "none" /\ UNCHANGED <<w_accepted, w_dropped, w_request>>
    BY <1>10 DEF Webhook!Wait, Webhook!messageVars
  <2>2. Come'
    BY <1>7, <2>1
  <2>3. CASE w_queue # <<>>
    <3>1. /\ w_waited' = [w_waited EXCEPT ![w] = Head(w_queue)] /\ w_queue' = Tail(w_queue)
          /\ w_handed' = Append(w_handed, Head(w_queue)) /\ w_waiters' = w_waiters
      BY <1>10, <2>3 DEF Webhook!Wait
    <3>2. w_waiters = <<>> /\ Head(w_queue) \in WebhookEvents
      BY <1>1, <1>3, <2>3
    <3>3. w_handed' \o w_queue' = w_handed \o w_queue
      <4>1. /\ Tail(w_queue) \in Seq(WebhookEvents)
            /\ <<Head(w_queue)>> \o Tail(w_queue) = w_queue
        BY <1>3, <2>3
      <4>2. w_handed' = w_handed \o <<Head(w_queue)>> /\ <<Head(w_queue)>> \in Seq(WebhookEvents)
        BY <1>3, <3>1, <3>2
      <4>3. (w_handed \o <<Head(w_queue)>>) \o Tail(w_queue) =
              w_handed \o (<<Head(w_queue)>> \o Tail(w_queue))
        BY <1>3, <4>1, <4>2, ConcatAssociative
      <4> QED BY <3>1, <4>1, <4>2, <4>3
    <3>4. SameElse' /\ Ordered'
      BY <1>6, <2>1, <3>1, <3>2, <3>3
    <3>5. Waiters'
      <4>1. \A v \in WebhookWaits : w_waited[v] # "waiting"
        BY <1>1, <3>2
      <4>2. \A v \in WebhookWaits : w_waited'[v] # "waiting"
        BY <1>3, <3>1, <3>2, <4>1
      <4>3. Len(w_waiters') = 0
        BY <3>1, <3>2
      <4> QED BY <4>2, <4>3
    <3> QED BY <1>2, <2>2, <3>4, <3>5
  <2>4. CASE w_queue = <<>>
    <3>1. /\ w_waited' = [w_waited EXCEPT ![w] = "waiting"] /\ w_waiters' = Append(w_waiters, w)
          /\ UNCHANGED <<w_queue, w_handed>>
      BY <1>10, <2>4 DEF Webhook!Wait
    <3>2. SameElse'
      BY <2>4, <3>1
    <3>3. Ordered'
      BY <1>6, <2>1, <3>1
    <3>4. /\ Len(w_waiters) \in Nat /\ Len(w_waiters') = Len(w_waiters) + 1
          /\ w_waiters'[Len(w_waiters) + 1] = w
          /\ \A i \in 1 .. Len(w_waiters) : w_waiters'[i] = w_waiters[i] /\ w_waiters[i] # w
      <4>1. /\ Len(w_waiters) \in Nat /\ Len(w_waiters') = Len(w_waiters) + 1
            /\ w_waiters'[Len(w_waiters) + 1] = w
            /\ \A i \in 1 .. Len(w_waiters) : w_waiters'[i] = w_waiters[i]
        BY <1>3, <3>1
      <4>2. \A i \in 1 .. Len(w_waiters) : w_waiters[i] # w
        BY <1>1, <2>1
      <4> QED BY <4>1, <4>2
    <3>5. \A i, j \in 1 .. Len(w_waiters') : w_waiters'[i] = w_waiters'[j] => i = j
      <4>1. \A i \in 1 .. Len(w_waiters') : i \in 1 .. Len(w_waiters) \/ i = Len(w_waiters) + 1
        BY <3>4
      <4> QED BY <1>1, <3>4, <4>1
    <3>6. ASSUME NEW v \in WebhookWaits
          PROVE  w_waited'[v] = "waiting" <=> \E i \in 1 .. Len(w_waiters') : w_waiters'[i] = v
      <4>1. w_waited'[v] = IF v = w THEN "waiting" ELSE w_waited[v]
        BY <1>3, <3>1
      <4>2. (\E i \in 1 .. Len(w_waiters') : w_waiters'[i] = v) <=>
              v = w \/ \E i \in 1 .. Len(w_waiters) : w_waiters[i] = v
        BY <3>4
      <4> QED BY <1>1, <4>1, <4>2
    <3> QED BY <1>2, <2>2, <3>2, <3>3, <3>5, <3>6
  <2> QED BY <2>3, <2>4
<1>11. ASSUME NEW w \in WebhookWaits, w_waited[w] = "waiting", Webhook!GiveUp(w) PROVE Waiters'
  <2> DEFINE n == CHOOSE i \in DOMAIN w_waiters : w_waiters[i] = w
  <2>1. n \in 1 .. Len(w_waiters) /\ w_waiters[n] = w
    <3>1. \E j \in 1 .. Len(w_waiters) : w_waiters[j] = w
      BY <1>1, <1>11
    <3>2. DOMAIN w_waiters = 1 .. Len(w_waiters)
      BY <1>3
    <3> QED BY <3>1, <3>2
  <2>2. w_waiters' = Webhook!RemoveAt(w_waiters, n)
    BY <1>11 DEF Webhook!GiveUp
  <2> HIDE DEF n
  <2>3. w_waiters' = SubSeq(w_waiters, 1, n - 1) \o SubSeq(w_waiters, n + 1, Len(w_waiters))
    BY <2>2 DEF Webhook!RemoveAt
  <2>4. /\ Len(w_waiters) \in Nat /\ Len(w_waiters') = Len(w_waiters) - 1
        /\ \A i \in 1 .. Len(w_waiters) - 1 :
             w_waiters'[i] = w_waiters[IF i < n THEN i ELSE i + 1]
    <3> DEFINE a == SubSeq(w_waiters, 1, n - 1)
               b == SubSeq(w_waiters, n + 1, Len(w_waiters))
    <3>1. Len(w_waiters) \in Nat /\ n \in Nat \ {0} /\ n <= Len(w_waiters)
      BY <1>3, <2>1
    <3>2. /\ a \in Seq(WebhookWaits) /\ Len(a) = n - 1
          /\ \A i \in 1 .. n - 1 : a[i] = w_waiters[i]
      BY <1>3, <3>1
    <3>3. /\ b \in Seq(WebhookWaits) /\ Len(b) = Len(w_waiters) - n
          /\ \A i \in 1 .. Len(w_waiters) - n : b[i] = w_waiters[i + n]
      BY <1>3, <3>1
    <3> HIDE DEF a, b
    <3>4. /\ Len(a \o b) = Len(a) + Len(b)
          /\ \A i \in 1 .. Len(a) + Len(b) :
               (a \o b)[i] = IF i <= Len(a) THEN a[i] ELSE b[i - Len(a)]
      BY <3>2, <3>3, ConcatProperties
    <3>5. w_waiters' = a \o b
      BY <2>3 DEF a, b
    <3>6. ASSUME NEW i \in 1 .. Len(w_waiters) - 1
          PROVE  (a \o b)[i] = w_waiters[IF i < n THEN i ELSE i + 1]
      <4>1. CASE i < n
        <5>1. i \in 1 .. n - 1 /\ i \in 1 .. Len(a) + Len(b) /\ i <= Len(a)
          BY <3>1, <3>2, <3>3, <4>1
        <5> QED BY <3>2, <3>4, <4>1, <5>1
      <4>2. CASE i >= n
        <5>1. i - (n - 1) \in 1 .. Len(w_waiters) - n /\ (i - (n - 1)) + n = i + 1
          BY <3>1, <4>2
        <5>2. i \in 1 .. Len(a) + Len(b) /\ ~(i <= Len(a)) /\ i - Len(a) = i - (n - 1)
          BY <3>1, <3>2, <3>3, <4>2
        <5>3. (a \o b)[i] = b[i - (n - 1)]
          BY <3>4, <5>2
        <5>4. b[i - (n - 1)] = w_waiters[i + 1] /\ ~(i < n)
          BY <3>1, <3>3, <4>2, <5>1
        <5> QED BY <5>3, <5>4
      <4>3. i < n \/ i >= n
        BY <3>1
      <4> QED BY <4>1, <4>2, <4>3
    <3>7. Len(a) + Len(b) = Len(w_waiters) - 1
      BY <3>1, <3>2, <3>3
    <3> QED BY <3>1, <3>4, <3>5, <3>6, <3>7
  <2> DEFINE old(i) == IF i < n THEN i ELSE i + 1
  <2>5. \A i \in 1 .. Len(w_waiters') :
          /\ old(i) \in 1 .. Len(w_waiters) /\ old(i) # n /\ w_waiters'[i] = w_waiters[old(i)]
    BY <2>1, <2>4
  <2>6. \A i, j \in 1 .. Len(w_waiters') : old(i) = old(j) => i = j
    BY <2>1, <2>4
  <2>7. ASSUME NEW k \in 1 .. Len(w_waiters), k # n
        PROVE  \E i \in 1 .. Len(w_waiters') : old(i) = k
    <3>1. CASE k < n
      <4>1. k \in 1 .. Len(w_waiters') /\ old(k) = k
        BY <2>1, <2>4, <3>1
      <4> QED BY <4>1
    <3>2. CASE k > n
      <4>1. k - 1 \in 1 .. Len(w_waiters') /\ old(k - 1) = k
        BY <2>1, <2>4, <3>2
      <4> QED BY <4>1
    <3> QED BY <2>1, <2>7, <3>1, <3>2
  <2> HIDE DEF old
  <2>8. \A i, j \in 1 .. Len(w_waiters') : w_waiters'[i] = w_waiters'[j] => i = j
    BY <1>1, <2>5, <2>6
  <2>9. ASSUME NEW v \in WebhookWaits
        PROVE  w_waited'[v] = "waiting" <=> \E i \in 1 .. Len(w_waiters') : w_waiters'[i] = v
    <3>1. w_waited'[v] = IF v = w THEN "nothing" ELSE w_waited[v]
      BY <1>3, <1>11 DEF Webhook!GiveUp
    <3>2. CASE v = w
      <4>1. \A i \in 1 .. Len(w_waiters') : w_waiters'[i] # w
        BY <1>1, <2>1, <2>5
      <4> QED BY <3>1, <3>2, <4>1
    <3>3. CASE v # w
      <4>1. (\E i \in 1 .. Len(w_waiters') : w_waiters'[i] = v) <=>
              \E i \in 1 .. Len(w_waiters) : w_waiters[i] = v
        BY <2>1, <2>5, <2>7, <3>3
      <4> QED BY <1>1, <3>1, <3>3, <4>1
    <3> QED BY <3>2, <3>3
  <2> QED BY <2>8, <2>9
<1>12. ASSUME NEW w \in WebhookWaits, Webhook!TimeOut(w) \/ Webhook!Cancel(w) PROVE QueueInv'
  <2>1. /\ UNCHANGED <<w_queue, w_handed, w_accepted, w_dropped, w_request>>
        /\ \/ w_waited[w] = "waiting" /\ Webhook!GiveUp(w)
           \/ UNCHANGED <<w_waiters, w_waited>>
    BY <1>12 DEF Webhook!TimeOut, Webhook!Cancel, Webhook!historyVars, Webhook!messageVars
  <2>2. Waiters'
    BY <1>4, <1>11, <2>1
  <2>3. Ordered' /\ Come'
    BY <1>6, <1>7, <2>1
  <2>4. SameElse'
    <3>1. w_waiters = <<>> => w_waiters' = <<>>
      <4> SUFFICES ASSUME w_waiters = <<>>, w_waited[w] = "waiting" PROVE FALSE
        BY <2>1
      <4> QED BY <1>1
    <3> QED BY <1>1, <2>1, <3>1
  <2> QED BY <1>2, <2>2, <2>3, <2>4
<1>13. ASSUME NEW e \in WebhookEvents, Webhook!Queued(e) PROVE QueueInv'
  <2>1. /\ w_request[e] = "reading" /\ w_accepted' = Append(w_accepted, e)
        /\ w_request' = [w_request EXCEPT ![e] = "answered"]
    BY <1>13 DEF Webhook!Queued, Webhook!Enqueue
  <2>2. e \notin Webhook!ToSet(w_accepted) /\ e \notin w_dropped
    BY <1>1, <2>1
  <2>3. OrderOf(WebhookEvents, Append(w_handed \o w_queue, e), w_accepted', w_dropped)
    <3>1. w_handed \o w_queue \in Seq(WebhookEvents)
      BY <1>3
    <3> QED BY <1>1, <1>3, <2>1, <2>2, <3>1, OrderAppended
  <2>4. Append(w_handed \o w_queue, e) = w_handed \o Append(w_queue, e)
    <3>1. /\ <<e>> \in Seq(WebhookEvents) /\ Append(w_queue, e) = w_queue \o <<e>>
          /\ Append(w_handed \o w_queue, e) = (w_handed \o w_queue) \o <<e>>
      BY <1>3, AppendIsConcat, ConcatProperties
    <3> QED BY <1>3, <3>1, ConcatAssociative
  <2>5. ASSUME \A d \in w_dropped' :
                 d \in w_dropped \/ (d \in WebhookEvents /\ d \in Webhook!ToSet(w_accepted'))
        PROVE  Come'
    <3>1. \A d : d \in Webhook!ToSet(w_accepted') <=> d \in Webhook!ToSet(w_accepted) \/ d = e
      <4>1. /\ w_accepted' \in Seq(WebhookEvents) /\ Len(w_accepted') = Len(w_accepted) + 1
            /\ w_accepted'[Len(w_accepted) + 1] = e /\ Len(w_accepted) \in Nat
            /\ \A i \in 1 .. Len(w_accepted) : w_accepted'[i] = w_accepted[i]
        BY <1>3, <2>1
      <4>2. \A d : d \in Webhook!ToSet(w_accepted') <=>
                     \E i \in 1 .. Len(w_accepted') : w_accepted'[i] = d
        BY <4>1, SequencePlaces
      <4>3. \A d : d \in Webhook!ToSet(w_accepted) <=>
                     \E i \in 1 .. Len(w_accepted) : w_accepted[i] = d
        BY <1>3, SequencePlaces
      <4>4. \A i \in 1 .. Len(w_accepted') : i \in 1 .. Len(w_accepted) \/ i = Len(w_accepted) + 1
        BY <4>1
      <4>5. \A i \in 1 .. Len(w_accepted) : i \in 1 .. Len(w_accepted')
        BY <4>1
      <4>6. Len(w_accepted) + 1 \in 1 .. Len(w_accepted')
        BY <4>1
      <4> QED BY <4>1, <4>2, <4>3, <4>4, <4>5, <4>6
    <3>2. w_request'[e] = "answered" /\ \A d \in WebhookEvents : d # e => w_request'[d] = w_request[d]
      BY <1>3, <2>1
    <3> QED BY <1>1, <2>5, <3>1, <3>2
  <2>6. CASE w_waiters # <<>>
    <3> DEFINE w == Head(w_waiters)
    <3>1. /\ w \in WebhookWaits /\ w = w_waiters[1] /\ Len(w_waiters) \in Nat \ {0}
          /\ Len(Tail(w_waiters)) = Len(w_waiters) - 1
          /\ \A i \in 1 .. Len(w_waiters) - 1 : Tail(w_waiters)[i] = w_waiters[i + 1]
      BY <1>3, <2>6
    <3>2. w_waited[w] = "waiting" /\ w_queue = <<>>
      <4>1. 1 \in 1 .. Len(w_waiters) /\ w_waiters[1] = w
        BY <3>1
      <4> HIDE DEF w
      <4> QED BY <1>1, <2>6, <3>1, <4>1
    <3>3. /\ w_waiters' = Tail(w_waiters) /\ w_waited' = [w_waited EXCEPT ![w] = e]
          /\ w_handed' = Append(w_handed, e) /\ UNCHANGED <<w_queue, w_dropped>>
      BY <1>13, <2>6, <3>2 DEF Webhook!Queued, Webhook!Enqueue
    <3> HIDE DEF w
    <3>4. Come'
      BY <2>5, <3>3
    <3>5. SameElse'
      BY <3>2, <3>3
    <3>6. Ordered'
      <4>1. w_handed' \o w_queue' = Append(w_handed \o w_queue, e)
        BY <1>3, <3>2, <3>3
      <4> QED BY <2>3, <3>3, <4>1
    <3>7. Waiters'
      <4>1. \A i, j \in 1 .. Len(w_waiters') : w_waiters'[i] = w_waiters'[j] => i = j
        <5>1. \A i \in 1 .. Len(w_waiters') : i + 1 \in 1 .. Len(w_waiters)
          BY <3>1, <3>3
        <5>2. \A i \in 1 .. Len(w_waiters') : w_waiters'[i] = w_waiters[i + 1]
          BY <3>1, <3>3
        <5> QED BY <1>1, <5>1, <5>2
      <4>2. ASSUME NEW v \in WebhookWaits
            PROVE  w_waited'[v] = "waiting" <=> \E i \in 1 .. Len(w_waiters') : w_waiters'[i] = v
        <5>1. w_waited'[v] = (IF v = w THEN e ELSE w_waited[v]) /\ e # "waiting"
          BY <1>3, <3>3
        <5>2. \A i \in 1 .. Len(w_waiters') : i + 1 \in 1 .. Len(w_waiters) /\ i + 1 # 1
          BY <3>1, <3>3
        <5>3. \A i \in 1 .. Len(w_waiters') : w_waiters'[i] = w_waiters[i + 1]
          BY <3>1, <3>3
        <5>4. ASSUME NEW i \in 1 .. Len(w_waiters), i # 1
              PROVE  i - 1 \in 1 .. Len(w_waiters') /\ w_waiters'[i - 1] = w_waiters[i]
          BY <3>1, <3>3, <5>4
        <5>5. 1 \in 1 .. Len(w_waiters) /\ w_waiters[1] = w
          BY <3>1
        <5>6. \A i \in 1 .. Len(w_waiters') : w_waiters'[i] # w
          BY <1>1, <5>2, <5>3, <5>5
        <5>7. (\E i \in 1 .. Len(w_waiters') : w_waiters'[i] = v) <=>
                v # w /\ \E i \in 1 .. Len(w_waiters) : w_waiters[i] = v
          <6>1. ASSUME v # w, NEW i \in 1 .. Len(w_waiters), w_waiters[i] = v
                PROVE  \E j \in 1 .. Len(w_waiters') : w_waiters'[j] = v
            <7>1. i # 1
              BY <5>5, <6>1
            <7> QED BY <5>4, <6>1, <7>1
          <6>2. ASSUME NEW i \in 1 .. Len(w_waiters'), w_waiters'[i] = v
                PROVE  v # w /\ \E j \in 1 .. Len(w_waiters) : w_waiters[j] = v
            BY <5>2, <5>3, <5>6, <6>2
          <6> QED BY <6>1, <6>2
        <5> QED BY <1>1, <5>1, <5>7
      <4> QED BY <4>1, <4>2
    <3> QED BY <1>2, <3>4, <3>5, <3>6, <3>7
  <2>7. CASE w_waiters = <<>>
    <3> DEFINE longer == Append(w_queue, e)
    <3>1. /\ UNCHANGED <<w_waiters, w_waited, w_handed>>
          /\ \/ w_queue' = longer /\ w_dropped' = w_dropped
             \/ w_queue' = Tail(longer) /\ w_dropped' = w_dropped \union {Head(longer)}
      BY <1>13, <2>7 DEF Webhook!Queued, Webhook!Enqueue
    <3>2. longer \in Seq(WebhookEvents) /\ longer # <<>> /\ Head(longer) \in WebhookEvents
      <4>1. longer \in Seq(WebhookEvents) /\ longer # <<>>
        BY <1>3
      <4> HIDE DEF longer
      <4> QED BY <4>1
    <3>3. OrderOf(WebhookEvents, w_handed \o longer, w_accepted', w_dropped)
      BY <2>3, <2>4
    <3> HIDE DEF longer
    <3>4. Waiters' /\ SameElse'
      BY <1>4, <2>7, <3>1
    <3>5. CASE w_queue' = longer /\ w_dropped' = w_dropped
      <4>1. Ordered'
        BY <3>1, <3>3, <3>5
      <4>2. Come'
        BY <2>5, <3>5
      <4> QED BY <1>2, <3>4, <4>1, <4>2
    <3>6. CASE w_queue' = Tail(longer) /\ w_dropped' = w_dropped \union {Head(longer)}
      <4>1. OrderOf(WebhookEvents, w_handed \o Tail(longer), w_accepted', w_dropped \union {Head(longer)})
        BY <1>3, <3>2, <3>3, OrderWithoutHead
      <4>2. Ordered'
        BY <3>1, <3>6, <4>1
      <4>3. Head(longer) \in Webhook!ToSet(w_accepted')
        <5>1. /\ w_handed \o longer \in Seq(WebhookEvents)
              /\ Len(w_handed) + 1 \in 1 .. Len(w_handed \o longer)
              /\ (w_handed \o longer)[Len(w_handed) + 1] = Head(longer)
          BY <1>3, <3>2
        <5>2. Head(longer) \in Webhook!ToSet(w_handed \o longer)
          BY <5>1, SequencePlaces
        <5> QED BY <3>3, <5>2 DEF OrderOf
      <4>4. Come'
        BY <2>5, <3>2, <3>6, <4>3
      <4> QED BY <1>2, <3>4, <4>2, <4>4
    <3> QED BY <3>1, <3>5, <3>6
  <2> QED BY <2>6, <2>7
<1>14. ASSUME UNCHANGED <<w_queue, w_waiters, w_waited, w_handed, w_accepted, w_dropped>>,
              \A e \in WebhookEvents : w_request[e] = "answered" => w_request'[e] = "answered"
       PROVE  QueueInv'
  BY <1>2, <1>4, <1>5, <1>6, <1>7, <1>14
<1>15. \/ Webhook!SessionShutdown \/ Webhook!Poll
       \/ \E w \in WebhookWaits : Webhook!Wait(w) \/ Webhook!TimeOut(w) \/ Webhook!Cancel(w)
       \/ \E e \in WebhookEvents : Webhook!Queued(e)
       \/ /\ UNCHANGED <<w_queue, w_waiters, w_waited, w_handed, w_accepted, w_dropped>>
          /\ \A e \in WebhookEvents : w_request[e] = "answered" => w_request'[e] = "answered"
  <2>1. ASSUME NEW d \in WebhookEvents,
               Webhook!Arrive(d) \/ Webhook!Reject(d) \/ Webhook!Triggered(d)
               \/ Webhook!Checked(d) \/ Webhook!Prompted(d)
        PROVE  /\ UNCHANGED <<w_queue, w_waiters, w_waited, w_handed, w_accepted, w_dropped>>
               /\ \A e \in WebhookEvents : w_request[e] = "answered" => w_request'[e] = "answered"
    <3>1. UNCHANGED <<w_queue, w_waiters, w_waited, w_handed, w_accepted, w_dropped>>
      BY <2>1 DEF Webhook!Arrive, Webhook!Reject, Webhook!Triggered, Webhook!Checked,
                  Webhook!Prompted, Webhook!registryVars, Webhook!historyVars
    <3>2. w_request[d] # "answered" /\ \E r : w_request' = [w_request EXCEPT ![d] = r]
      BY <2>1 DEF Webhook!Arrive, Webhook!Reject, Webhook!Triggered, Webhook!Checked,
                  Webhook!Prompted
    <3> QED BY <1>3, <3>1, <3>2
  <2> QED BY <2>1 DEF Webhook!Next, webhookVars, Webhook!registryVars, Webhook!historyVars,
         Webhook!messageVars, Webhook!RunBegins, Webhook!RunEnds, Webhook!SessionStart,
         Webhook!Register, Webhook!NewPort, Webhook!Listening, Webhook!CannotListen
<1> QED BY <1>8, <1>9, <1>10, <1>12, <1>13, <1>14, <1>15

----------------------------------------------------------------------------
(* The Slack channel *)

\* Event files and messages are told apart.
MomAssumption == FileEvents \cap (Mentions \union {"stop"}) = {}

MomMessages == Mentions \union {"stop"}
MomWork == MomMessages \union FileEvents
MomTexts == {"halt", "yes"} \union FileEvents

MomTypes ==
  /\ m_queue \in Seq(FileEvents) /\ m_processing \in BOOLEAN /\ m_running \in BOOLEAN
  /\ m_current \in MomWork \union {None}
  /\ m_stage \in {"idle", "posting", "preparing", "prompting", "finishing"}
  /\ m_log \in Seq(MomMessages) /\ m_context \in Seq(MomTexts)
  /\ m_arrived \subseteq MomWork /\ IsFiniteSet(m_arrived) /\ m_synced \subseteq MomMessages

\* The two flags and the stage say the same, so only events are ever queued, each once and
\* not the one that is worked on; what is worked on or logged has arrived.
ChannelInv ==
  /\ m_running = m_processing /\ (m_processing <=> m_stage # "idle")
  /\ m_stage = "idle" => m_queue = <<>>
  /\ m_stage # "idle" => m_current \in m_arrived
  /\ \A i \in 1 .. Len(m_queue) : m_queue[i] \in m_arrived /\ m_queue[i] # m_current
  /\ \A i, j \in 1 .. Len(m_queue) : m_queue[i] = m_queue[j] => i = j
  /\ \A i \in 1 .. Len(m_log) : m_log[i] \in m_arrived

\* Each text of a context can be put down to something of its own that has arrived and is
\* not still to be prompted.
Owned(c, arrived, prompted) ==
  \E owner \in [1 .. Len(c) -> arrived] :
    /\ \A i, j \in 1 .. Len(c) : owner[i] = owner[j] => i = j
    /\ \A i \in 1 .. Len(c) : Channel!Text(owner[i]) = c[i] /\ owner[i] \notin prompted

Prompted == Channel!ToSet(m_queue)
            \union (IF m_stage \in {"posting", "preparing"} THEN {m_current} ELSE {})

ContextInv ==
  /\ Owned(m_context, m_arrived, Prompted)
  /\ m_stage = "preparing" =>
       \A m \in m_synced \ {m_current} : Channel!Text(m) \in Channel!ToSet(m_context)
  /\ m_stage = "prompting" => \A m \in m_synced : Channel!Text(m) \in Channel!ToSet(m_context)

LEMMA TextType == \A w \in MomWork : Channel!Text(w) \in MomTexts
BY DEF Channel!Text, MomWork, MomTexts, MomMessages

LEMMA ChannelSets ==
  ASSUME NEW X, NEW s \in Seq(X)
  PROVE  \A x : x \in Channel!ToSet(s) <=> \E i \in 1 .. Len(s) : s[i] = x
BY DEF Channel!ToSet

\* More has arrived, and nothing that had is to be prompted that was not before.
LEMMA OwnedLater ==
  ASSUME NEW c, NEW arrived, NEW more, NEW prompted, NEW later, Owned(c, arrived, prompted),
         arrived \subseteq more, later \cap arrived \subseteq prompted
  PROVE  Owned(c, more, later)
<1>1. PICK owner \in [1 .. Len(c) -> arrived] :
        /\ \A i, j \in 1 .. Len(c) : owner[i] = owner[j] => i = j
        /\ \A i \in 1 .. Len(c) : Channel!Text(owner[i]) = c[i] /\ owner[i] \notin prompted
  BY DEF Owned
<1>2. owner \in [1 .. Len(c) -> more]
  OBVIOUS
<1>3. \A i \in 1 .. Len(c) : owner[i] \notin later
  BY <1>1
<1> QED BY <1>1, <1>2, <1>3 DEF Owned

\* One more text, of something that was to be prompted or that no text is of.
LEMMA OwnedAppend ==
  ASSUME NEW c \in Seq(MomTexts), NEW arrived, NEW prompted, Owned(c, arrived, prompted),
         NEW x \in arrived, Channel!Text(x) \in MomTexts,
         x \in prompted \/ Channel!Text(x) \notin Channel!ToSet(c),
         NEW later, later \subseteq prompted, x \notin later
  PROVE  Owned(Append(c, Channel!Text(x)), arrived, later)
<1>1. PICK owner \in [1 .. Len(c) -> arrived] :
        /\ \A i, j \in 1 .. Len(c) : owner[i] = owner[j] => i = j
        /\ \A i \in 1 .. Len(c) : Channel!Text(owner[i]) = c[i] /\ owner[i] \notin prompted
  BY DEF Owned
<1>2. \A i \in 1 .. Len(c) : owner[i] # x
  BY <1>1, ChannelSets
<1> DEFINE t == Append(c, Channel!Text(x))
           next == [i \in 1 .. Len(c) + 1 |-> IF i = Len(c) + 1 THEN x ELSE owner[i]]
<1>3. /\ Len(c) \in Nat /\ Len(t) = Len(c) + 1 /\ t[Len(c) + 1] = Channel!Text(x)
      /\ \A i \in 1 .. Len(c) : t[i] = c[i]
  OBVIOUS
<1> HIDE DEF t
<1>4. next \in [1 .. Len(t) -> arrived]
  BY <1>3
<1>5. \A i, j \in 1 .. Len(t) : next[i] = next[j] => i = j
  BY <1>1, <1>2, <1>3
<1>6. \A i \in 1 .. Len(t) : Channel!Text(next[i]) = t[i] /\ next[i] \notin later
  BY <1>1, <1>3
<1> HIDE DEF next
<1>7. Owned(t, arrived, later)
  BY <1>4, <1>5, <1>6 DEF Owned
<1> QED BY <1>7 DEF t

----------------------------------------------------------------------------
(* The log is brought in *)

\* The contexts after the first messages of the log.
IsBringing(g) ==
  g = [n \in 0 .. Len(m_log) |-> IF n = 0 THEN m_context ELSE Channel!Brought(g[n - 1], m_log[n])]
Bringing == CHOOSE g : IsBringing(g)

LEMMA BroughtType ==
  ASSUME MomAssumption, NEW c \in Seq(MomTexts), NEW m \in MomWork
  PROVE  Channel!Brought(c, m) \in Seq(MomTexts)
<1>1. Channel!Text(m) \in MomTexts
  BY TextType
<1> QED BY <1>1 DEF Channel!Brought

LEMMA BringingIs ==
  ASSUME MomAssumption, MomTypes
  PROVE  /\ Bringing[0] = m_context
         /\ \A n \in 1 .. Len(m_log) :
              Bringing[n] = Channel!Brought(Bringing[n - 1], m_log[n])
         /\ Channel!Synchronized = Bringing[Len(m_log)]
<1>0. /\ Len(m_log) \in Nat /\ m_context \in Seq(MomTexts)
      /\ \A i \in 1 .. Len(m_log) : m_log[i] \in MomWork
  BY DEF MomTypes, MomWork
<1> DEFINE Up(g, n) == /\ g \in [0 .. n -> Seq(MomTexts)] /\ g[0] = m_context
                       /\ \A i \in 1 .. n : g[i] = Channel!Brought(g[i - 1], m_log[i])
           T == {n \in Nat : n <= Len(m_log) => \E g : Up(g, n)}
<1>1. 0 \in T
  <2>1. Up([i \in 0 .. 0 |-> m_context], 0)
    BY <1>0
  <2> QED BY <2>1
<1>2. ASSUME NEW n \in Nat, n \in T PROVE n + 1 \in T
  <2> SUFFICES ASSUME n + 1 <= Len(m_log) PROVE \E g : Up(g, n + 1)
    OBVIOUS
  <2>1. PICK g : Up(g, n)
    BY <1>0, <1>2
  <2> DEFINE h == [i \in 0 .. n + 1 |-> IF i <= n THEN g[i] ELSE Channel!Brought(g[i - 1], m_log[i])]
  <2>2. Channel!Brought(g[n], m_log[n + 1]) \in Seq(MomTexts)
    <3>1. n + 1 \in 1 .. Len(m_log) /\ g[n] \in Seq(MomTexts)
      BY <1>0, <2>1
    <3> QED BY <1>0, <3>1, BroughtType
  <2>3. h \in [0 .. n + 1 -> Seq(MomTexts)]
    BY <2>1, <2>2
  <2>4. h[0] = m_context
    BY <2>1
  <2>5. \A i \in 1 .. n + 1 : h[i] = Channel!Brought(h[i - 1], m_log[i])
    BY <2>1
  <2>6. Up(h, n + 1)
    BY <2>3, <2>4, <2>5
  <2> QED BY <2>6
<1>3. PICK g : Up(g, Len(m_log))
  <2>1. Len(m_log) \in T
    <3> HIDE DEF T
    <3> QED BY <1>0, <1>1, <1>2, Induct
  <2> QED BY <1>0, <2>1
<1>4. IsBringing(g)
  <2> DEFINE r == [n \in 0 .. Len(m_log) |->
                     IF n = 0 THEN m_context ELSE Channel!Brought(g[n - 1], m_log[n])]
  <2>1. \A n \in 0 .. Len(m_log) : n = 0 \/ n \in 1 .. Len(m_log)
    BY <1>0
  <2>2. \A n \in 0 .. Len(m_log) : r[n] = g[n]
    BY <1>3, <2>1, Zenon
  <2>3. r = [n \in 0 .. Len(m_log) |-> r[n]] /\ g = [n \in 0 .. Len(m_log) |-> g[n]]
    BY <1>3
  <2> HIDE DEF r
  <2>4. r = g
    BY <2>2, <2>3
  <2> QED BY <2>4 DEF r, IsBringing
<1>5. IsBringing(Bringing)
  BY <1>4 DEF Bringing
<1> DEFINE f == Bringing
<1> HIDE DEF f
<1>6. f = [n \in 0 .. Len(m_log) |-> IF n = 0 THEN m_context ELSE Channel!Brought(f[n - 1], m_log[n])]
  BY <1>5 DEF f, IsBringing
<1>7. \A n \in 0 .. Len(m_log) :
        f[n] = IF n = 0 THEN m_context ELSE Channel!Brought(f[n - 1], m_log[n])
  BY <1>6
<1>8. 0 \in 0 .. Len(m_log) /\ \A n \in 1 .. Len(m_log) : n \in 0 .. Len(m_log) /\ n # 0
  BY <1>0
<1>9. f[0] = m_context /\ \A n \in 1 .. Len(m_log) : f[n] = Channel!Brought(f[n - 1], m_log[n])
  BY <1>7, <1>8, Zenon
<1>10. Channel!Synchronized = f[Len(m_log)]
  BY Zenon DEF Channel!Synchronized, f, Bringing, IsBringing
<1> QED BY <1>9, <1>10 DEF f

\* What is brought in is owned by the messages it came with, the context keeps what it held,
\* and has the text of every message but the current one.
LEMMA SynchronizedIs ==
  ASSUME MomAssumption, MomTypes, ChannelInv, m_stage = "posting",
         Owned(m_context, m_arrived, Prompted)
  PROVE  /\ Channel!Synchronized \in Seq(MomTexts)
         /\ Owned(Channel!Synchronized, m_arrived, Prompted)
         /\ \A m \in Channel!ToSet(m_log) \ {m_current} :
              Channel!Text(m) \in Channel!ToSet(Channel!Synchronized)
<1> DEFINE f == Bringing
           N == Len(m_log)
           Good(n) == /\ f[n] \in Seq(MomTexts)
                      /\ Owned(f[n], m_arrived, Prompted)
                      /\ \A i \in 1 .. n : m_log[i] # m_current =>
                           Channel!Text(m_log[i]) \in Channel!ToSet(f[n])
           T == {n \in Nat : n <= N => Good(n)}
<1> HIDE DEF f
<1>0. /\ N \in Nat /\ m_context \in Seq(MomTexts)
      /\ \A i \in 1 .. N : m_log[i] \in MomMessages /\ m_log[i] \in m_arrived
  BY DEF MomTypes, ChannelInv
<1>1. /\ f[0] = m_context /\ Channel!Synchronized = f[N]
      /\ \A n \in 1 .. N : f[n] = Channel!Brought(f[n - 1], m_log[n])
  BY BringingIs DEF f
<1>2. 0 \in T
  <2>1. Good(0)
    BY <1>0, <1>1
  <2> QED BY <2>1
<1>3. ASSUME NEW n \in Nat, n \in T PROVE n + 1 \in T
  <2> SUFFICES ASSUME n + 1 <= N PROVE Good(n + 1)
    OBVIOUS
  <2> DEFINE m == m_log[n + 1]
             c == f[n]
  <2>1. n + 1 \in 1 .. N /\ (n + 1) - 1 = n /\ Good(n)
    BY <1>0, <1>3
  <2>2. f[n + 1] = Channel!Brought(c, m) /\ m \in MomMessages /\ m \in m_arrived
    BY <1>0, <1>1, <2>1
  <2>3. c \in Seq(MomTexts) /\ Channel!Text(m) \in MomTexts
    BY <2>1, <2>2, TextType DEF MomWork
  <2>4. m # m_current => m \notin Prompted
    <3>1. m_queue \in Seq(FileEvents) /\ m \notin FileEvents
      BY <2>2 DEF MomTypes, MomAssumption, MomMessages
    <3>2. m \notin Channel!ToSet(m_queue)
      BY <3>1, ChannelSets
    <3> QED BY <3>2 DEF Prompted
  <2> HIDE DEF m, c
  <2>5. CASE m = m_current \/ Channel!Text(m) \in Channel!ToSet(c)
    <3>1. f[n + 1] = c
      BY <2>2, <2>5 DEF Channel!Brought, Channel!Skipped
    <3>2. \A i \in 1 .. n + 1 : i \in 1 .. n \/ i = n + 1
      OBVIOUS
    <3> QED BY <2>1, <2>5, <3>1, <3>2 DEF m, c
  <2>6. CASE m # m_current /\ Channel!Text(m) \notin Channel!ToSet(c)
    <3>1. f[n + 1] = Append(c, Channel!Text(m))
      BY <2>2, <2>6 DEF Channel!Brought, Channel!Skipped
    <3>2. Owned(c, m_arrived, Prompted)
      BY <2>1 DEF c
    <3>3. Owned(f[n + 1], m_arrived, Prompted)
      BY <2>2, <2>3, <2>4, <2>6, <3>1, <3>2, OwnedAppend
    <3>4. f[n + 1] \in Seq(MomTexts) /\ Len(f[n + 1]) = Len(c) + 1 /\ Len(c) \in Nat
          /\ f[n + 1][Len(c) + 1] = Channel!Text(m)
          /\ \A i \in 1 .. Len(c) : f[n + 1][i] = c[i]
      BY <2>3, <3>1
    <3>5. /\ Channel!Text(m) \in Channel!ToSet(f[n + 1])
          /\ \A x \in Channel!ToSet(c) : x \in Channel!ToSet(f[n + 1])
      <4>1. Len(c) + 1 \in 1 .. Len(f[n + 1]) /\ \A i \in 1 .. Len(c) : i \in 1 .. Len(f[n + 1])
        BY <3>4
      <4> QED BY <2>3, <3>4, <4>1, ChannelSets
    <3>6. \A i \in 1 .. n + 1 : m_log[i] # m_current =>
            Channel!Text(m_log[i]) \in Channel!ToSet(f[n + 1])
      <4>1. \A i \in 1 .. n + 1 : i \in 1 .. n \/ i = n + 1
        OBVIOUS
      <4> QED BY <2>1, <3>5, <4>1 DEF m, c
    <3> QED BY <3>3, <3>4, <3>6
  <2> QED BY <2>5, <2>6
<1>4. N \in T
  <2> HIDE DEF T, N
  <2> QED BY <1>0, <1>2, <1>3, Induct
<1>5. Good(N)
  BY <1>0, <1>4
<1>6. \A m \in Channel!ToSet(m_log) : \E i \in 1 .. N : m_log[i] = m
  <2>1. m_log \in Seq(MomMessages)
    BY DEF MomTypes
  <2> QED BY <2>1, ChannelSets
<1> QED BY <1>1, <1>5, <1>6

----------------------------------------------------------------------------
(* Steps *)

\* What a step does, as far as the invariant is concerned.
StepOf ==
  \/ \E m \in MomMessages : Channel!Mention(m) \/ Channel!Chatter(m) \/ Channel!Stop(m)
  \/ \E e \in FileEvents : Channel!Event(e)
  \/ Channel!Synchronize \/ Channel!Prompt \/ Channel!PromptRejects \/ Channel!AgentEnds
  \/ Channel!End
  \/ UNCHANGED momVars

LEMMA StepIs == [Channel!Next]_momVars => StepOf
BY DEF Channel!Next, Channel!Run, StepOf, MomMessages

\* A sequence with one more element, and without its head.
LEMMA QueueEnds ==
  ASSUME NEW X, NEW s \in Seq(X), NEW x \in X
  PROVE  /\ Len(s) \in Nat /\ Append(s, x) \in Seq(X) /\ Len(Append(s, x)) = Len(s) + 1
         /\ \A i \in 1 .. Len(s) : Append(s, x)[i] = s[i]
         /\ Append(s, x)[Len(s) + 1] = x
         /\ Channel!ToSet(Append(s, x)) = Channel!ToSet(s) \union {x}
         /\ s # <<>> => /\ Head(s) = s[1] /\ Tail(s) \in Seq(X) /\ Len(Tail(s)) = Len(s) - 1
                        /\ 1 \in 1 .. Len(s) /\ Len(s) - 1 \in Nat
                        /\ \A i \in 1 .. Len(Tail(s)) : i + 1 \in 1 .. Len(s) /\ Tail(s)[i] = s[i + 1]
<1>1. /\ Len(s) \in Nat /\ Append(s, x) \in Seq(X) /\ Len(Append(s, x)) = Len(s) + 1
      /\ \A i \in 1 .. Len(s) : Append(s, x)[i] = s[i]
      /\ Append(s, x)[Len(s) + 1] = x
  OBVIOUS
<1> DEFINE t == Append(s, x)
<1>2. ASSUME NEW y PROVE y \in Channel!ToSet(t) <=> y \in Channel!ToSet(s) \union {x}
  <2> HIDE DEF t
  <2>1. t \in Seq(X) /\ Len(t) = Len(s) + 1 /\ (\A i \in 1 .. Len(s) : t[i] = s[i])
        /\ t[Len(s) + 1] = x
    BY <1>1 DEF t
  <2>2. y \in Channel!ToSet(t) <=> \E i \in 1 .. Len(t) : t[i] = y
    BY <2>1, ChannelSets
  <2>3. y \in Channel!ToSet(s) <=> \E i \in 1 .. Len(s) : s[i] = y
    BY ChannelSets
  <2>4. \A i \in 1 .. Len(t) : i \in 1 .. Len(s) \/ i = Len(s) + 1
    BY <1>1, <2>1
  <2>5. Len(s) + 1 \in 1 .. Len(t) /\ \A i \in 1 .. Len(s) : i \in 1 .. Len(t)
    BY <1>1, <2>1
  <2> QED BY <2>1, <2>2, <2>3, <2>4, <2>5
<1>3. s # <<>> => /\ Head(s) = s[1] /\ Tail(s) \in Seq(X) /\ Len(Tail(s)) = Len(s) - 1
                  /\ 1 \in 1 .. Len(s) /\ Len(s) - 1 \in Nat
                  /\ \A i \in 1 .. Len(Tail(s)) : i + 1 \in 1 .. Len(s) /\ Tail(s)[i] = s[i + 1]
  OBVIOUS
<1> QED BY <1>1, <1>2, <1>3

LEMMA MomTypesStep ==
  ASSUME MomAssumption, MomTypes, ChannelInv, ContextInv, [Channel!Next]_momVars
  PROVE  MomTypes'
<1>0. StepOf
  BY StepIs
<1>1. ASSUME NEW w \in MomWork PROVE
        /\ m_arrived \union {w} \subseteq MomWork /\ IsFiniteSet(m_arrived \union {w})
  BY FS_AddElement DEF MomTypes
<1>2. ASSUME NEW m \in MomMessages PROVE
        m \in MomWork /\ Append(m_log, m) \in Seq(MomMessages)
  BY QueueEnds DEF MomTypes, MomWork
<1>3. CASE \E m \in MomMessages : Channel!Mention(m) \/ Channel!Chatter(m) \/ Channel!Stop(m)
  <2>1. PICK m \in MomMessages : Channel!Mention(m) \/ Channel!Chatter(m) \/ Channel!Stop(m)
    BY <1>3
  <2>2. m_log' \in Seq(MomMessages) /\ m_arrived' \subseteq MomWork /\ IsFiniteSet(m_arrived')
    BY <1>1, <1>2, <2>1 DEF Channel!Mention, Channel!Chatter, Channel!Stop
  <2>3. m_context' = m_context /\ m_synced' = m_synced
    BY <2>1 DEF Channel!Mention, Channel!Chatter, Channel!Stop
  <2>4. /\ m_queue' = m_queue
        /\ m_processing' \in BOOLEAN /\ m_running' \in BOOLEAN
        /\ m_current' \in MomWork \union {None}
        /\ m_stage' \in {"idle", "posting", "preparing", "prompting", "finishing"}
    BY <1>2, <2>1 DEF Channel!Mention, Channel!Chatter, Channel!Stop, Channel!Enqueue,
       Channel!Begin, Channel!IsRunning, Channel!runVars, MomTypes, ChannelInv
  <2> QED BY <2>2, <2>3, <2>4 DEF MomTypes
<1>4. CASE \E e \in FileEvents : Channel!Event(e)
  <2>1. PICK e \in FileEvents : Channel!Event(e)
    BY <1>4
  <2>2. e \in MomWork /\ m_arrived' \subseteq MomWork /\ IsFiniteSet(m_arrived')
    BY <1>1, <2>1 DEF Channel!Event, MomWork
  <2>3. Append(m_queue, e) \in Seq(FileEvents)
    BY QueueEnds DEF MomTypes
  <2>4. /\ m_queue' \in Seq(FileEvents)
        /\ m_processing' \in BOOLEAN /\ m_running' \in BOOLEAN
        /\ m_current' \in MomWork \union {None}
        /\ m_stage' \in {"idle", "posting", "preparing", "prompting", "finishing"}
    BY <2>1, <2>2, <2>3 DEF Channel!Event, Channel!Enqueue, Channel!Begin, Channel!runVars, MomTypes
  <2> QED BY <2>1, <2>2, <2>4 DEF Channel!Event, MomTypes
<1>5. CASE Channel!Synchronize
  <2>1. m_stage = "posting" /\ Owned(m_context, m_arrived, Prompted)
    BY <1>5 DEF Channel!Synchronize, ContextInv
  <2>2. Channel!Synchronized \in Seq(MomTexts)
    BY <2>1, SynchronizedIs
  <2>3. Channel!ToSet(m_log) \subseteq MomMessages
    BY ChannelSets DEF MomTypes
  <2> QED BY <1>5, <2>2, <2>3 DEF Channel!Synchronize, MomTypes
<1>6. CASE Channel!Prompt
  <2>1. m_current \in MomWork
    BY <1>6 DEF Channel!Prompt, ChannelInv, MomTypes
  <2>2. Append(m_context, Channel!Text(m_current)) \in Seq(MomTexts)
    BY <2>1, TextType DEF MomTypes
  <2> QED BY <1>6, <2>2 DEF Channel!Prompt, MomTypes
<1>7. CASE Channel!PromptRejects \/ Channel!AgentEnds
  BY <1>7 DEF Channel!PromptRejects, Channel!AgentEnds, MomTypes
<1>8. CASE Channel!End
  <2>1. m_queue # <<>> => Head(m_queue) \in MomWork /\ Tail(m_queue) \in Seq(FileEvents)
    BY DEF MomTypes, MomWork
  <2>2. /\ m_queue' \in Seq(FileEvents)
        /\ m_processing' \in BOOLEAN /\ m_running' \in BOOLEAN
        /\ m_current' \in MomWork \union {None}
        /\ m_stage' \in {"idle", "posting", "preparing", "prompting", "finishing"}
    BY <1>8, <2>1 DEF Channel!End, Channel!Begin, MomTypes
  <2> QED BY <1>8, <2>2 DEF Channel!End, MomTypes
<1>9. CASE UNCHANGED momVars
  BY <1>9 DEF momVars, MomTypes
<1> QED BY <1>0, <1>3, <1>4, <1>5, <1>6, <1>7, <1>8, <1>9 DEF StepOf

LEMMA ChannelStep ==
  ASSUME MomAssumption, MomTypes, ChannelInv, [Channel!Next]_momVars
  PROVE  ChannelInv'
<1>0. StepOf
  BY StepIs
<1>1. m_queue \in Seq(FileEvents) /\ m_log \in Seq(MomMessages) /\ Len(m_queue) \in Nat /\ Len(m_log) \in Nat
  BY DEF MomTypes
<1>2. CASE \E m \in MomMessages : Channel!Mention(m) \/ Channel!Chatter(m) \/ Channel!Stop(m)
  <2>1. PICK m \in MomMessages : Channel!Mention(m) \/ Channel!Chatter(m) \/ Channel!Stop(m)
    BY <1>2
  <2>2. m_arrived' = m_arrived \union {m} /\ m \notin m_arrived /\ m_log' = Append(m_log, m)
    BY <2>1 DEF Channel!Mention, Channel!Chatter, Channel!Stop
  <2>3. \A i \in 1 .. Len(m_log') : m_log'[i] \in m_arrived'
    <3>1. /\ Len(m_log') = Len(m_log) + 1 /\ m_log'[Len(m_log) + 1] = m
          /\ \A i \in 1 .. Len(m_log) : m_log'[i] = m_log[i]
      BY <1>1, <2>2, QueueEnds
    <3>2. \A i \in 1 .. Len(m_log') : i \in 1 .. Len(m_log) \/ i = Len(m_log) + 1
      BY <1>1, <3>1
    <3> QED BY <2>2, <3>1, <3>2 DEF ChannelInv
  <2>4. CASE UNCHANGED <<m_queue, m_processing, m_running, m_current, m_stage>>
    BY <2>2, <2>3, <2>4 DEF ChannelInv
  <2>5. CASE ~m_running /\ Channel!Enqueue(m)
    <3>1. Channel!Begin(m) /\ m_queue' = m_queue /\ ~m_processing
      BY <2>5 DEF Channel!Enqueue, ChannelInv
    <3>2. m_queue = <<>> /\ Len(m_queue) = 0
      BY <3>1 DEF ChannelInv
    <3> QED BY <2>2, <2>3, <3>1, <3>2 DEF Channel!Begin, ChannelInv
  <2> QED
    BY <2>1, <2>4, <2>5 DEF Channel!Mention, Channel!Chatter, Channel!Stop, Channel!IsRunning,
       Channel!runVars
<1>3. CASE \E e \in FileEvents : Channel!Event(e)
  <2>1. PICK e \in FileEvents : Channel!Event(e)
    BY <1>3
  <2>2. m_arrived' = m_arrived \union {e} /\ e \notin m_arrived /\ m_log' = m_log
    BY <2>1 DEF Channel!Event
  <2>3. \A i \in 1 .. Len(m_log') : m_log'[i] \in m_arrived'
    BY <2>2 DEF ChannelInv
  <2>4. CASE UNCHANGED <<m_queue, m_processing, m_running, m_current, m_stage>>
    BY <2>2, <2>3, <2>4 DEF ChannelInv
  <2>5. CASE ~m_processing /\ Channel!Begin(e) /\ UNCHANGED m_queue
    <3>1. m_queue' = <<>> /\ Len(m_queue') = 0
      BY <2>5 DEF ChannelInv
    <3> QED BY <2>2, <2>3, <2>5, <3>1 DEF Channel!Begin, ChannelInv
  <2>6. CASE m_processing /\ m_queue' = Append(m_queue, e)
             /\ UNCHANGED <<m_processing, m_running, m_current, m_stage>>
    <3>1. /\ Len(m_queue') = Len(m_queue) + 1 /\ m_queue'[Len(m_queue) + 1] = e
          /\ \A i \in 1 .. Len(m_queue) : m_queue'[i] = m_queue[i]
      BY <1>1, <2>6, QueueEnds
    <3>2. \A i \in 1 .. Len(m_queue') : i \in 1 .. Len(m_queue) \/ i = Len(m_queue) + 1
      BY <1>1, <3>1
    <3>3. m_stage # "idle" /\ m_current \in m_arrived
      BY <2>6 DEF ChannelInv
    <3>4. \A i \in 1 .. Len(m_queue') : m_queue'[i] \in m_arrived' /\ m_queue'[i] # m_current'
      BY <2>2, <2>6, <3>1, <3>2, <3>3 DEF ChannelInv
    <3>5. \A i, j \in 1 .. Len(m_queue') : m_queue'[i] = m_queue'[j] => i = j
      BY <2>2, <3>1, <3>2 DEF ChannelInv
    <3> QED BY <2>2, <2>3, <2>6, <3>3, <3>4, <3>5 DEF ChannelInv
  <2> QED
    BY <2>1, <2>4, <2>5, <2>6 DEF Channel!Event, Channel!Enqueue, Channel!runVars
<1>4. CASE Channel!Synchronize \/ Channel!Prompt \/ Channel!PromptRejects \/ Channel!AgentEnds
  <2>1. UNCHANGED <<m_queue, m_processing, m_running, m_current, m_arrived, m_log>>
    BY <1>4 DEF Channel!Synchronize, Channel!Prompt, Channel!PromptRejects, Channel!AgentEnds
  <2>2. m_stage # "idle" /\ m_stage' # "idle"
    BY <1>4 DEF Channel!Synchronize, Channel!Prompt, Channel!PromptRejects, Channel!AgentEnds
  <2> QED BY <2>1, <2>2 DEF ChannelInv
<1>5. CASE Channel!End
  <2>1. m_arrived' = m_arrived /\ m_log' = m_log /\ m_stage = "finishing"
    BY <1>5 DEF Channel!End
  <2>2. CASE m_queue # <<>> /\ Channel!Begin(Head(m_queue)) /\ m_queue' = Tail(m_queue)
    <3>1. PICK x \in FileEvents : x = Head(m_queue)
      BY <1>1, <2>2
    <3>2. /\ Head(m_queue) = m_queue[1] /\ 1 \in 1 .. Len(m_queue)
          /\ \A i \in 1 .. Len(m_queue') :
               i + 1 \in 1 .. Len(m_queue) /\ m_queue'[i] = m_queue[i + 1]
      BY <1>1, <2>2, <3>1, QueueEnds
    <3>3. \A i \in 1 .. Len(m_queue') : m_queue'[i] \in m_arrived /\ m_queue'[i] # m_queue[1]
      <4>1. \A i \in 1 .. Len(m_queue') : i + 1 # 1
        OBVIOUS
      <4> QED BY <3>2, <4>1 DEF ChannelInv
    <3>4. \A i, j \in 1 .. Len(m_queue') : m_queue'[i] = m_queue'[j] => i = j
      <4>1. \A i, j \in 1 .. Len(m_queue') : i + 1 = j + 1 => i = j
        OBVIOUS
      <4> QED BY <3>2, <4>1 DEF ChannelInv
    <3>5. m_queue[1] \in m_arrived
      BY <3>2 DEF ChannelInv
    <3> QED BY <2>1, <2>2, <3>2, <3>3, <3>4, <3>5 DEF Channel!Begin, ChannelInv
  <2>3. CASE m_queue = <<>> /\ m_processing' = FALSE /\ m_running' = FALSE /\ m_stage' = "idle"
             /\ m_queue' = m_queue
    <3>1. m_queue' = <<>>
      BY <2>3
    <3>2. \A i \in 1 .. Len(m_queue') : FALSE
      BY <3>1
    <3>3. \A i \in 1 .. Len(m_log) : m_log'[i] \in m_arrived' /\ Len(m_log') = Len(m_log)
      BY <2>1 DEF ChannelInv
    <3> QED BY <2>1, <2>3, <3>1, <3>2, <3>3 DEF ChannelInv
  <2> QED BY <1>5, <2>2, <2>3 DEF Channel!End
<1>6. CASE UNCHANGED momVars
  BY <1>6 DEF momVars, ChannelInv
<1> QED BY <1>0, <1>2, <1>3, <1>4, <1>5, <1>6 DEF StepOf

LEMMA ContextStep ==
  ASSUME MomAssumption, MomTypes, ChannelInv, ContextInv, [Channel!Next]_momVars
  PROVE  ContextInv'
<1>0. StepOf
  BY StepIs
<1>1. m_queue \in Seq(FileEvents) /\ m_context \in Seq(MomTexts) /\ m_log \in Seq(MomMessages)
  BY DEF MomTypes
<1>2. Owned(m_context, m_arrived, Prompted)
  BY DEF ContextInv
\* Nothing but what has come in is to be prompted anew.
<1>3. ASSUME m_context' = m_context, m_synced' = m_synced, m_arrived \subseteq m_arrived',
             Prompted' \cap m_arrived \subseteq Prompted,
             m_stage' \in {"preparing", "prompting"} => m_stage' = m_stage /\ m_current' = m_current
      PROVE  ContextInv'
  <2>1. Owned(m_context, m_arrived', Prompted')
    <3> DEFINE more == m_arrived'
               later == Prompted'
    <3>1. m_arrived \subseteq more /\ later \cap m_arrived \subseteq Prompted
      BY <1>3
    <3> HIDE DEF more, later
    <3>2. Owned(m_context, more, later)
      BY <1>2, <3>1, OwnedLater
    <3> QED BY <3>2 DEF more, later
  <2>2. Owned(m_context, m_arrived, Prompted)'
    BY <1>3, <2>1 DEF Owned
  <2>3. /\ m_stage' = "preparing" =>
             \A m \in m_synced' \ {m_current'} : Channel!Text(m) \in Channel!ToSet(m_context')
        /\ m_stage' = "prompting" =>
             \A m \in m_synced' : Channel!Text(m) \in Channel!ToSet(m_context')
    BY <1>3 DEF ContextInv
  <2> QED BY <2>2, <2>3 DEF ContextInv
<1>4. CASE \E m \in MomMessages : Channel!Mention(m) \/ Channel!Chatter(m) \/ Channel!Stop(m)
  <2>1. PICK m \in MomMessages : Channel!Mention(m) \/ Channel!Chatter(m) \/ Channel!Stop(m)
    BY <1>4
  <2>2. /\ m_arrived' = m_arrived \union {m} /\ m \notin m_arrived
        /\ m_context' = m_context /\ m_synced' = m_synced
    BY <2>1 DEF Channel!Mention, Channel!Chatter, Channel!Stop
  <2>3. CASE UNCHANGED <<m_queue, m_current, m_stage>>
    <3>1. Prompted' = Prompted
      BY <2>3 DEF Prompted
    <3> QED BY <1>3, <2>2, <2>3, <3>1
  <2>4. CASE ~m_running /\ Channel!Enqueue(m)
    <3>1. Channel!Begin(m) /\ m_queue' = m_queue
      BY <2>4 DEF Channel!Enqueue, ChannelInv
    <3>2. Prompted' \subseteq Prompted \union {m} /\ m_stage' = "posting"
      BY <3>1 DEF Prompted, Channel!Begin
    <3> QED BY <1>3, <2>2, <3>2
  <2> QED
    BY <2>1, <2>3, <2>4 DEF Channel!Mention, Channel!Chatter, Channel!Stop, Channel!IsRunning,
       Channel!runVars
<1>5. CASE \E e \in FileEvents : Channel!Event(e)
  <2>1. PICK e \in FileEvents : Channel!Event(e)
    BY <1>5
  <2>2. /\ m_arrived' = m_arrived \union {e} /\ e \notin m_arrived
        /\ m_context' = m_context /\ m_synced' = m_synced
    BY <2>1 DEF Channel!Event
  <2>3. CASE UNCHANGED <<m_queue, m_current, m_stage>>
    <3>1. Prompted' = Prompted
      BY <2>3 DEF Prompted
    <3> QED BY <1>3, <2>2, <2>3, <3>1
  <2>4. CASE Channel!Begin(e) /\ UNCHANGED m_queue
    <3>1. Prompted' \subseteq Prompted \union {e} /\ m_stage' = "posting"
      BY <2>4 DEF Prompted, Channel!Begin
    <3> QED BY <1>3, <2>2, <3>1
  <2>5. CASE m_queue' = Append(m_queue, e) /\ UNCHANGED <<m_current, m_stage>>
    <3>1. Channel!ToSet(m_queue') = Channel!ToSet(m_queue) \union {e}
      BY <1>1, <2>5, QueueEnds
    <3>2. Prompted' \subseteq Prompted \union {e}
      BY <2>5, <3>1 DEF Prompted
    <3> QED BY <1>3, <2>2, <2>5, <3>2
  <2> QED
    BY <2>1, <2>3, <2>4, <2>5 DEF Channel!Event, Channel!Enqueue, Channel!runVars
<1>6. CASE Channel!Synchronize
  <2>1. /\ m_stage = "posting" /\ m_stage' = "preparing" /\ m_context' = Channel!Synchronized
        /\ m_synced' = Channel!ToSet(m_log)
        /\ UNCHANGED <<m_queue, m_current, m_arrived>>
    BY <1>6 DEF Channel!Synchronize
  <2>2. /\ Owned(Channel!Synchronized, m_arrived, Prompted)
        /\ \A m \in Channel!ToSet(m_log) \ {m_current} :
             Channel!Text(m) \in Channel!ToSet(Channel!Synchronized)
    BY <1>2, <2>1, SynchronizedIs
  <2>3. Prompted' = Prompted
    BY <2>1 DEF Prompted
  <2>4. Owned(m_context, m_arrived, Prompted)'
    BY <2>1, <2>2, <2>3 DEF Owned
  <2> QED BY <2>1, <2>2, <2>4 DEF ContextInv
<1>7. CASE Channel!Prompt
  <2>1. /\ m_stage = "preparing" /\ m_stage' = "prompting"
        /\ m_context' = Append(m_context, Channel!Text(m_current))
        /\ UNCHANGED <<m_queue, m_current, m_arrived, m_synced>>
    BY <1>7 DEF Channel!Prompt
  <2>2. m_current \in m_arrived /\ m_current \in MomWork /\ m_current \in Prompted
    BY <2>1 DEF ChannelInv, MomTypes, Prompted
  <2>3. Channel!ToSet(m_queue) \subseteq Prompted /\ m_current \notin Channel!ToSet(m_queue)
    BY <1>1, ChannelSets DEF Prompted, ChannelInv
  <2>4. Channel!Text(m_current) \in MomTexts
    BY <2>2, TextType
  <2>5. Owned(Append(m_context, Channel!Text(m_current)), m_arrived, Channel!ToSet(m_queue))
    BY <1>1, <1>2, <2>2, <2>3, <2>4, OwnedAppend
  <2>6. Prompted' = Channel!ToSet(m_queue)
    BY <2>1 DEF Prompted
  <2>7. Owned(m_context, m_arrived, Prompted)'
    BY <2>1, <2>5, <2>6 DEF Owned
  <2>8. Channel!ToSet(m_context') = Channel!ToSet(m_context) \union {Channel!Text(m_current)}
    BY <1>1, <2>1, <2>4, QueueEnds
  <2> QED BY <2>1, <2>7, <2>8 DEF ContextInv
<1>8. CASE Channel!PromptRejects \/ Channel!AgentEnds
  <2>1. /\ m_stage' = "finishing"
        /\ UNCHANGED <<m_queue, m_current, m_arrived, m_synced, m_context>>
    BY <1>8 DEF Channel!PromptRejects, Channel!AgentEnds
  <2>2. Prompted' \subseteq Prompted
    BY <2>1 DEF Prompted
  <2> QED BY <1>3, <2>1, <2>2
<1>9. CASE Channel!End
  <2>1. UNCHANGED <<m_context, m_arrived, m_synced>>
    BY <1>9 DEF Channel!End
  <2>2. CASE m_queue # <<>> /\ Channel!Begin(Head(m_queue)) /\ m_queue' = Tail(m_queue)
    <3>1. PICK x \in FileEvents : x = Head(m_queue)
      BY <1>1, <2>2
    <3>2. /\ Head(m_queue) = m_queue[1] /\ 1 \in 1 .. Len(m_queue) /\ m_queue' \in Seq(FileEvents)
          /\ \A i \in 1 .. Len(m_queue') :
               i + 1 \in 1 .. Len(m_queue) /\ m_queue'[i] = m_queue[i + 1]
      BY <1>1, <2>2, <3>1, QueueEnds
    <3>3. Channel!ToSet(m_queue') \subseteq Channel!ToSet(m_queue)
          /\ m_queue[1] \in Channel!ToSet(m_queue)
      BY <1>1, <3>2, ChannelSets
    <3>4. m_stage' = "posting" /\ m_current' = m_queue[1]
      BY <2>2, <3>2 DEF Channel!Begin
    <3>5. Prompted' \subseteq Prompted
      BY <3>3, <3>4 DEF Prompted
    <3> QED BY <1>3, <2>1, <3>4, <3>5
  <2>3. CASE m_queue' = m_queue /\ m_stage' = "idle"
    <3>1. Prompted' \subseteq Prompted
      BY <2>3 DEF Prompted
    <3> QED BY <1>3, <2>1, <2>3, <3>1
  <2> QED BY <1>9, <2>2, <2>3 DEF Channel!End
<1>10. CASE UNCHANGED momVars
  <2>1. UNCHANGED <<m_queue, m_current, m_stage, m_context, m_arrived, m_synced>>
    BY <1>10 DEF momVars
  <2>2. Prompted' = Prompted
    BY <2>1 DEF Prompted
  <2> QED BY <1>3, <2>1, <2>2
<1> QED BY <1>0, <1>4, <1>5, <1>6, <1>7, <1>8, <1>9, <1>10 DEF StepOf

\* The module of the channel counts as this one does.
LEMMA SameCount == \A S : Channel!Cardinality(S) = Cardinality(S)
BY Zenon DEF Channel!Cardinality, Cardinality

\* A text is in the context at most as often as something with that text has arrived.
LEMMA TimesBound ==
  ASSUME MomTypes, Owned(m_context, m_arrived, Prompted), NEW m
  PROVE  Channel!Times(Channel!Text(m)) <=
           Cardinality({n \in m_arrived : Channel!Text(n) = Channel!Text(m)})
<1> DEFINE t == Channel!Text(m)
           places == {i \in DOMAIN m_context : m_context[i] = t}
           come == {n \in m_arrived : Channel!Text(n) = t}
<1>1. PICK owner \in [1 .. Len(m_context) -> m_arrived] :
        /\ \A i, j \in 1 .. Len(m_context) : owner[i] = owner[j] => i = j
        /\ \A i \in 1 .. Len(m_context) : Channel!Text(owner[i]) = m_context[i]
  BY DEF Owned
<1>2. Len(m_context) \in Nat /\ DOMAIN m_context = 1 .. Len(m_context)
  BY DEF MomTypes
<1>3. IsFiniteSet(come)
  <2>1. come \subseteq m_arrived /\ IsFiniteSet(m_arrived)
    BY DEF MomTypes
  <2> QED BY <2>1, FS_Subset
<1> DEFINE f == [i \in places |-> owner[i]]
<1>4. \A i \in places : i \in 1 .. Len(m_context) /\ owner[i] \in come
  BY <1>1, <1>2
<1> HIDE DEF come, places
<1>5. f \in [places -> come] /\ \A i, j \in places : f[i] = f[j] => i = j
  BY <1>1, <1>4
<1> HIDE DEF f
<1>6. f \in Injection(places, come)
  BY <1>5 DEF Injection, IsInjective
<1>7. Cardinality(places) <= Cardinality(come)
  BY <1>3, <1>6, FS_Injection
<1> QED BY <1>7, SameCount DEF places, come, Channel!Times

----------------------------------------------------------------------------
(* Messages that wait for the agent *)

\* A set of numbers that is not empty has a least one.
LEMMA LeastIs ==
  ASSUME NEW S, S \subseteq Nat, S # {}
  PROVE  Waiting!Min(S) \in S
<1>1. \E x \in S : \A y \in S : x <= y
  <2> SUFFICES ASSUME \A x \in S : \E y \in S : y < x PROVE FALSE
    OBVIOUS
  <2> DEFINE T == {n \in Nat : \A k \in S : n < k}
  <2>1. 0 \in T
    OBVIOUS
  <2>2. ASSUME NEW n \in Nat, n \in T PROVE n + 1 \in T
    <3>1. n + 1 \notin S
      BY <2>2
    <3> QED BY <2>2, <3>1
  <2>3. \A n \in Nat : n \in T
    <3> HIDE DEF T
    <3> QED BY <2>1, <2>2, Induct
  <2>4. PICK k \in S : k \in Nat
    OBVIOUS
  <2>5. k \in T
    BY <2>3, <2>4
  <2> QED BY <2>4, <2>5
<1> QED BY <1>1 DEF Waiting!Min

LEMMA WaitingCounts == \A S : Waiting!Cardinality(S) = Cardinality(S)
BY Zenon DEF Waiting!Cardinality, Cardinality

LEMMA CountType ==
  ASSUME NEW X, NEW s \in Seq(X), NEW t
  PROVE  /\ IsFiniteSet({i \in DOMAIN s : s[i] = t}) /\ Waiting!Count(s, t) \in Nat
         /\ Waiting!Count(s, t) = Cardinality({i \in DOMAIN s : s[i] = t})
         /\ Waiting!Count(s, t) = 0 <=> \A i \in 1 .. Len(s) : s[i] # t
<1> DEFINE places == {i \in DOMAIN s : s[i] = t}
<1>1. places \subseteq 1 .. Len(s) /\ Len(s) \in Nat
  OBVIOUS
<1>2. IsFiniteSet(places)
  BY <1>1, FS_Interval, FS_Subset
<1>3. Waiting!Count(s, t) = Cardinality(places)
  BY WaitingCounts DEF Waiting!Count
<1>4. places = {} <=> \A i \in 1 .. Len(s) : s[i] # t
  OBVIOUS
<1> HIDE DEF places
<1>5. Cardinality(places) \in Nat /\ (Cardinality(places) = 0 <=> places = {})
  BY <1>2, FS_CardinalityType, FS_EmptySet
<1> QED BY <1>2, <1>3, <1>4, <1>5 DEF places

LEMMA CountJoin ==
  ASSUME NEW X, NEW s \in Seq(X), NEW r \in Seq(X), NEW t
  PROVE  Waiting!Count(s \o r, t) = Waiting!Count(s, t) + Waiting!Count(r, t)
<1> DEFINE A == {i \in DOMAIN s : s[i] = t}
           C == {i \in DOMAIN r : r[i] = t}
           B == {j \in Len(s) + 1 .. Len(s) + Len(r) : r[j - Len(s)] = t}
           f == [i \in C |-> Len(s) + i]
           u == s \o r
           J == {i \in DOMAIN u : u[i] = t}
<1>0. /\ Len(s) \in Nat /\ Len(r) \in Nat /\ DOMAIN s = 1 .. Len(s) /\ DOMAIN r = 1 .. Len(r)
      /\ u \in Seq(X) /\ Len(u) = Len(s) + Len(r)
      /\ DOMAIN u = 1 .. Len(s) + Len(r)
      /\ \A i \in 1 .. Len(s) : u[i] = s[i]
      /\ \A i \in Len(s) + 1 .. Len(s) + Len(r) : u[i] = r[i - Len(s)]
  OBVIOUS
<1>00. u \in Seq(X)
  BY <1>0
<1> HIDE DEF u
<1>1. IsFiniteSet(A) /\ IsFiniteSet(C) /\ IsFiniteSet(J)
  <2> HIDE DEF A, C, J
  <2>1. IsFiniteSet(A)
    BY CountType DEF A
  <2>2. IsFiniteSet(C)
    BY CountType DEF C
  <2>3. IsFiniteSet(J)
    BY <1>00, CountType, Zenon DEF J
  <2> QED BY <2>1, <2>2, <2>3
<1>2. f \in [C -> B] /\ (\A i, j \in C : f[i] = f[j] => i = j) /\ \A j \in B : \E i \in C : f[i] = j
  <2>1. \A i \in C : Len(s) + i \in B
    BY <1>0
  <2>2. \A j \in B : j - Len(s) \in C /\ Len(s) + (j - Len(s)) = j
    BY <1>0
  <2>3. \A i, j \in C : Len(s) + i = Len(s) + j => i = j
    BY <1>0
  <2> HIDE DEF B, C
  <2> QED BY <2>1, <2>2, <2>3
<1>3. J = A \union B /\ A \cap B = {}
  BY <1>0
<1> HIDE DEF A, B, C, J, f
<1>4. IsFiniteSet(B) /\ Cardinality(B) = Cardinality(C)
  <2>1. f \in Surjection(C, B) /\ f \in Injection(C, B)
    BY <1>2 DEF Surjection, Injection, IsInjective
  <2> QED BY <1>1, <2>1, FS_Surjection
<1>5. /\ Cardinality(A) \in Nat /\ Cardinality(B) \in Nat
      /\ Cardinality(J) = Cardinality(A) + Cardinality(B) - Cardinality({})
  BY <1>1, <1>3, <1>4, FS_Union, FS_CardinalityType
<1>6. Cardinality({}) = 0
  BY FS_EmptySet
<1>7. Cardinality(J) = Cardinality(A) + Cardinality(C)
  BY <1>4, <1>5, <1>6
<1>8. Waiting!Count(s, t) = Cardinality(A) /\ Waiting!Count(r, t) = Cardinality(C)
  BY CountType DEF A, C
<1>9. Waiting!Count(u, t) = Cardinality(J)
  BY <1>00, CountType, Zenon DEF J
<1> QED BY <1>7, <1>8, <1>9 DEF u

LEMMA CountAppend ==
  ASSUME NEW X, NEW s \in Seq(X), NEW x \in X, NEW t
  PROVE  Waiting!Count(Append(s, x), t) = Waiting!Count(s, t) + (IF x = t THEN 1 ELSE 0)
<1> DEFINE one == <<x>>
<1>0. one \in Seq(X)
  OBVIOUS
<1>1. one \in Seq(X) /\ Append(s, x) = s \o one /\ Len(one) = 1 /\ one[1] = x /\ DOMAIN one = {1}
  OBVIOUS
<1>2. {i \in DOMAIN one : one[i] = t} = IF x = t THEN {1} ELSE {}
  BY <1>1
<1> HIDE DEF one
<1>3. Waiting!Count(one, t) = IF x = t THEN 1 ELSE 0
  <2> HIDE DEF one
  <2> DEFINE S == {i \in DOMAIN one : one[i] = t}
  <2>1. Waiting!Count(one, t) = Cardinality(S)
    BY <1>0, CountType, Zenon DEF S
  <2>2. S = IF x = t THEN {1} ELSE {}
    BY <1>2
  <2> HIDE DEF S
  <2>3. Cardinality({1}) = 1 /\ Cardinality({}) = 0
    BY FS_Singleton, FS_EmptySet
  <2> QED BY <2>1, <2>2, <2>3
<1> QED BY <1>1, <1>3, CountJoin

LEMMA WithoutIs ==
  ASSUME NEW X, NEW s \in Seq(X), NEW t
  PROVE  Waiting!Without(s, t) =
           IF \E i \in 1 .. Len(s) : s[i] = t
           THEN Waiting!RemoveAt(s, Waiting!Min({i \in 1 .. Len(s) : s[i] = t}))
           ELSE s
<1>1. CASE ~\E i \in 1 .. Len(s) : s[i] = t
  <2>1. {i \in 1 .. Len(s) : s[i] = t} = {}
    BY <1>1
  <2> QED BY <1>1, <2>1 DEF Waiting!Without, Waiting!SelectInSeq
<1>2. CASE \E i \in 1 .. Len(s) : s[i] = t
  <2> DEFINE S == {i \in 1 .. Len(s) : s[i] = t}
  <2>1. S # {} /\ S \subseteq Nat
    BY <1>2
  <2>2. Waiting!Min(S) \in S
    <3> HIDE DEF S
    <3> QED BY <2>1, LeastIs
  <2> QED BY <1>2, <2>1, <2>2 DEF Waiting!Without, Waiting!SelectInSeq
<1> QED BY <1>1, <1>2

\* The text that is taken is one of the list's, and the others stay.
LEMMA CountWithout ==
  ASSUME NEW X, NEW s \in Seq(X), NEW x
  PROVE  /\ Waiting!Without(s, x) \in Seq(X)
         /\ Waiting!Contains(s, x) <=> Waiting!Count(s, x) # 0
         /\ ~Waiting!Contains(s, x) => Waiting!Without(s, x) = s
         /\ Waiting!Contains(s, x) => \A t :
              Waiting!Count(Waiting!Without(s, x), t) =
                Waiting!Count(s, t) - (IF x = t THEN 1 ELSE 0)
<1>1. Waiting!Contains(s, x) <=> Waiting!Count(s, x) # 0
  BY CountType DEF Waiting!Contains
<1>2. ~Waiting!Contains(s, x) => Waiting!Without(s, x) = s
  BY WithoutIs DEF Waiting!Contains
<1>3. CASE Waiting!Contains(s, x)
  <2> DEFINE S == {i \in 1 .. Len(s) : s[i] = x}
             k == Waiting!Min(S)
             a == SubSeq(s, 1, k - 1)
             b == SubSeq(s, k + 1, Len(s))
  <2>1. S # {} /\ S \subseteq Nat
    BY <1>3 DEF Waiting!Contains
  <2>2. k \in S
    <3> HIDE DEF S
    <3> QED BY <2>1, LeastIs
  <2>3. Waiting!Without(s, x) = a \o b
    BY <1>3, WithoutIs DEF Waiting!Contains, Waiting!RemoveAt
  <2>4. k \in 1 .. Len(s) /\ s[k] = x /\ Len(s) \in Nat
    BY <2>2
  <2> HIDE DEF k, S
  <2>5. /\ a \in Seq(X) /\ Len(a) = k - 1 /\ \A i \in 1 .. k - 1 : a[i] = s[i]
    BY <2>4
  <2>6. /\ b \in Seq(X) /\ Len(b) = Len(s) - k /\ \A i \in 1 .. Len(s) - k : b[i] = s[k + i]
    BY <2>4
  <2> HIDE DEF a, b
  <2>7. s = Append(a, x) \o b
    <3> DEFINE c == Append(a, x)
               d == c \o b
    <3>1. c \in Seq(X) /\ Len(c) = k /\ c[k] = x /\ \A i \in 1 .. k - 1 : c[i] = s[i]
      BY <2>4, <2>5
    <3> HIDE DEF c
    <3>2. d \in Seq(X) /\ Len(d) = Len(s) /\ (\A i \in 1 .. k : d[i] = c[i])
          /\ \A i \in k + 1 .. Len(s) : d[i] = b[i - k]
      <4>1. /\ d \in Seq(X) /\ Len(d) = Len(c) + Len(b)
            /\ \A i \in 1 .. Len(c) + Len(b) : d[i] = IF i <= Len(c) THEN c[i] ELSE b[i - Len(c)]
        BY <2>6, <3>1, ConcatProperties
      <4> HIDE DEF d
      <4>2. Len(c) + Len(b) = Len(s) /\ Len(c) = k
        BY <2>4, <2>6, <3>1
      <4> QED BY <2>4, <4>1, <4>2
    <3>3. \A i \in 1 .. Len(s) : i \in 1 .. k - 1 \/ i = k \/ (i \in k + 1 .. Len(s)
             /\ i - k \in 1 .. Len(s) - k /\ k + (i - k) = i)
      BY <2>4
    <3> HIDE DEF d
    <3>4. \A i \in 1 .. Len(s) : d[i] = s[i]
      BY <2>4, <2>6, <3>1, <3>2, <3>3
    <3>5. d = s
      BY <3>2, <3>4
    <3> QED BY <3>5 DEF c, d
  <2>8. a \o b \in Seq(X) /\ Append(a, x) \in Seq(X) /\ x \in X
    BY <2>4, <2>5, <2>6
  <2>9. ASSUME NEW t PROVE
          Waiting!Count(a \o b, t) = Waiting!Count(s, t) - (IF x = t THEN 1 ELSE 0)
    <3>1. Waiting!Count(s, t) = Waiting!Count(Append(a, x), t) + Waiting!Count(b, t)
      BY <2>6, <2>7, <2>8, CountJoin
    <3>2. Waiting!Count(Append(a, x), t) = Waiting!Count(a, t) + (IF x = t THEN 1 ELSE 0)
      BY <2>5, <2>8, CountAppend
    <3>3. Waiting!Count(a \o b, t) = Waiting!Count(a, t) + Waiting!Count(b, t)
      BY <2>5, <2>6, CountJoin
    <3>4. Waiting!Count(a, t) \in Nat /\ Waiting!Count(b, t) \in Nat
      BY <2>5, <2>6, CountType
    <3> QED BY <3>1, <3>2, <3>3, <3>4
  <2> QED BY <1>1, <1>3, <2>3, <2>8, <2>9
<1> QED BY <1>1, <1>2, <1>3

----------------------------------------------------------------------------
(* Where a message is *)

\* The user's messages are finitely many and none of them is an extension's.
PendingAssumption == IsFiniteSet(Typed) /\ Typed \cap Notices = {} /\ RunFaults \in Nat

PendingWork == Typed \union Notices
PendingTexts == {"a", "b", ""}

PendingTypes ==
  /\ p_text \in [Typed -> PendingTexts]
  /\ p_queued \in [{"steer", "followUp"} -> Seq(PendingWork)]
  /\ p_lists \in [{"steer", "followUp"} -> Seq(PendingTexts)]
  /\ p_nextTurn \in Seq(Notices) /\ p_mode \in {"one-at-a-time", "all"} /\ p_running \in BOOLEAN
  /\ p_announcing \in Seq(PendingWork) /\ p_announced \in Seq(PendingWork)
  /\ p_events \in Seq(Typed) /\ p_connection \in {"on", "aborting", "off"}
  /\ p_prompts \in [Typed -> {"none", "asked", "checking", "assembled", "done"}]
  /\ p_taken \in [Typed -> Seq(PendingWork)]
  /\ p_sent \subseteq PendingWork /\ p_faults \in 0 .. RunFaults
  /\ p_shown \subseteq Typed /\ p_restored \in Seq(PendingTexts) /\ p_mistaken \in BOOLEAN

SetIn(s) == Waiting!ToSet(s)
OnceIn(s) == \A i, j \in 1 .. Len(s) : s[i] = s[j] => i = j

LEMMA SetIs ==
  ASSUME NEW X, NEW s \in Seq(X)
  PROVE  /\ Len(s) \in Nat /\ \A x : x \in SetIn(s) <=> \E i \in 1 .. Len(s) : s[i] = x
         /\ SetIn(s) \subseteq X
<1>1. DOMAIN s = 1 .. Len(s) /\ Len(s) \in Nat /\ \A i \in 1 .. Len(s) : s[i] \in X
  OBVIOUS
<1> QED BY <1>1 DEF SetIn, Waiting!ToSet

LEMMA NoneIn ==
  /\ SetIn(<<>>) = {} /\ OnceIn(<<>>) /\ \A S : <<>> \in Seq(S)
<1>1. (\A S : <<>> \in Seq(S)) /\ DOMAIN <<>> = {} /\ Len(<<>>) = 0
  OBVIOUS
<1>2. OnceIn(<<>>)
  BY <1>1 DEF OnceIn
<1>3. SetIn(<<>>) = {}
  BY <1>1 DEF SetIn, Waiting!ToSet
<1> QED BY <1>1, <1>2, <1>3

LEMMA OneIn ==
  ASSUME NEW X, NEW x \in X
  PROVE  <<x>> \in Seq(X) /\ SetIn(<<x>>) = {x} /\ OnceIn(<<x>>)
<1>1. <<x>> \in Seq(X) /\ DOMAIN <<x>> = {1} /\ Len(<<x>>) = 1 /\ <<x>>[1] = x
  OBVIOUS
<1>2. OnceIn(<<x>>)
  BY <1>1 DEF OnceIn
<1>3. SetIn(<<x>>) = {x}
  BY <1>1 DEF SetIn, Waiting!ToSet
<1> QED BY <1>1, <1>2, <1>3

LEMMA AppendIn ==
  ASSUME NEW X, NEW s \in Seq(X), NEW x \in X
  PROVE  /\ Append(s, x) \in Seq(X) /\ SetIn(Append(s, x)) = SetIn(s) \union {x}
         /\ OnceIn(s) /\ x \notin SetIn(s) => OnceIn(Append(s, x))
<1> DEFINE t == Append(s, x)
<1>1. /\ t \in Seq(X) /\ Len(t) = Len(s) + 1 /\ t[Len(s) + 1] = x /\ Len(s) \in Nat
      /\ \A i \in 1 .. Len(s) : t[i] = s[i]
  OBVIOUS
<1> HIDE DEF t
<1>2. /\ \A i \in 1 .. Len(t) : i \in 1 .. Len(s) \/ i = Len(s) + 1
      /\ Len(s) + 1 \in 1 .. Len(t) /\ \A i \in 1 .. Len(s) : i \in 1 .. Len(t)
  BY <1>1
<1>3. ASSUME NEW y PROVE y \in SetIn(t) <=> y \in SetIn(s) \union {x}
  BY <1>1, <1>2, SetIs
<1>4. OnceIn(s) /\ x \notin SetIn(s) => OnceIn(t)
  BY <1>1, <1>2, SetIs DEF OnceIn
<1> QED BY <1>1, <1>3, <1>4 DEF t

LEMMA TailIn ==
  ASSUME NEW X, NEW s \in Seq(X), s # <<>>
  PROVE  /\ Head(s) \in X /\ Head(s) \in SetIn(s) /\ Tail(s) \in Seq(X)
         /\ SetIn(Tail(s)) \subseteq SetIn(s) /\ SetIn(s) = SetIn(Tail(s)) \union {Head(s)}
         /\ OnceIn(s) => SetIn(Tail(s)) = SetIn(s) \ {Head(s)} /\ OnceIn(Tail(s))
<1> DEFINE t == Tail(s)
           x == Head(s)
<1>1. /\ t \in Seq(X) /\ Len(t) = Len(s) - 1 /\ s[1] = x /\ Len(s) \in Nat /\ Len(s) >= 1 /\ x \in X
      /\ \A i \in 1 .. Len(t) : t[i] = s[i + 1]
  OBVIOUS
<1> HIDE DEF t, x
<1>2. /\ \A i \in 1 .. Len(s) : i = 1 \/ (i - 1 \in 1 .. Len(t) /\ (i - 1) + 1 = i)
      /\ 1 \in 1 .. Len(s) /\ \A i \in 1 .. Len(t) : i + 1 \in 1 .. Len(s) /\ i + 1 # 1
  BY <1>1
<1>3. ASSUME NEW y PROVE y \in SetIn(s) <=> y \in SetIn(t) \union {x}
  <2>1. y \in SetIn(s) <=> \E i \in 1 .. Len(s) : s[i] = y
    BY SetIs
  <2>2. y \in SetIn(t) <=> \E i \in 1 .. Len(t) : t[i] = y
    BY <1>1, SetIs
  <2> QED BY <1>1, <1>2, <2>1, <2>2
<1>4. ASSUME OnceIn(s) PROVE x \notin SetIn(t) /\ OnceIn(t)
  <2>1. x \in SetIn(t) <=> \E i \in 1 .. Len(t) : t[i] = x
    BY <1>1, SetIs
  <2>2. OnceIn(t)
    <3>1. \A i, j \in 1 .. Len(t) : i + 1 = j + 1 => i = j
      OBVIOUS
    <3> QED BY <1>1, <1>2, <1>4, <3>1 DEF OnceIn
  <2> QED BY <1>1, <1>2, <1>4, <2>1, <2>2 DEF OnceIn
<1> QED BY <1>1, <1>3, <1>4 DEF t, x

LEMMA ConsIn ==
  ASSUME NEW X, NEW s \in Seq(X), NEW x \in X
  PROVE  /\ <<x>> \o s \in Seq(X) /\ SetIn(<<x>> \o s) = SetIn(s) \union {x}
         /\ OnceIn(s) /\ x \notin SetIn(s) => OnceIn(<<x>> \o s)
<1> DEFINE t == <<x>> \o s
<1>1. /\ t \in Seq(X) /\ Len(t) = Len(s) + 1 /\ t[1] = x /\ Len(s) \in Nat
      /\ \A i \in 1 .. Len(s) : t[i + 1] = s[i]
  OBVIOUS
<1> HIDE DEF t
<1>2. /\ \A i \in 1 .. Len(t) : i = 1 \/ (i - 1 \in 1 .. Len(s) /\ (i - 1) + 1 = i)
      /\ 1 \in 1 .. Len(t) /\ \A i \in 1 .. Len(s) : i + 1 \in 1 .. Len(t)
  BY <1>1
<1>3. ASSUME NEW y PROVE y \in SetIn(t) <=> y \in SetIn(s) \union {x}
  <2>1. y \in SetIn(s) <=> \E i \in 1 .. Len(s) : s[i] = y
    BY SetIs
  <2>2. y \in SetIn(t) <=> \E i \in 1 .. Len(t) : t[i] = y
    BY <1>1, SetIs
  <2> QED BY <1>1, <1>2, <2>1, <2>2
<1>4. ASSUME OnceIn(s), x \notin SetIn(s) PROVE OnceIn(t)
  <2>1. \A i \in 1 .. Len(s) : s[i] # x
    BY <1>4, SetIs
  <2>2. \A i \in 1 .. Len(t) : i = 1 \/ (i - 1 \in 1 .. Len(s) /\ t[i] = s[i - 1])
    BY <1>1, <1>2
  <2>3. \A i, j \in 1 .. Len(t) : i - 1 = j - 1 => i = j
    BY <1>1
  <2> SUFFICES ASSUME NEW i \in 1 .. Len(t), NEW j \in 1 .. Len(t), t[i] = t[j] PROVE i = j
    BY DEF OnceIn
  <2>4. CASE i = 1 \/ j = 1
    BY <1>1, <2>1, <2>2, <2>4
  <2>5. CASE i # 1 /\ j # 1
    <3>1. i - 1 \in 1 .. Len(s) /\ j - 1 \in 1 .. Len(s) /\ s[i - 1] = s[j - 1]
      BY <2>2, <2>5
    <3>2. i - 1 = j - 1
      BY <1>4, <3>1 DEF OnceIn
    <3> QED BY <2>3, <3>2
  <2> QED BY <2>4, <2>5
<1> QED BY <1>1, <1>3, <1>4 DEF t

\* What a poll takes and leaves.
LEMMA DrainedIs ==
  ASSUME NEW q \in Seq(PendingWork), q # <<>>, OnceIn(q), p_mode \in {"one-at-a-time", "all"}
  PROVE  /\ Waiting!Drained(q) \in Seq(PendingWork) /\ Waiting!Left(q) \in Seq(PendingWork)
         /\ SetIn(Waiting!Drained(q)) \subseteq SetIn(q) /\ OnceIn(Waiting!Drained(q))
         /\ SetIn(Waiting!Left(q)) = SetIn(q) \ SetIn(Waiting!Drained(q))
         /\ OnceIn(Waiting!Left(q)) /\ Waiting!Drained(q) # <<>>
<1>1. CASE p_mode = "all"
  <2>1. Waiting!Drained(q) = q /\ Waiting!Left(q) = <<>>
    BY <1>1 DEF Waiting!Drained, Waiting!Left
  <2>2. SetIn(<<>>) = SetIn(q) \ SetIn(q)
    BY NoneIn
  <2> QED BY <2>1, <2>2, NoneIn
<1>2. CASE p_mode = "one-at-a-time"
  <2>1. Waiting!Drained(q) = <<Head(q)>> /\ Waiting!Left(q) = Tail(q)
    <3> DEFINE t == SubSeq(q, 1, 1)
    <3>0. Len(q) \in Nat /\ Len(q) >= 1 /\ Head(q) = q[1]
      OBVIOUS
    <3>1. t = <<Head(q)>>
      <4>1. t \in Seq(PendingWork) /\ Len(t) = 1 /\ t[1] = q[1]
        BY <3>0
      <4> HIDE DEF t
      <4> QED BY <3>0, <4>1
    <3> QED BY <1>2, <3>1 DEF Waiting!Drained, Waiting!Left
  <2>2. Head(q) \in PendingWork /\ <<Head(q)>> # <<>>
    BY TailIn
  <2>3. SetIn(<<Head(q)>>) = {Head(q)} /\ OnceIn(<<Head(q)>>) /\ <<Head(q)>> \in Seq(PendingWork)
    BY <2>2, OneIn
  <2> QED BY <2>1, <2>2, <2>3, TailIn
<1> QED BY <1>1, <1>2

\* The nine places of InOnePlace, as sets.
Taking == UNION {SetIn(p_taken[u]) : u \in Typed}
Asking == {u \in Typed : p_prompts[u] \in {"asked", "checking"}}
Spots == <<Waiting!InQueues, SetIn(p_nextTurn), Taking, Asking, SetIn(p_announcing),
           SetIn(p_announced), p_cleared, p_dropped, p_refused>>

\* What was sent is in just one of them.
Apart(P, all) ==
  /\ \A i, j \in 1 .. 9 : i # j => P[i] \cap P[j] = {}
  /\ \A m : m \in all <=> \E i \in 1 .. 9 : m \in P[i]

\* Messages S go from place i to place j, 0 being the outside.
Moved(P, Q, all, i, S, j) ==
  /\ i \in 0 .. 9 /\ j \in 1 .. 9 /\ i # j
  /\ IF i = 0 THEN S \cap all = {} ELSE S \subseteq P[i]
  /\ \A k \in 1 .. 9 :
       Q[k] = IF k = j THEN P[k] \union S ELSE IF k = i THEN P[k] \ S ELSE P[k]

LEMMA MovedApart ==
  ASSUME NEW P, NEW Q, NEW all, NEW i, NEW S, NEW j, Apart(P, all), Moved(P, Q, all, i, S, j)
  PROVE  Apart(Q, all \union S)
<1> USE DEF Moved
<1>1. \A k, l \in 1 .. 9 : k # l => Q[k] \cap Q[l] = {}
  <2> SUFFICES ASSUME NEW k \in 1 .. 9, NEW l \in 1 .. 9, k # l, NEW m, m \in Q[k], m \in Q[l]
               PROVE  FALSE
    OBVIOUS
  <2>1. \A n \in 1 .. 9 : m \in Q[n] => m \in P[n] \/ (n = j /\ m \in S)
    OBVIOUS
  <2>2. ~(m \in P[k] /\ m \in P[l])
    BY DEF Apart
  <2>3. m \in S
    BY <2>1, <2>2
  <2>4. \A n \in 1 .. 9 : m \in P[n] => n = i
    BY <2>3 DEF Apart
  <2> QED BY <2>1, <2>3, <2>4
<1>2. ASSUME NEW m PROVE m \in all \union S <=> \E k \in 1 .. 9 : m \in Q[k]
  <2>1. CASE m \in S
    BY <2>1
  <2>2. CASE m \notin S
    <3>1. \A k \in 1 .. 9 : m \in Q[k] <=> m \in P[k]
      BY <2>2
    <3> QED BY <2>2, <3>1 DEF Apart
  <2> QED BY <2>1, <2>2
<1> QED BY <1>1, <1>2 DEF Apart

LEMMA SpotsAre ==
  /\ Spots[1] = Waiting!InQueues /\ Spots[2] = SetIn(p_nextTurn) /\ Spots[3] = Taking
  /\ Spots[4] = Asking /\ Spots[5] = SetIn(p_announcing) /\ Spots[6] = SetIn(p_announced)
  /\ Spots[7] = p_cleared /\ Spots[8] = p_dropped /\ Spots[9] = p_refused
BY DEF Spots

LEMMA SpotsAreThen ==
  /\ Spots'[1] = (Waiting!InQueues)' /\ Spots'[2] = SetIn(p_nextTurn') /\ Spots'[3] = Taking'
  /\ Spots'[4] = Asking' /\ Spots'[5] = SetIn(p_announcing') /\ Spots'[6] = SetIn(p_announced')
  /\ Spots'[7] = p_cleared' /\ Spots'[8] = p_dropped' /\ Spots'[9] = p_refused'
BY DEF Spots, SetIn, Waiting!ToSet

LEMMA NoticesAreWork == \A s \in Seq(Notices) : s \in Seq(PendingWork)
<1> SUFFICES ASSUME NEW s \in Seq(Notices) PROVE s \in Seq(PendingWork)
  OBVIOUS
<1>1. Len(s) \in Nat /\ DOMAIN s = 1 .. Len(s) /\ \A i \in 1 .. Len(s) : s[i] \in PendingWork
  BY DEF PendingWork
<1> QED BY <1>1

\* Lists of texts and queues, with one more at the end.
LEMMA ListLater ==
  ASSUME NEW X, NEW f \in [{"steer", "followUp"} -> Seq(X)], NEW ch \in {"steer", "followUp"},
         NEW x \in X,
         NEW g, g = [f EXCEPT ![ch] = Append(@, x)]
  PROVE  /\ g \in [{"steer", "followUp"} -> Seq(X)] /\ g[ch] = Append(f[ch], x)
         /\ \A c \in {"steer", "followUp"} : c # ch => g[c] = f[c]
OBVIOUS

LEMMA QueuedTypes ==
  ASSUME PendingTypes, NEW u \in Typed, NEW ch \in {"steer", "followUp"}, Waiting!Queue(u, ch)
  PROVE  /\ p_queued' \in [{"steer", "followUp"} -> Seq(PendingWork)]
         /\ p_lists' \in [{"steer", "followUp"} -> Seq(PendingTexts)]
         /\ p_shown' \subseteq Typed
<1>1. p_text[u] \in PendingTexts /\ u \in PendingWork
  BY DEF PendingTypes, PendingWork
<1>2. /\ p_queued' = [p_queued EXCEPT ![ch] = Append(@, u)]
      /\ p_lists' = [p_lists EXCEPT ![ch] = Append(@, p_text[u])]
      /\ p_shown' = p_shown \union {u}
  BY DEF Waiting!Queue
<1>3. p_queued' \in [{"steer", "followUp"} -> Seq(PendingWork)]
  BY <1>1, <1>2 DEF PendingTypes
<1>4. p_lists' \in [{"steer", "followUp"} -> Seq(PendingTexts)]
  BY <1>1, <1>2 DEF PendingTypes
<1> QED BY <1>2, <1>3, <1>4 DEF PendingTypes

LEMMA PendingTypesStep ==
  ASSUME PendingAssumption, PendingTypes, [Waiting!PendingNext]_pendingMessageVars
  PROVE  PendingTypes'
<1>a. /\ p_text \in [Typed -> PendingTexts]
      /\ p_queued \in [{"steer", "followUp"} -> Seq(PendingWork)]
      /\ p_lists \in [{"steer", "followUp"} -> Seq(PendingTexts)]
      /\ p_nextTurn \in Seq(Notices) /\ p_mode \in {"one-at-a-time", "all"} /\ p_running \in BOOLEAN
      /\ p_announcing \in Seq(PendingWork) /\ p_announced \in Seq(PendingWork)
  BY DEF PendingTypes
<1>b. /\ p_events \in Seq(Typed) /\ p_connection \in {"on", "aborting", "off"}
      /\ p_prompts \in [Typed -> {"none", "asked", "checking", "assembled", "done"}]
      /\ p_taken \in [Typed -> Seq(PendingWork)]
      /\ p_sent \subseteq PendingWork /\ p_faults \in 0 .. RunFaults
      /\ p_shown \subseteq Typed /\ p_restored \in Seq(PendingTexts) /\ p_mistaken \in BOOLEAN
  BY DEF PendingTypes
<1>c. Typed \subseteq PendingWork /\ Notices \subseteq PendingWork
  BY DEF PendingWork
<1>1. ASSUME NEW u \in Typed, NEW ch \in {"steer", "followUp"}, Waiting!Say(u, ch) PROVE PendingTypes'
  <2>1. Waiting!Queue(u, ch)
    BY <1>1 DEF Waiting!Say
  <2>2. /\ p_queued' \in [{"steer", "followUp"} -> Seq(PendingWork)]
        /\ p_lists' \in [{"steer", "followUp"} -> Seq(PendingTexts)] /\ p_shown' \subseteq Typed
    BY <2>1, QueuedTypes
  <2>3. p_sent' \subseteq PendingWork
    BY <1>1, <1>b, <1>c DEF Waiting!Say
  <2> QED
    BY <1>1, <1>a, <1>b, <2>2, <2>3 DEF Waiting!Say, Waiting!runVars, Waiting!promptVars,
       Waiting!lossVars, PendingTypes
<1>2. ASSUME NEW u \in Typed, Waiting!Prompt(u) PROVE PendingTypes'
  <2>1. p_sent' \subseteq PendingWork
    BY <1>2, <1>b, <1>c DEF Waiting!Prompt
  <2>2. p_prompts' \in [Typed -> {"none", "asked", "checking", "assembled", "done"}]
    BY <1>2, <1>b DEF Waiting!Prompt
  <2> QED
    BY <1>2, <1>a, <1>b, <2>1, <2>2 DEF Waiting!Prompt, Waiting!runVars, Waiting!waitingVars,
       Waiting!lossVars, PendingTypes
<1>3. ASSUME NEW u \in Typed, Waiting!Route(u) PROVE PendingTypes'
  <2>1. p_prompts' \in [Typed -> {"none", "asked", "checking", "assembled", "done"}]
    BY <1>3, <1>b DEF Waiting!Route
  <2>2. /\ p_queued' \in [{"steer", "followUp"} -> Seq(PendingWork)]
        /\ p_lists' \in [{"steer", "followUp"} -> Seq(PendingTexts)] /\ p_shown' \subseteq Typed
    <3>1. CASE \E ch \in Waiting!Channels : Waiting!Queue(u, ch)
      BY <3>1, QueuedTypes DEF Waiting!Channels
    <3>2. CASE UNCHANGED <<p_queued, p_lists, p_shown>>
      BY <1>a, <1>b, <3>2
    <3> QED BY <1>3, <3>1, <3>2 DEF Waiting!Route
  <2> QED
    BY <1>3, <1>a, <1>b, <2>1, <2>2 DEF Waiting!Route, Waiting!runVars, PendingTypes
<1>4. ASSUME NEW u \in Typed, Waiting!Assemble(u) PROVE PendingTypes'
  <2>1. <<u>> \o p_nextTurn \in Seq(PendingWork)
    BY <1>a, <1>c, NoticesAreWork, ConsIn
  <2>2. p_taken' \in [Typed -> Seq(PendingWork)] /\ p_nextTurn' \in Seq(Notices)
    BY <1>4, <1>b, <2>1, NoneIn DEF Waiting!Assemble, Waiting!TakeNextTurn
  <2>3. p_prompts' \in [Typed -> {"none", "asked", "checking", "assembled", "done"}]
    BY <1>4, <1>b DEF Waiting!Assemble
  <2> QED
    BY <1>4, <1>a, <1>b, <2>2, <2>3 DEF Waiting!Assemble, Waiting!runVars, Waiting!lossVars,
       PendingTypes
<1>5. ASSUME NEW u \in Typed, Waiting!Submit(u) PROVE PendingTypes'
  <2>1. p_prompts' \in [Typed -> {"none", "asked", "checking", "assembled", "done"}]
    BY <1>5, <1>b DEF Waiting!Submit
  <2>2. p_taken' \in [Typed -> Seq(PendingWork)]
    BY <1>5, <1>b, NoneIn DEF Waiting!Submit
  <2>3. p_announcing' \in Seq(PendingWork) /\ p_running' \in BOOLEAN
    <3>1. p_taken[u] \in Seq(PendingWork)
      BY <1>b
    <3>2. \/ p_running' = p_running /\ p_announcing' = p_announcing
          \/ p_running' = TRUE /\ p_announcing' = p_taken[u]
      BY <1>5 DEF Waiting!Submit
    <3> QED BY <1>a, <3>1, <3>2
  <2> QED
    BY <1>5, <1>a, <1>b, <2>1, <2>2, <2>3 DEF Waiting!Submit, Waiting!waitingVars, PendingTypes
<1>6. ASSUME NEW c \in Notices, Waiting!SendCustom(c) PROVE PendingTypes'
  <2>1. p_sent' \subseteq PendingWork
    BY <1>6, <1>b, <1>c DEF Waiting!SendCustom
  <2>2. /\ Append(p_nextTurn, c) \in Seq(Notices) /\ <<c>> \in Seq(PendingWork)
        /\ Append(p_announced, c) \in Seq(PendingWork)
    BY <1>a, <1>c, AppendIn, OneIn
  <2>3. \A ch \in {"steer", "followUp"} : [p_queued EXCEPT ![ch] = Append(@, c)]
          \in [{"steer", "followUp"} -> Seq(PendingWork)]
    BY <1>a, <1>c
  <2>4. /\ p_queued' \in [{"steer", "followUp"} -> Seq(PendingWork)] /\ p_nextTurn' \in Seq(Notices)
        /\ p_running' \in BOOLEAN /\ p_announcing' \in Seq(PendingWork)
        /\ p_announced' \in Seq(PendingWork)
    BY <1>6, <1>a, <2>2, <2>3 DEF Waiting!SendCustom, Waiting!Channels
  <2> QED
    BY <1>6, <1>a, <1>b, <2>1, <2>4 DEF Waiting!SendCustom, Waiting!promptVars, Waiting!lossVars,
       PendingTypes
<1>7. ASSUME NEW ch \in {"steer", "followUp"}, Waiting!Drain(ch) PROVE PendingTypes'
  <2>1. p_queued[ch] \in Seq(PendingWork) /\ p_queued[ch] # <<>>
    BY <1>7, <1>a DEF Waiting!Drain
  <2>2. Waiting!Drained(p_queued[ch]) \in Seq(PendingWork) /\ Waiting!Left(p_queued[ch]) \in Seq(PendingWork)
    <3>1. /\ SubSeq(p_queued[ch], 1, 1) \in Seq(PendingWork) /\ Tail(p_queued[ch]) \in Seq(PendingWork)
      BY <2>1
    <3> QED BY <2>1, <3>1, NoneIn DEF Waiting!Drained, Waiting!Left
  <2>3. /\ p_announcing' = Waiting!Drained(p_queued[ch]) /\ p_running' = TRUE
        /\ p_queued' = [p_queued EXCEPT ![ch] = Waiting!Left(p_queued[ch])]
    BY <1>7, <1>a DEF Waiting!Drain
  <2>4. p_queued' \in [{"steer", "followUp"} -> Seq(PendingWork)]
    BY <1>a, <2>2, <2>3
  <2> QED
    BY <1>7, <1>a, <1>b, <2>2, <2>3, <2>4 DEF Waiting!Drain, Waiting!promptVars, Waiting!lossVars,
       PendingTypes
<1>8. CASE Waiting!Announce
  <2>1. Head(p_announcing) \in PendingWork /\ Tail(p_announcing) \in Seq(PendingWork)
    BY <1>8, <1>a, TailIn DEF Waiting!Announce
  <2>2. Append(p_announced, Head(p_announcing)) \in Seq(PendingWork)
    BY <1>a, <2>1, AppendIn
  <2>3. p_events' \in Seq(Typed)
    <3>1. Head(p_announcing) \in Typed => Append(p_events, Head(p_announcing)) \in Seq(Typed)
      BY <1>b, AppendIn
    <3> QED BY <1>8, <1>b, <3>1 DEF Waiting!Announce
  <2> QED
    BY <1>8, <1>a, <1>b, <2>1, <2>2, <2>3 DEF Waiting!Announce, Waiting!waitingVars,
       Waiting!promptVars, PendingTypes
<1>9. CASE Waiting!RunEnds
  BY <1>9, <1>a, <1>b DEF Waiting!RunEnds, Waiting!waitingVars, Waiting!promptVars,
     Waiting!lossVars, PendingTypes
<1>10. CASE Waiting!RunFails
  <2>1. p_faults' \in 0 .. RunFaults
    BY <1>10, <1>b DEF Waiting!RunFails, PendingAssumption
  <2> QED
    BY <1>10, <1>a, <1>b, <2>1, NoneIn DEF Waiting!RunFails, Waiting!waitingVars,
       Waiting!promptVars, PendingTypes
<1>11. CASE Waiting!HandleStart
  <2>1. p_events' \in Seq(Typed)
    BY <1>11, <1>b, TailIn DEF Waiting!HandleStart
  <2>2. /\ p_lists' \in [{"steer", "followUp"} -> Seq(PendingTexts)] /\ p_shown' \subseteq Typed
        /\ p_mistaken' \in BOOLEAN
    <3>1. CASE UNCHANGED <<p_lists, p_shown, p_mistaken>>
      BY <1>a, <1>b, <3>1
    <3>2. CASE Waiting!HearOf(Head(p_events), p_text[Head(p_events)])
      <4>1. PICK t : t = p_text[Head(p_events)]
        OBVIOUS
      <4>2. PICK ch \in {"steer", "followUp"} :
              p_lists' = [p_lists EXCEPT ![ch] = Waiting!Without(@, t)]
        BY <3>2, <4>1 DEF Waiting!HearOf
      <4>3. Waiting!Without(p_lists[ch], t) \in Seq(PendingTexts)
        BY <1>a, <4>2, CountWithout
      <4>4. p_lists' \in [{"steer", "followUp"} -> Seq(PendingTexts)]
        BY <1>a, <4>2, <4>3
      <4>5. p_shown' \subseteq Typed /\ p_mistaken' \in BOOLEAN
        BY <1>b, <3>2 DEF Waiting!HearOf
      <4> QED BY <4>4, <4>5
    <3> QED BY <1>11, <3>1, <3>2 DEF Waiting!HandleStart
  <2> QED
    BY <1>11, <1>a, <1>b, <2>1, <2>2 DEF Waiting!HandleStart, Waiting!runVars, Waiting!promptVars,
       Waiting!lossVars, PendingTypes
<1>12. CASE Waiting!ClearQueue
  <2>1. p_restored' \in Seq(PendingTexts)
    BY <1>12, <1>a, <1>b DEF Waiting!ClearQueue, Waiting!Returned
  <2>2. /\ p_queued' \in [{"steer", "followUp"} -> Seq(PendingWork)]
        /\ p_lists' \in [{"steer", "followUp"} -> Seq(PendingTexts)]
    BY <1>12, NoneIn DEF Waiting!ClearQueue, Waiting!Channels
  <2> QED
    BY <1>12, <1>a, <1>b, <2>1, <2>2 DEF Waiting!ClearQueue, Waiting!runVars, Waiting!promptVars,
       PendingTypes
<1>13. CASE Waiting!Compact
  BY <1>13, <1>a, <1>b DEF Waiting!Compact, Waiting!waitingVars, Waiting!runVars,
     Waiting!promptVars, Waiting!lossVars, PendingTypes
<1>14. CASE UNCHANGED pendingMessageVars
  BY <1>14, <1>a, <1>b DEF pendingMessageVars, PendingTypes
<1> QED
  BY <1>1, <1>2, <1>3, <1>4, <1>5, <1>6, <1>7, <1>8, <1>9, <1>10, <1>11, <1>12, <1>13, <1>14
     DEF Waiting!PendingNext, Waiting!Channels

----------------------------------------------------------------------------
(* Everything is in one place *)

QueuesOnce ==
  /\ OnceIn(p_queued["steer"]) /\ OnceIn(p_queued["followUp"])
  /\ SetIn(p_queued["steer"]) \cap SetIn(p_queued["followUp"]) = {}

\* No place holds a message twice; a prompt that is on its way has taken what it submits.
PendingOnce ==
  /\ QueuesOnce /\ OnceIn(p_nextTurn) /\ OnceIn(p_announcing) /\ OnceIn(p_announced)
  /\ \A u \in Typed : /\ OnceIn(p_taken[u]) /\ (p_prompts[u] = "assembled" \/ p_taken[u] = <<>>)
                      /\ p_prompts[u] # "none" => u \in p_sent
  /\ \A u, v \in Typed : u # v => SetIn(p_taken[u]) \cap SetIn(p_taken[v]) = {}
  /\ p_running \/ p_announcing = <<>>
  /\ SetIn(p_events) \subseteq SetIn(p_announced) /\ p_unheard \subseteq SetIn(p_announced)

SpotInv == Apart(Spots, p_sent) /\ PendingOnce

QueuesAre == Waiting!InQueues = SetIn(p_queued["steer"]) \union SetIn(p_queued["followUp"])

LEMMA QueuesHold == QueuesAre /\ QueuesAre'
BY DEF QueuesAre, Waiting!InQueues, SetIn

LEMMA QueueLater ==
  ASSUME PendingTypes, QueuesOnce, NEW ch \in {"steer", "followUp"}, NEW x \in PendingWork,
         p_queued' = [p_queued EXCEPT ![ch] = Append(@, x)]
  PROVE  /\ (Waiting!InQueues)' = Waiting!InQueues \union {x}
         /\ x \notin Waiting!InQueues => QueuesOnce'
<1>1. p_queued \in [{"steer", "followUp"} -> Seq(PendingWork)]
  BY DEF PendingTypes
<1>2. PICK o \in {"steer", "followUp"} : {ch, o} = {"steer", "followUp"} /\ o # ch
  OBVIOUS
<1>3. /\ p_queued'[ch] = Append(p_queued[ch], x) /\ p_queued'[o] = p_queued[o]
      /\ p_queued[ch] \in Seq(PendingWork)
  BY <1>1, <1>2
<1>4. /\ SetIn(p_queued'[ch]) = SetIn(p_queued[ch]) \union {x}
      /\ OnceIn(p_queued[ch]) /\ x \notin SetIn(p_queued[ch]) => OnceIn(p_queued'[ch])
  BY <1>3, AppendIn
<1>5. QueuesAre /\ QueuesAre'
  BY QueuesHold
<1>6. Waiting!InQueues = SetIn(p_queued[ch]) \union SetIn(p_queued[o])
  BY <1>2, <1>5 DEF QueuesAre
<1>7. (Waiting!InQueues)' = SetIn(p_queued'[ch]) \union SetIn(p_queued'[o])
  BY <1>2, <1>5 DEF QueuesAre, SetIn, Waiting!ToSet
<1>8. QueuesOnce' <=> /\ OnceIn(p_queued'[ch]) /\ OnceIn(p_queued'[o])
                      /\ SetIn(p_queued'[ch]) \cap SetIn(p_queued'[o]) = {}
  <2>1. QueuesOnce' <=>
          /\ OnceIn(p_queued'["steer"]) /\ OnceIn(p_queued'["followUp"])
          /\ SetIn(p_queued'["steer"]) \cap SetIn(p_queued'["followUp"]) = {}
    BY DEF QueuesOnce, SetIn, Waiting!ToSet, OnceIn
  <2>2. (ch = "steer" /\ o = "followUp") \/ (ch = "followUp" /\ o = "steer")
    BY <1>2
  <2> QED BY <2>1, <2>2
<1>9. OnceIn(p_queued[ch]) /\ OnceIn(p_queued[o]) /\ SetIn(p_queued[ch]) \cap SetIn(p_queued[o]) = {}
  BY <1>2 DEF QueuesOnce
<1> QED BY <1>3, <1>4, <1>6, <1>7, <1>8, <1>9

LEMMA QueueDrained ==
  ASSUME PendingTypes, QueuesOnce, NEW ch \in {"steer", "followUp"}, p_queued[ch] # <<>>,
         p_queued' = [p_queued EXCEPT ![ch] = Waiting!Left(@)]
  PROVE  LET taken == SetIn(Waiting!Drained(p_queued[ch])) IN
         /\ (Waiting!InQueues)' = Waiting!InQueues \ taken /\ taken \subseteq Waiting!InQueues
         /\ QueuesOnce' /\ OnceIn(Waiting!Drained(p_queued[ch]))
<1> DEFINE taken == SetIn(Waiting!Drained(p_queued[ch]))
<1>1. p_queued \in [{"steer", "followUp"} -> Seq(PendingWork)] /\ p_mode \in {"one-at-a-time", "all"}
  BY DEF PendingTypes
<1>2. PICK o \in {"steer", "followUp"} : {ch, o} = {"steer", "followUp"} /\ o # ch
  OBVIOUS
<1>3. /\ p_queued'[ch] = Waiting!Left(p_queued[ch]) /\ p_queued'[o] = p_queued[o]
      /\ p_queued[ch] \in Seq(PendingWork)
  BY <1>1, <1>2
<1>9. OnceIn(p_queued[ch]) /\ OnceIn(p_queued[o]) /\ SetIn(p_queued[ch]) \cap SetIn(p_queued[o]) = {}
  BY <1>2 DEF QueuesOnce
<1>4. /\ SetIn(p_queued'[ch]) = SetIn(p_queued[ch]) \ taken
      /\ OnceIn(p_queued'[ch]) /\ taken \subseteq SetIn(p_queued[ch])
      /\ OnceIn(Waiting!Drained(p_queued[ch]))
  BY <1>1, <1>3, <1>9, DrainedIs
<1>5. QueuesAre /\ QueuesAre'
  BY QueuesHold
<1>6. Waiting!InQueues = SetIn(p_queued[ch]) \union SetIn(p_queued[o])
  BY <1>2, <1>5 DEF QueuesAre
<1>7. (Waiting!InQueues)' = SetIn(p_queued'[ch]) \union SetIn(p_queued'[o])
  BY <1>2, <1>5 DEF QueuesAre, SetIn, Waiting!ToSet
<1>8. QueuesOnce' <=> /\ OnceIn(p_queued'[ch]) /\ OnceIn(p_queued'[o])
                      /\ SetIn(p_queued'[ch]) \cap SetIn(p_queued'[o]) = {}
  <2>1. QueuesOnce' <=>
          /\ OnceIn(p_queued'["steer"]) /\ OnceIn(p_queued'["followUp"])
          /\ SetIn(p_queued'["steer"]) \cap SetIn(p_queued'["followUp"]) = {}
    BY DEF QueuesOnce, SetIn, Waiting!ToSet, OnceIn
  <2>2. (ch = "steer" /\ o = "followUp") \/ (ch = "followUp" /\ o = "steer")
    BY <1>2
  <2> QED BY <2>1, <2>2
<1> HIDE DEF taken
<1>10. /\ (Waiting!InQueues)' = Waiting!InQueues \ taken /\ taken \subseteq Waiting!InQueues
  BY <1>3, <1>4, <1>6, <1>7, <1>9
<1>11. QueuesOnce'
  BY <1>3, <1>4, <1>8, <1>9
<1> QED BY <1>4, <1>10, <1>11 DEF taken

\* The places after a step that moves messages.
LEMMA SpotsMove ==
  ASSUME Apart(Spots, p_sent), NEW i, NEW j, NEW S, Moved(Spots, Spots', p_sent, i, S, j),
         p_sent' = p_sent \union (IF i = 0 THEN S ELSE {})
  PROVE  Apart(Spots, p_sent)'
<1>1. Apart(Spots', p_sent \union S)
  BY MovedApart
<1>2. i # 0 => S \subseteq p_sent
  BY DEF Apart, Moved
<1>3. p_sent \union S = p_sent'
  BY <1>2
<1> QED BY <1>1, <1>3 DEF Apart

\* What the places other than those a step changes depend on.
LEMMA SpotsStay ==
  /\ UNCHANGED p_queued => (Waiting!InQueues)' = Waiting!InQueues /\ (QueuesOnce => QueuesOnce')
  /\ UNCHANGED p_taken => Taking' = Taking
  /\ UNCHANGED p_prompts => Asking' = Asking
BY DEF Waiting!InQueues, QueuesOnce, Taking, Asking

Nine == \A k \in 1 .. 9 : k = 1 \/ k = 2 \/ k = 3 \/ k = 4 \/ k = 5 \/ k = 6 \/ k = 7 \/ k = 8 \/ k = 9
LEMMA NineAre == Nine /\ \A i \in {1, 2, 3, 4, 5, 6, 7, 8, 9} : i \in 1 .. 9 /\ i \in 0 .. 9
BY DEF Nine

LEMMA SpotSay ==
  ASSUME PendingTypes, SpotInv, NEW u \in Typed, NEW ch \in {"steer", "followUp"}, Waiting!Say(u, ch)
  PROVE  SpotInv'
<1>1. /\ p_queued' = [p_queued EXCEPT ![ch] = Append(@, u)]
      /\ u \notin p_sent /\ p_sent' = p_sent \union {u}
      /\ UNCHANGED <<p_nextTurn, p_taken, p_prompts, p_announcing, p_announced, p_cleared,
                     p_dropped, p_refused, p_running, p_events, p_unheard>>
  BY DEF Waiting!Say, Waiting!Queue, Waiting!runVars, Waiting!promptVars, Waiting!lossVars
<1>2. u \in PendingWork /\ QueuesOnce
  BY DEF PendingWork, SpotInv, PendingOnce
<1>3. /\ (Waiting!InQueues)' = Waiting!InQueues \union {u}
      /\ u \notin Waiting!InQueues => QueuesOnce'
  BY <1>1, <1>2, QueueLater
<1>4. Apart(Spots, p_sent)
  BY DEF SpotInv
<1>5. u \notin Waiting!InQueues
  BY <1>1, <1>4, SpotsAre, NineAre DEF Apart
<1>6. Moved(Spots, Spots', p_sent, 0, {u}, 1)
  BY <1>1, <1>3, SpotsAre, SpotsAreThen, SpotsStay, NineAre DEF Moved, Nine
<1>7. Apart(Spots, p_sent)'
  BY <1>1, <1>4, <1>6, SpotsMove
<1>8. PendingOnce'
  BY <1>1, <1>3, <1>5 DEF SpotInv, PendingOnce
<1> QED BY <1>7, <1>8 DEF SpotInv

LEMMA SpotPrompt ==
  ASSUME PendingTypes, SpotInv, NEW u \in Typed, Waiting!Prompt(u)
  PROVE  SpotInv'
<1>1. /\ u \notin p_sent /\ p_sent' = p_sent \union {u}
      /\ p_prompts' = [p_prompts EXCEPT ![u] = "asked"]
      /\ UNCHANGED <<p_queued, p_nextTurn, p_taken, p_announcing, p_announced, p_cleared,
                     p_dropped, p_refused, p_running, p_events, p_unheard>>
  BY DEF Waiting!Prompt, Waiting!waitingVars, Waiting!runVars, Waiting!lossVars
<1>2. /\ p_prompts \in [Typed -> {"none", "asked", "checking", "assembled", "done"}]
      /\ \A v \in Typed : p_prompts'[v] = IF v = u THEN "asked" ELSE p_prompts[v]
  BY <1>1 DEF PendingTypes
<1>3. Asking' = Asking \union {u}
  BY <1>2 DEF Asking
<1>4. Apart(Spots, p_sent)
  BY DEF SpotInv
<1>6. Moved(Spots, Spots', p_sent, 0, {u}, 4)
  BY <1>1, <1>3, SpotsAre, SpotsAreThen, SpotsStay, NineAre DEF Moved, Nine
<1>7. Apart(Spots, p_sent)'
  BY <1>1, <1>4, <1>6, SpotsMove
<1>8. p_prompts[u] = "none"
  BY <1>1, <1>2 DEF SpotInv, PendingOnce
<1>9. PendingOnce'
  <2>1. \A v \in Typed : /\ OnceIn(p_taken[v])
                         /\ (p_prompts'[v] = "assembled" \/ p_taken[v] = <<>>)
                         /\ p_prompts'[v] # "none" => v \in p_sent'
    BY <1>1, <1>2, <1>8 DEF SpotInv, PendingOnce
  <2>2. QueuesOnce'
    BY <1>1, SpotsStay DEF SpotInv, PendingOnce
  <2> QED BY <1>1, <2>1, <2>2 DEF SpotInv, PendingOnce
<1> QED BY <1>7, <1>9 DEF SpotInv

LEMMA SpotRoute ==
  ASSUME PendingTypes, SpotInv, NEW u \in Typed, Waiting!Route(u)
  PROVE  SpotInv'
<1>0. PICK now \in {"done", "checking"} : p_prompts' = [p_prompts EXCEPT ![u] = now]
  BY DEF Waiting!Route
<1>1. /\ p_prompts[u] = "asked" /\ p_sent' = p_sent
      /\ UNCHANGED <<p_nextTurn, p_taken, p_announcing, p_announced, p_cleared,
                     p_dropped, p_running, p_events, p_unheard>>
  BY DEF Waiting!Route, Waiting!runVars
<1>2. /\ p_prompts \in [Typed -> {"none", "asked", "checking", "assembled", "done"}]
      /\ \A v \in Typed : p_prompts'[v] = IF v = u THEN now ELSE p_prompts[v]
  BY <1>0 DEF PendingTypes
<1>3. IF now = "done" THEN Asking' = Asking \ {u} ELSE Asking' = Asking
  BY <1>1, <1>2 DEF Asking
<1>4. Apart(Spots, p_sent) /\ u \in Asking /\ QueuesOnce
  BY <1>1 DEF SpotInv, Asking, PendingOnce
<1>5. u \notin Waiting!InQueues
  BY <1>4, SpotsAre, NineAre DEF Apart
<1>6. \A v \in Typed : /\ OnceIn(p_taken[v])
                       /\ (p_prompts'[v] = "assembled" \/ p_taken[v] = <<>>)
                       /\ p_prompts'[v] # "none" => v \in p_sent'
  BY <1>1, <1>2 DEF SpotInv, PendingOnce
<1>7. ASSUME QueuesOnce' PROVE PendingOnce'
  BY <1>1, <1>6, <1>7 DEF SpotInv, PendingOnce
<1>8. CASE now = "done" /\ (\E ch \in Waiting!Channels : Waiting!Queue(u, ch)) /\ UNCHANGED p_refused
  <2>1. PICK ch \in {"steer", "followUp"} : p_queued' = [p_queued EXCEPT ![ch] = Append(@, u)]
    BY <1>8 DEF Waiting!Queue, Waiting!Channels
  <2>2. u \in PendingWork
    BY DEF PendingWork
  <2>3. (Waiting!InQueues)' = Waiting!InQueues \union {u} /\ QueuesOnce'
    BY <1>4, <1>5, <2>1, <2>2, QueueLater
  <2>4. Moved(Spots, Spots', p_sent, 4, {u}, 1)
    BY <1>1, <1>3, <1>4, <1>8, <2>3, SpotsAre, SpotsAreThen, SpotsStay, NineAre DEF Moved, Nine
  <2>5. Apart(Spots, p_sent)'
    BY <1>1, <1>4, <2>4, SpotsMove
  <2> QED BY <1>7, <2>3, <2>5 DEF SpotInv
<1>9. CASE now = "done" /\ p_refused' = p_refused \union {u} /\ UNCHANGED p_queued
  <2>1. Moved(Spots, Spots', p_sent, 4, {u}, 9)
    BY <1>1, <1>3, <1>4, <1>9, SpotsAre, SpotsAreThen, SpotsStay, NineAre DEF Moved, Nine
  <2>2. Apart(Spots, p_sent)'
    BY <1>1, <1>4, <2>1, SpotsMove
  <2>3. QueuesOnce'
    BY <1>4, <1>9, SpotsStay
  <2> QED BY <1>7, <2>2, <2>3 DEF SpotInv
<1>10. CASE now = "checking" /\ UNCHANGED <<p_queued, p_refused>>
  <2>1. Moved(Spots, Spots', p_sent, 0, {}, 1)
    BY <1>1, <1>3, <1>10, SpotsAre, SpotsAreThen, SpotsStay, NineAre DEF Moved, Nine
  <2>2. Apart(Spots, p_sent)'
    BY <1>1, <1>4, <2>1, SpotsMove
  <2>3. QueuesOnce'
    BY <1>4, <1>10, SpotsStay
  <2> QED BY <1>7, <2>2, <2>3 DEF SpotInv
<1> QED
  <2>1. p_prompts'[u] = now
    BY <1>2
  <2>2. \/ (\E ch \in Waiting!Channels : Waiting!Queue(u, ch)) /\ UNCHANGED p_refused
           /\ p_prompts' = [p_prompts EXCEPT ![u] = "done"]
        \/ p_prompts' = [p_prompts EXCEPT ![u] = "done"] /\ p_refused' = p_refused \union {u}
           /\ UNCHANGED p_queued
        \/ p_prompts' = [p_prompts EXCEPT ![u] = "checking"] /\ UNCHANGED <<p_queued, p_refused>>
    BY DEF Waiting!Route
  <2>3. \A x : p_prompts' = [p_prompts EXCEPT ![u] = x] => now = x
    BY <1>2, <2>1
  <2> QED BY <1>8, <1>9, <1>10, <2>2, <2>3

LEMMA SpotAssemble ==
  ASSUME PendingTypes, SpotInv, NEW u \in Typed, Waiting!Assemble(u)
  PROVE  SpotInv'
<1>1. /\ p_prompts[u] = "checking" /\ p_prompts' = [p_prompts EXCEPT ![u] = "assembled"]
      /\ p_taken' = [p_taken EXCEPT ![u] = <<u>> \o p_nextTurn] /\ p_nextTurn' = <<>>
      /\ p_sent' = p_sent
      /\ UNCHANGED <<p_queued, p_announcing, p_announced, p_cleared, p_dropped, p_refused,
                     p_running, p_events, p_unheard>>
  BY DEF Waiting!Assemble, Waiting!TakeNextTurn, Waiting!runVars, Waiting!lossVars
<1>2. /\ p_prompts \in [Typed -> {"none", "asked", "checking", "assembled", "done"}]
      /\ \A v \in Typed : p_prompts'[v] = IF v = u THEN "assembled" ELSE p_prompts[v]
  BY <1>1 DEF PendingTypes
<1>3. Asking' = Asking \ {u} /\ u \in Asking
  BY <1>1, <1>2 DEF Asking
<1>4. Apart(Spots, p_sent) /\ OnceIn(p_nextTurn) /\ p_taken[u] = <<>>
  BY <1>1 DEF SpotInv, PendingOnce
<1> DEFINE N == SetIn(p_nextTurn)
<1>5. u \notin N /\ u \notin Taking /\ N \cap Taking = {}
  BY <1>3, <1>4, SpotsAre, NineAre DEF Apart
<1>6. /\ p_taken \in [Typed -> Seq(PendingWork)]
      /\ \A v \in Typed : p_taken'[v] = IF v = u THEN <<u>> \o p_nextTurn ELSE p_taken[v]
  BY <1>1 DEF PendingTypes
<1>7. SetIn(p_taken'[u]) = N \union {u} /\ OnceIn(p_taken'[u])
  <2>1. p_nextTurn \in Seq(PendingWork) /\ u \in PendingWork
    BY NoticesAreWork DEF PendingTypes, PendingWork
  <2>2. SetIn(<<u>> \o p_nextTurn) = N \union {u} /\ OnceIn(<<u>> \o p_nextTurn)
    BY <1>4, <1>5, <2>1, ConsIn
  <2> QED BY <1>6, <2>2
<1>8. Taking' = Taking \union {u} \union N
  <2>1. Taking' = UNION {SetIn(p_taken'[v]) : v \in Typed}
    BY DEF Taking, SetIn, Waiting!ToSet
  <2>2. SetIn(p_taken[u]) = {}
    BY <1>4, NoneIn
  <2> HIDE DEF N
  <2> QED BY <1>6, <1>7, <2>1, <2>2 DEF Taking
<1>9. SetIn(p_nextTurn') = {} /\ OnceIn(p_nextTurn')
  BY <1>1, NoneIn
<1>10. Apart(Spots, p_sent)'
  <2> DEFINE P == [k \in 1 .. 9 |-> IF k = 3 THEN Spots[k] \union {u}
                                    ELSE IF k = 4 THEN Spots[k] \ {u} ELSE Spots[k]]
  <2>1. Moved(Spots, P, p_sent, 4, {u}, 3)
    BY <1>3, SpotsAre DEF Moved
  <2>2. {u} \subseteq p_sent
    BY <1>3, <1>4, SpotsAre, NineAre DEF Apart
  <2>3. Apart(P, p_sent \union {u})
    <3> HIDE DEF P
    <3> QED BY <1>4, <2>1, MovedApart
  <2>4. p_sent \union {u} = p_sent
    BY <2>2
  <2>5. \A k \in 1 .. 9 : P[k] = IF k = 3 THEN Spots[k] \union {u}
                                 ELSE IF k = 4 THEN Spots[k] \ {u} ELSE Spots[k]
    OBVIOUS
  <2> HIDE DEF P, N
  <2>6. Moved(P, Spots', p_sent, 2, N, 3)
    <3>1. N \subseteq P[2] /\ SetIn(p_nextTurn') = P[2] \ N
      BY <1>9, <2>5, SpotsAre, NineAre DEF N
    <3>2. Taking' = P[3] \union N
      BY <1>8, <2>5, SpotsAre, NineAre
    <3>3. Asking' = P[4]
      BY <1>3, <2>5, SpotsAre, NineAre
    <3>4. /\ (Waiting!InQueues)' = P[1] /\ SetIn(p_announcing') = P[5]
          /\ SetIn(p_announced') = P[6] /\ p_cleared' = P[7] /\ p_dropped' = P[8]
          /\ p_refused' = P[9]
      BY <1>1, <2>5, SpotsAre, SpotsStay, NineAre
    <3> QED BY <3>1, <3>2, <3>3, <3>4, SpotsAreThen, NineAre DEF Moved, Nine
  <2>7. N \subseteq p_sent
    BY <1>4, SpotsAre, NineAre DEF Apart, N
  <2>8. Apart(Spots', p_sent \union N)
    BY <2>3, <2>4, <2>6, MovedApart
  <2>9. p_sent \union N = p_sent'
    BY <1>1, <2>7
  <2> QED BY <2>8, <2>9 DEF Apart
<1>11. PendingOnce'
  <2>1. \A v \in Typed : /\ OnceIn(p_taken'[v])
                         /\ (p_prompts'[v] = "assembled" \/ p_taken'[v] = <<>>)
                         /\ p_prompts'[v] # "none" => v \in p_sent'
    BY <1>1, <1>2, <1>6, <1>7 DEF SpotInv, PendingOnce
  <2>2. \A v \in Typed : v # u => SetIn(p_taken'[v]) \cap SetIn(p_taken'[u]) = {}
    <3>1. \A v \in Typed : SetIn(p_taken[v]) \subseteq Taking
      BY DEF Taking
    <3> HIDE DEF N
    <3> QED BY <1>5, <1>6, <1>7, <3>1
  <2>3. \A v, w \in Typed : v # w => SetIn(p_taken'[v]) \cap SetIn(p_taken'[w]) = {}
    BY <1>6, <2>2 DEF SpotInv, PendingOnce
  <2>4. QueuesOnce'
    BY <1>1, SpotsStay DEF SpotInv, PendingOnce
  <2> QED BY <1>1, <1>9, <2>1, <2>3, <2>4 DEF SpotInv, PendingOnce
<1> QED BY <1>10, <1>11 DEF SpotInv

LEMMA SpotSubmit ==
  ASSUME PendingTypes, SpotInv, NEW u \in Typed, Waiting!Submit(u)
  PROVE  SpotInv'
<1> DEFINE S == SetIn(p_taken[u])
<1>1. /\ p_prompts[u] = "assembled" /\ p_prompts' = [p_prompts EXCEPT ![u] = "done"]
      /\ p_taken' = [p_taken EXCEPT ![u] = <<>>] /\ p_sent' = p_sent
      /\ UNCHANGED <<p_queued, p_nextTurn, p_announced, p_cleared, p_dropped, p_events, p_unheard>>
  BY DEF Waiting!Submit, Waiting!waitingVars
<1>2. /\ p_prompts \in [Typed -> {"none", "asked", "checking", "assembled", "done"}]
      /\ \A v \in Typed : p_prompts'[v] = IF v = u THEN "done" ELSE p_prompts[v]
  BY <1>1 DEF PendingTypes
<1>3. Asking' = Asking
  BY <1>1, <1>2 DEF Asking
<1>4. Apart(Spots, p_sent) /\ OnceIn(p_taken[u])
  BY DEF SpotInv, PendingOnce
<1>5. /\ p_taken \in [Typed -> Seq(PendingWork)]
      /\ \A v \in Typed : p_taken'[v] = IF v = u THEN <<>> ELSE p_taken[v]
  BY <1>1 DEF PendingTypes
<1>6. SetIn(<<>>) = {} /\ OnceIn(<<>>)
  BY NoneIn
<1>7. \A v \in Typed : v # u => SetIn(p_taken[v]) \cap S = {}
  BY DEF SpotInv, PendingOnce
<1>8. Taking' = Taking \ S /\ S \subseteq Taking
  <2>1. Taking' = UNION {SetIn(p_taken'[v]) : v \in Typed}
    BY DEF Taking, SetIn, Waiting!ToSet
  <2>2. \A m : m \in Taking' <=> \E v \in Typed : v # u /\ m \in SetIn(p_taken[v])
    BY <1>5, <1>6, <2>1
  <2>3. \A m : m \in Taking <=> \E v \in Typed : m \in SetIn(p_taken[v])
    BY DEF Taking
  <2> QED BY <1>7, <2>2, <2>3
<1>9. QueuesOnce'
  BY <1>1, SpotsStay DEF SpotInv, PendingOnce
<1>10. \A v \in Typed : /\ OnceIn(p_taken'[v])
                        /\ (p_prompts'[v] = "assembled" \/ p_taken'[v] = <<>>)
                        /\ p_prompts'[v] # "none" => v \in p_sent'
  BY <1>1, <1>2, <1>5, <1>6 DEF SpotInv, PendingOnce
<1>11. \A v, w \in Typed : v # w => SetIn(p_taken'[v]) \cap SetIn(p_taken'[w]) = {}
  BY <1>5, <1>6 DEF SpotInv, PendingOnce
<1>12. ASSUME OnceIn(p_announcing'), p_running' \/ p_announcing' = <<>> PROVE PendingOnce'
  BY <1>1, <1>9, <1>10, <1>11, <1>12 DEF SpotInv, PendingOnce
<1>13. CASE p_running /\ p_refused' = p_refused \union S /\ UNCHANGED <<p_running, p_announcing>>
  <2> HIDE DEF S
  <2>1. Moved(Spots, Spots', p_sent, 3, S, 9)
    BY <1>1, <1>3, <1>8, <1>13, SpotsAre, SpotsAreThen, SpotsStay, NineAre DEF Moved, Nine
  <2>2. Apart(Spots, p_sent)'
    BY <1>1, <1>4, <2>1, SpotsMove
  <2>3. PendingOnce'
    BY <1>12, <1>13 DEF SpotInv, PendingOnce
  <2> QED BY <2>2, <2>3 DEF SpotInv
<1>14. CASE ~p_running /\ p_running' = TRUE /\ p_announcing' = p_taken[u] /\ UNCHANGED p_refused
  <2>1. SetIn(p_announcing) = {} /\ SetIn(p_announcing') = S
    BY <1>6, <1>14 DEF SpotInv, PendingOnce
  <2> HIDE DEF S
  <2>2. Moved(Spots, Spots', p_sent, 3, S, 5)
    BY <1>1, <1>3, <1>8, <1>14, <2>1, SpotsAre, SpotsAreThen, SpotsStay, NineAre DEF Moved, Nine
  <2>3. Apart(Spots, p_sent)'
    BY <1>1, <1>4, <2>2, SpotsMove
  <2>4. PendingOnce'
    BY <1>4, <1>12, <1>14
  <2> QED BY <2>3, <2>4 DEF SpotInv
<1> QED BY <1>13, <1>14 DEF Waiting!Submit, SetIn

LEMMA SpotCustom ==
  ASSUME PendingTypes, SpotInv, NEW c \in Notices, Waiting!SendCustom(c)
  PROVE  SpotInv'
<1>1. /\ c \notin p_sent /\ p_sent' = p_sent \union {c}
      /\ UNCHANGED <<p_taken, p_prompts, p_cleared, p_dropped, p_refused, p_events, p_unheard>>
  BY DEF Waiting!SendCustom, Waiting!promptVars, Waiting!lossVars
<1>2. c \in PendingWork /\ Apart(Spots, p_sent) /\ QueuesOnce
  BY DEF PendingWork, SpotInv, PendingOnce
<1>3. /\ c \notin Waiting!InQueues /\ c \notin SetIn(p_nextTurn) /\ c \notin SetIn(p_announced)
  BY <1>1, <1>2, SpotsAre, NineAre DEF Apart
<1>4. \A v \in Typed : /\ OnceIn(p_taken'[v])
                       /\ (p_prompts'[v] = "assembled" \/ p_taken'[v] = <<>>)
                       /\ p_prompts'[v] # "none" => v \in p_sent'
  BY <1>1 DEF SpotInv, PendingOnce
<1>5. CASE p_nextTurn' = Append(p_nextTurn, c)
           /\ UNCHANGED <<p_queued, p_running, p_announcing, p_announced>>
  <2>1. /\ SetIn(p_nextTurn') = SetIn(p_nextTurn) \union {c} /\ OnceIn(p_nextTurn')
    BY <1>3, <1>5, AppendIn DEF PendingTypes, SpotInv, PendingOnce
  <2>2. Moved(Spots, Spots', p_sent, 0, {c}, 2)
    BY <1>1, <1>5, <2>1, SpotsAre, SpotsAreThen, SpotsStay, NineAre DEF Moved, Nine
  <2>3. Apart(Spots, p_sent)'
    BY <1>1, <1>2, <2>2, SpotsMove
  <2>4. PendingOnce'
    BY <1>1, <1>2, <1>4, <1>5, <2>1, SpotsStay DEF SpotInv, PendingOnce
  <2> QED BY <2>3, <2>4 DEF SpotInv
<1>6. CASE (\E ch \in Waiting!Channels : p_queued' = [p_queued EXCEPT ![ch] = Append(@, c)])
           /\ UNCHANGED <<p_nextTurn, p_running, p_announcing, p_announced>>
  <2>1. /\ (Waiting!InQueues)' = Waiting!InQueues \union {c} /\ QueuesOnce'
    BY <1>2, <1>3, <1>6, QueueLater DEF Waiting!Channels
  <2>2. Moved(Spots, Spots', p_sent, 0, {c}, 1)
    BY <1>1, <1>6, <2>1, SpotsAre, SpotsAreThen, SpotsStay, NineAre DEF Moved, Nine
  <2>3. Apart(Spots, p_sent)'
    BY <1>1, <1>2, <2>2, SpotsMove
  <2>4. PendingOnce'
    BY <1>1, <1>4, <1>6, <2>1 DEF SpotInv, PendingOnce
  <2> QED BY <2>3, <2>4 DEF SpotInv
<1>7. CASE ~p_running /\ p_running' = TRUE /\ p_announcing' = <<c>>
           /\ UNCHANGED <<p_queued, p_nextTurn, p_announced>>
  <2>1. SetIn(p_announcing') = {c} /\ OnceIn(p_announcing') /\ SetIn(p_announcing) = {}
    BY <1>2, <1>7, OneIn, NoneIn DEF SpotInv, PendingOnce
  <2>2. Moved(Spots, Spots', p_sent, 0, {c}, 5)
    BY <1>1, <1>7, <2>1, SpotsAre, SpotsAreThen, SpotsStay, NineAre DEF Moved, Nine
  <2>3. Apart(Spots, p_sent)'
    BY <1>1, <1>2, <2>2, SpotsMove
  <2>4. PendingOnce'
    BY <1>1, <1>2, <1>4, <1>7, <2>1, SpotsStay DEF SpotInv, PendingOnce
  <2> QED BY <2>3, <2>4 DEF SpotInv
<1>8. CASE p_announced' = Append(p_announced, c)
           /\ UNCHANGED <<p_queued, p_nextTurn, p_running, p_announcing>>
  <2>1. SetIn(p_announced') = SetIn(p_announced) \union {c} /\ OnceIn(p_announced')
    BY <1>2, <1>3, <1>8, AppendIn DEF PendingTypes, SpotInv, PendingOnce
  <2>2. Moved(Spots, Spots', p_sent, 0, {c}, 6)
    BY <1>1, <1>8, <2>1, SpotsAre, SpotsAreThen, SpotsStay, NineAre DEF Moved, Nine
  <2>3. Apart(Spots, p_sent)'
    BY <1>1, <1>2, <2>2, SpotsMove
  <2>4. SetIn(p_events') \subseteq SetIn(p_announced') /\ p_unheard' \subseteq SetIn(p_announced')
    BY <1>1, <2>1 DEF SpotInv, PendingOnce
  <2>5. PendingOnce'
    BY <1>1, <1>2, <1>4, <1>8, <2>1, <2>4, SpotsStay DEF SpotInv, PendingOnce
  <2> QED BY <2>3, <2>5 DEF SpotInv
<1> QED BY <1>5, <1>6, <1>7, <1>8 DEF Waiting!SendCustom

LEMMA SpotDrain ==
  ASSUME PendingTypes, SpotInv, NEW ch \in {"steer", "followUp"}, Waiting!Drain(ch)
  PROVE  SpotInv'
<1> DEFINE S == SetIn(Waiting!Drained(p_queued[ch]))
<1>1. /\ p_queued[ch] # <<>> /\ p_announcing = <<>> /\ p_running' = TRUE
      /\ p_announcing' = Waiting!Drained(p_queued[ch])
      /\ p_queued' = [p_queued EXCEPT ![ch] = Waiting!Left(@)]
      /\ UNCHANGED <<p_sent, p_nextTurn, p_taken, p_prompts, p_announced, p_cleared, p_dropped,
                     p_refused, p_events, p_unheard>>
  BY DEF Waiting!Drain, Waiting!promptVars, Waiting!lossVars
<1>2. Apart(Spots, p_sent) /\ QueuesOnce
  BY DEF SpotInv, PendingOnce
<1>3. /\ (Waiting!InQueues)' = Waiting!InQueues \ S /\ S \subseteq Waiting!InQueues
      /\ QueuesOnce' /\ OnceIn(p_announcing')
  BY <1>1, <1>2, QueueDrained
<1>4. SetIn(p_announcing) = {} /\ SetIn(p_announcing') = S
  BY <1>1, NoneIn
<1> HIDE DEF S
<1>5. Moved(Spots, Spots', p_sent, 1, S, 5)
  BY <1>1, <1>3, <1>4, SpotsAre, SpotsAreThen, SpotsStay, NineAre DEF Moved, Nine
<1>6. Apart(Spots, p_sent)'
  BY <1>1, <1>2, <1>5, SpotsMove
<1>7. PendingOnce'
  BY <1>1, <1>3 DEF SpotInv, PendingOnce
<1> QED BY <1>6, <1>7 DEF SpotInv

LEMMA SpotAnnounce ==
  ASSUME PendingTypes, SpotInv, Waiting!Announce
  PROVE  SpotInv'
<1> DEFINE m == Head(p_announcing)
<1>1. /\ p_announcing # <<>> /\ p_announced' = Append(p_announced, m)
      /\ p_announcing' = Tail(p_announcing)
      /\ p_events' = p_events \/ (m \in Typed /\ p_events' = Append(p_events, m))
      /\ p_unheard' = p_unheard \/ p_unheard' = p_unheard \union {m}
      /\ UNCHANGED <<p_sent, p_queued, p_nextTurn, p_taken, p_prompts, p_cleared, p_dropped,
                     p_refused, p_running>>
  BY DEF Waiting!Announce, Waiting!waitingVars, Waiting!promptVars
<1>2. /\ Apart(Spots, p_sent) /\ QueuesOnce /\ OnceIn(p_announcing) /\ OnceIn(p_announced)
      /\ SetIn(p_events) \subseteq SetIn(p_announced) /\ p_unheard \subseteq SetIn(p_announced)
      /\ p_running
  BY <1>1 DEF SpotInv, PendingOnce
<1>3. /\ m \in PendingWork /\ m \in SetIn(p_announcing)
      /\ SetIn(p_announcing') = SetIn(p_announcing) \ {m} /\ OnceIn(p_announcing')
  BY <1>1, <1>2, TailIn DEF PendingTypes
<1> HIDE DEF m
<1>4. m \notin SetIn(p_announced)
  BY <1>2, <1>3, SpotsAre, NineAre DEF Apart
<1>5. SetIn(p_announced') = SetIn(p_announced) \union {m} /\ OnceIn(p_announced')
  BY <1>1, <1>2, <1>3, <1>4, AppendIn DEF PendingTypes
<1>6. Moved(Spots, Spots', p_sent, 5, {m}, 6)
  BY <1>1, <1>3, <1>5, SpotsAre, SpotsAreThen, SpotsStay, NineAre DEF Moved, Nine
<1>7. Apart(Spots, p_sent)'
  BY <1>1, <1>2, <1>6, SpotsMove
<1>8. SetIn(p_events') \subseteq SetIn(p_announced') /\ p_unheard' \subseteq SetIn(p_announced')
  <2>1. m \in Typed => SetIn(Append(p_events, m)) = SetIn(p_events) \union {m}
    BY AppendIn DEF PendingTypes
  <2> QED BY <1>1, <1>2, <1>5, <2>1
<1>9. PendingOnce'
  BY <1>1, <1>2, <1>3, <1>5, <1>8, SpotsStay DEF SpotInv, PendingOnce
<1> QED BY <1>7, <1>9 DEF SpotInv

LEMMA SpotFails ==
  ASSUME PendingTypes, SpotInv, Waiting!RunFails
  PROVE  SpotInv'
<1> DEFINE S == SetIn(p_announcing)
<1>1. /\ p_running' = FALSE /\ p_announcing' = <<>> /\ p_dropped' = p_dropped \union S
      /\ UNCHANGED <<p_sent, p_queued, p_nextTurn, p_taken, p_prompts, p_announced, p_cleared,
                     p_refused, p_events, p_unheard>>
  BY DEF Waiting!RunFails, Waiting!waitingVars, Waiting!promptVars, SetIn
<1>2. Apart(Spots, p_sent) /\ QueuesOnce
  BY DEF SpotInv, PendingOnce
<1>3. SetIn(p_announcing') = S \ S /\ OnceIn(p_announcing')
  BY <1>1, NoneIn
<1>4. Moved(Spots, Spots', p_sent, 5, S, 8)
  <2>1. S = SetIn(p_announcing)
    OBVIOUS
  <2> HIDE DEF S
  <2> QED
    BY <1>1, <1>3, <2>1, SpotsAre, SpotsAreThen, SpotsStay, NineAre DEF Moved, Nine
<1>5. Apart(Spots, p_sent)'
  BY <1>1, <1>2, <1>4, SpotsMove
<1>6. PendingOnce'
  BY <1>1, <1>2, <1>3, SpotsStay DEF SpotInv, PendingOnce
<1> QED BY <1>5, <1>6 DEF SpotInv

LEMMA SpotClear ==
  ASSUME PendingTypes, SpotInv, Waiting!ClearQueue
  PROVE  SpotInv'
<1> DEFINE S == Waiting!InQueues
<1>1. /\ p_cleared' = p_cleared \union S /\ p_queued' = [ch \in {"steer", "followUp"} |-> <<>>]
      /\ UNCHANGED <<p_sent, p_nextTurn, p_taken, p_prompts, p_announcing, p_announced,
                     p_dropped, p_refused, p_running, p_events, p_unheard>>
  BY DEF Waiting!ClearQueue, Waiting!runVars, Waiting!promptVars, Waiting!Channels
<1>2. Apart(Spots, p_sent)
  BY DEF SpotInv
<1>3. p_queued'["steer"] = <<>> /\ p_queued'["followUp"] = <<>>
  BY <1>1
<1>4. (Waiting!InQueues)' = {} /\ QueuesOnce'
  <2>1. QueuesOnce' <=>
          /\ OnceIn(p_queued'["steer"]) /\ OnceIn(p_queued'["followUp"])
          /\ SetIn(p_queued'["steer"]) \cap SetIn(p_queued'["followUp"]) = {}
    BY DEF QueuesOnce, SetIn, Waiting!ToSet, OnceIn
  <2>2. (Waiting!InQueues)' = SetIn(p_queued'["steer"]) \union SetIn(p_queued'["followUp"])
    BY DEF Waiting!InQueues, SetIn, Waiting!ToSet
  <2>3. SetIn(<<>>) = {} /\ OnceIn(<<>>)
    BY NoneIn
  <2> QED BY <1>3, <2>1, <2>2, <2>3
<1>5. Moved(Spots, Spots', p_sent, 1, S, 7)
  <2>1. S = Waiting!InQueues
    OBVIOUS
  <2> HIDE DEF S
  <2> QED
    BY <1>1, <1>4, <2>1, SpotsAre, SpotsAreThen, SpotsStay, NineAre DEF Moved, Nine
<1>6. Apart(Spots, p_sent)'
  BY <1>1, <1>2, <1>5, SpotsMove
<1>7. PendingOnce'
  BY <1>1, <1>4 DEF SpotInv, PendingOnce
<1> QED BY <1>6, <1>7 DEF SpotInv

\* Steps that move nothing.
LEMMA SpotStays ==
  ASSUME SpotInv, SetIn(p_events') \subseteq SetIn(p_events), p_running' \/ p_announcing = <<>>,
         UNCHANGED <<p_sent, p_queued, p_nextTurn, p_taken, p_prompts, p_announcing, p_announced,
                     p_cleared, p_dropped, p_refused, p_unheard>>
  PROVE  SpotInv'
<1>1. Apart(Spots, p_sent) /\ QueuesOnce
  BY DEF SpotInv, PendingOnce
<1>2. Moved(Spots, Spots', p_sent, 0, {}, 1)
  BY SpotsAre, SpotsAreThen, SpotsStay, NineAre DEF Moved, Nine
<1>3. Apart(Spots, p_sent)'
  BY <1>1, <1>2, SpotsMove
<1>4. PendingOnce'
  BY <1>1, SpotsStay DEF SpotInv, PendingOnce
<1> QED BY <1>3, <1>4 DEF SpotInv

LEMMA SpotStep ==
  ASSUME PendingTypes, SpotInv, [Waiting!PendingNext]_pendingMessageVars
  PROVE  SpotInv'
<1>1. CASE Waiting!RunEnds
  BY <1>1, SpotStays DEF Waiting!RunEnds, Waiting!waitingVars, Waiting!promptVars, Waiting!lossVars
<1>2. CASE Waiting!HandleStart
  <2>1. SetIn(p_events') \subseteq SetIn(p_events)
    BY <1>2, TailIn DEF PendingTypes, Waiting!HandleStart
  <2>2. p_running \/ p_announcing = <<>>
    BY DEF SpotInv, PendingOnce
  <2> QED
    BY <1>2, <2>1, <2>2, SpotStays DEF Waiting!HandleStart, Waiting!runVars, Waiting!promptVars,
       Waiting!lossVars
<1>3. CASE Waiting!Compact
  <2>1. p_running \/ p_announcing = <<>>
    BY DEF SpotInv, PendingOnce
  <2> QED
    BY <1>3, <2>1, SpotStays DEF Waiting!Compact, Waiting!waitingVars, Waiting!runVars,
       Waiting!promptVars, Waiting!lossVars
<1>4. CASE UNCHANGED pendingMessageVars
  <2>1. p_running \/ p_announcing = <<>>
    BY DEF SpotInv, PendingOnce
  <2> QED BY <1>4, <2>1, SpotStays DEF pendingMessageVars
<1> QED
  BY <1>1, <1>2, <1>3, <1>4, SpotSay, SpotPrompt, SpotRoute, SpotAssemble, SpotSubmit, SpotCustom,
     SpotDrain, SpotAnnounce, SpotFails, SpotClear DEF Waiting!PendingNext, Waiting!Channels

----------------------------------------------------------------------------
(* The session's lists say what is queued *)

WithText(f, S, t) == {u \in S : f[u] = t}

LEMMA TextAdded ==
  ASSUME NEW f, NEW S, IsFiniteSet(S), NEW u, u \notin S, NEW t
  PROVE  /\ Cardinality(WithText(f, S, t)) \in Nat
         /\ Cardinality(WithText(f, S \union {u}, t)) =
              Cardinality(WithText(f, S, t)) + (IF f[u] = t THEN 1 ELSE 0)
<1> DEFINE A == WithText(f, S, t)
           B == WithText(f, S \union {u}, t)
<1>1. A \in SUBSET S /\ u \notin A
  BY DEF WithText
<1>2. B = IF f[u] = t THEN A \union {u} ELSE A
  BY DEF WithText
<1> HIDE DEF A, B
<1>3. IsFiniteSet(A)
  BY <1>1, FS_Subset
<1>4. Cardinality(A) \in Nat /\ Cardinality(A \union {u}) = Cardinality(A) + 1
  BY <1>1, <1>3, FS_CardinalityType, FS_AddElement
<1>5. Cardinality(B) = Cardinality(A) + (IF f[u] = t THEN 1 ELSE 0)
  BY <1>2, <1>4
<1> QED BY <1>4, <1>5 DEF A, B

LEMMA TextTaken ==
  ASSUME NEW f, NEW S, IsFiniteSet(S), NEW u \in S, NEW t
  PROVE  Cardinality(WithText(f, S \ {u}, t)) =
           Cardinality(WithText(f, S, t)) - (IF f[u] = t THEN 1 ELSE 0)
<1> DEFINE R == S \ {u}
           n == Cardinality(WithText(f, R, t))
           k == IF f[u] = t THEN 1 ELSE 0
<1>1. IsFiniteSet(R) /\ u \notin R /\ R \union {u} = S
  BY FS_RemoveElement
<1> HIDE DEF R
<1>2. n \in Nat /\ Cardinality(WithText(f, R \union {u}, t)) = n + k
  BY <1>1, TextAdded
<1>3. k \in Nat
  OBVIOUS
<1> HIDE DEF n, k
<1>4. Cardinality(WithText(f, S, t)) = n + k
  BY <1>1, <1>2
<1>5. n = Cardinality(WithText(f, S, t)) - k
  BY <1>2, <1>3, <1>4
<1> QED BY <1>5 DEF n, k, R

LEMMA TextJoined ==
  ASSUME NEW f, NEW S, IsFiniteSet(S), NEW R, IsFiniteSet(R), NEW t
  PROVE  /\ Cardinality(WithText(f, S \union R, t)) <=
              Cardinality(WithText(f, S, t)) + Cardinality(WithText(f, R, t))
         /\ S \cap R = {} => Cardinality(WithText(f, S \union R, t)) =
              Cardinality(WithText(f, S, t)) + Cardinality(WithText(f, R, t))
         /\ S \subseteq R => Cardinality(WithText(f, S, t)) <= Cardinality(WithText(f, R, t))
         /\ Cardinality(WithText(f, S, t)) \in Nat
<1> DEFINE A == WithText(f, S, t)
           B == WithText(f, R, t)
           C == WithText(f, S \union R, t)
<1>1. C = A \union B /\ (S \cap R = {} => A \cap B = {}) /\ (S \subseteq R => A \subseteq B)
  BY DEF WithText
<1>2. A \in SUBSET S /\ B \in SUBSET R
  BY DEF WithText
<1> HIDE DEF A, B, C
<1>3. IsFiniteSet(A) /\ IsFiniteSet(B)
  BY <1>2, FS_Subset
<1>4. IsFiniteSet(A \cap B)
  <2>1. A \cap B \in SUBSET A
    OBVIOUS
  <2> QED BY <1>3, <2>1, FS_Subset
<1>5. /\ Cardinality(A) \in Nat /\ Cardinality(B) \in Nat /\ Cardinality(A \cap B) \in Nat
      /\ Cardinality(C) = Cardinality(A) + Cardinality(B) - Cardinality(A \cap B)
  BY <1>1, <1>3, <1>4, FS_Union, FS_CardinalityType
<1>6. Cardinality(C) <= Cardinality(A) + Cardinality(B)
  BY <1>5
<1>7. S \cap R = {} => Cardinality(C) = Cardinality(A) + Cardinality(B)
  <2> SUFFICES ASSUME S \cap R = {} PROVE Cardinality(C) = Cardinality(A) + Cardinality(B)
    OBVIOUS
  <2>1. A \cap B = {}
    BY <1>1
  <2>2. Cardinality(A \cap B) = 0
    BY <2>1, FS_EmptySet
  <2> QED BY <1>5, <2>2
<1>8. S \subseteq R => Cardinality(A) <= Cardinality(B)
  BY <1>1, <1>3, FS_Subset
<1> QED BY <1>5, <1>6, <1>7, <1>8 DEF A, B, C

\* What is still to be heard of, or will not be.
Unsaid == Waiting!InQueues \union SetIn(p_announcing) \union SetIn(p_events)
          \union p_dropped \union p_unheard
Moving == Waiting!InQueues \union SetIn(p_announcing) \union SetIn(p_announced) \union p_dropped

ListedIs(lists, t) == Waiting!Count(lists["steer"], t) + Waiting!Count(lists["followUp"], t)

\* A queued message of the user is shown; what is shown and has a text is still to be heard
\* of, or never will be; unless one text was taken for another, the lists are the texts of
\* what is shown, and the texts of what was cleared have been given back.
ShownInv ==
  /\ Waiting!InQueues \cap Typed \subseteq p_shown
  /\ \A u \in p_shown : u \in Moving /\ (p_text[u] # "" => u \in Unsaid)
  /\ ~p_mistaken => \A t \in PendingTexts :
       /\ ListedIs(p_lists, t) = Cardinality(WithText(p_text, p_shown, t))
       /\ Cardinality(WithText(p_text, p_cleared \cap Typed, t)) <= Waiting!Count(p_restored, t)

\* Steps that leave the lists alone.
LEMMA ShownStays ==
  ASSUME PendingTypes, ShownInv,
         UNCHANGED <<p_text, p_lists, p_shown, p_mistaken, p_cleared, p_restored>>,
         (Waiting!InQueues)' \cap Typed \subseteq p_shown, Moving \subseteq Moving',
         Unsaid \cap Typed \subseteq Unsaid'
  PROVE  ShownInv'
<1>1. \A u \in p_shown' : u \in Moving' /\ (p_text'[u] # "" => u \in Unsaid')
  BY DEF ShownInv, PendingTypes
<1>2. (Waiting!InQueues)' \cap Typed \subseteq p_shown'
  OBVIOUS
<1>3. ~p_mistaken' => \A t \in PendingTexts :
       /\ ListedIs(p_lists, t)' = Cardinality(WithText(p_text, p_shown, t)')
       /\ Cardinality(WithText(p_text, p_cleared \cap Typed, t)') <= Waiting!Count(p_restored, t)'
  BY DEF ShownInv, ListedIs, WithText, Waiting!Count
<1> QED BY <1>1, <1>2, <1>3 DEF ShownInv

\* The sets of ShownInv in the next state.
LEMMA SetsThen ==
  /\ Moving' = (Waiting!InQueues)' \union SetIn(p_announcing') \union SetIn(p_announced') \union p_dropped'
  /\ Unsaid' = (Waiting!InQueues)' \union SetIn(p_announcing') \union SetIn(p_events')
               \union p_dropped' \union p_unheard'
BY DEF Moving, Unsaid, SetIn, Waiting!ToSet

LEMMA ShownQueue ==
  ASSUME PendingAssumption, PendingTypes, SpotInv, ShownInv,
         NEW u \in Typed, NEW ch \in {"steer", "followUp"}, Waiting!Queue(u, ch),
         u \notin p_sent \/ u \in Asking,
         UNCHANGED <<p_text, p_announcing, p_announced, p_events, p_dropped, p_unheard, p_mistaken,
                     p_cleared, p_restored>>
  PROVE  ShownInv'
<1>1. /\ p_queued' = [p_queued EXCEPT ![ch] = Append(@, u)]
      /\ p_lists' = [p_lists EXCEPT ![ch] = Append(@, p_text[u])]
      /\ p_shown' = p_shown \union {u}
  BY DEF Waiting!Queue
<1>2. QueuesOnce /\ u \in PendingWork /\ Apart(Spots, p_sent) /\ p_text[u] \in PendingTexts
  BY DEF SpotInv, PendingOnce, PendingWork, PendingTypes
<1>3. (Waiting!InQueues)' = Waiting!InQueues \union {u}
  BY <1>1, <1>2, QueueLater
<1>4. u \notin Moving
  <2>1. /\ \A m \in Moving : m \in Spots[1] \/ m \in Spots[5] \/ m \in Spots[6] \/ m \in Spots[8]
    BY SpotsAre DEF Moving
  <2>2. u \in p_sent => u \in Spots[4]
    BY SpotsAre
  <2> QED BY <1>2, <2>1, <2>2, NineAre DEF Apart
<1>5. u \notin p_shown
  BY <1>4 DEF ShownInv
<1>6. Moving' = Moving \union {u} /\ Unsaid' = Unsaid \union {u}
  BY <1>3, SetsThen DEF Moving, Unsaid
<1>7. ASSUME ~p_mistaken', NEW t \in PendingTexts
      PROVE  /\ ListedIs(p_lists', t) = Cardinality(WithText(p_text, p_shown', t))
             /\ Cardinality(WithText(p_text, p_cleared' \cap Typed, t)) <= Waiting!Count(p_restored', t)
  <2>1. IsFiniteSet(p_shown)
    BY FS_Subset DEF PendingAssumption, PendingTypes
  <2>2. Cardinality(WithText(p_text, p_shown', t)) =
          Cardinality(WithText(p_text, p_shown, t)) + (IF p_text[u] = t THEN 1 ELSE 0)
    BY <1>1, <1>5, <2>1, TextAdded
  <2>3. PICK o \in {"steer", "followUp"} : {ch, o} = {"steer", "followUp"} /\ o # ch
    OBVIOUS
  <2>4. /\ p_lists \in [{"steer", "followUp"} -> Seq(PendingTexts)]
        /\ p_lists'[ch] = Append(p_lists[ch], p_text[u]) /\ p_lists'[o] = p_lists[o]
    BY <1>1, <2>3 DEF PendingTypes
  <2>5. Waiting!Count(p_lists'[ch], t) =
          Waiting!Count(p_lists[ch], t) + (IF p_text[u] = t THEN 1 ELSE 0)
    BY <1>2, <2>4, CountAppend
  <2>6. Waiting!Count(p_lists[ch], t) \in Nat /\ Waiting!Count(p_lists[o], t) \in Nat
    BY <2>4, CountType
  <2>7. \A l : ListedIs(l, t) = Waiting!Count(l[ch], t) + Waiting!Count(l[o], t)
               \/ ListedIs(l, t) = Waiting!Count(l[o], t) + Waiting!Count(l[ch], t)
    BY <2>3 DEF ListedIs
  <2>8. ListedIs(p_lists', t) = ListedIs(p_lists, t) + (IF p_text[u] = t THEN 1 ELSE 0)
    <3> DEFINE a == Waiting!Count(p_lists[ch], t)
               b == Waiting!Count(p_lists[o], t)
               k == IF p_text[u] = t THEN 1 ELSE 0
    <3>1. a \in Nat /\ b \in Nat /\ k \in Nat
      BY <2>6
    <3>2. Waiting!Count(p_lists'[ch], t) = a + k /\ Waiting!Count(p_lists'[o], t) = b
      BY <2>4, <2>5
    <3> HIDE DEF a, b, k
    <3>3. ListedIs(p_lists', t) = (a + k) + b
      BY <2>7, <3>1, <3>2
    <3>4. ListedIs(p_lists, t) = a + b
      BY <2>7, <3>1 DEF a, b
    <3> QED BY <3>1, <3>3, <3>4 DEF k
  <2>9. ListedIs(p_lists, t) = Cardinality(WithText(p_text, p_shown, t))
    BY <1>7 DEF ShownInv
  <2>10. Cardinality(WithText(p_text, p_cleared \cap Typed, t)) <= Waiting!Count(p_restored, t)
    BY <1>7 DEF ShownInv
  <2> QED BY <2>2, <2>8, <2>9, <2>10
<1>8. \A v \in p_shown' : v \in Moving' /\ (p_text'[v] # "" => v \in Unsaid')
  BY <1>1, <1>6 DEF ShownInv
<1>9. (Waiting!InQueues)' \cap Typed \subseteq p_shown'
  BY <1>1, <1>3 DEF ShownInv
<1> QED BY <1>7, <1>8, <1>9 DEF ShownInv, ListedIs, WithText, Waiting!Count

LEMMA ShownHear ==
  ASSUME PendingAssumption, PendingTypes, SpotInv, ShownInv,
         NEW m \in Typed, p_events # <<>>, m = Head(p_events), NEW t \in PendingTexts, t = p_text[m],
         Waiting!HearOf(m, t), SetIn(p_events) = SetIn(p_events') \union {m},
         UNCHANGED <<p_text, p_queued, p_announcing, p_announced, p_dropped, p_unheard,
                     p_cleared, p_restored>>
  PROVE  ShownInv'
<1>1. PICK ch \in {"steer", "followUp"} :
        /\ p_lists' = [p_lists EXCEPT ![ch] = Waiting!Without(@, t)]
        /\ p_shown' = p_shown \ {m}
        /\ p_mistaken' = (p_mistaken \/ (Waiting!Contains(p_lists[ch], t) /\ m \notin p_shown))
        /\ ch = "steer" <=> Waiting!Contains(p_lists["steer"], t)
  BY DEF Waiting!HearOf
<1>2. m \in SetIn(p_announced) /\ Apart(Spots, p_sent)
  BY DEF SpotInv, PendingOnce
<1>3. m \notin Waiting!InQueues
  BY <1>2, SpotsAre, NineAre DEF Apart
<1>4. (Waiting!InQueues)' = Waiting!InQueues
  BY SpotsStay
<1>5. (Waiting!InQueues)' \cap Typed \subseteq p_shown'
  BY <1>1, <1>3, <1>4 DEF ShownInv
<1>6. Moving' = Moving /\ Unsaid \subseteq Unsaid' \union {m}
  BY <1>4, SetsThen DEF Moving, Unsaid
<1>7. \A v \in p_shown' : v \in Moving' /\ (p_text'[v] # "" => v \in Unsaid')
  BY <1>1, <1>6 DEF ShownInv
<1>8. PICK o \in {"steer", "followUp"} : {ch, o} = {"steer", "followUp"} /\ o # ch
  OBVIOUS
<1>9. /\ p_lists \in [{"steer", "followUp"} -> Seq(PendingTexts)]
      /\ p_lists[ch] \in Seq(PendingTexts) /\ p_lists[o] \in Seq(PendingTexts)
      /\ p_lists'[ch] = Waiting!Without(p_lists[ch], t) /\ p_lists'[o] = p_lists[o]
  BY <1>1, <1>8 DEF PendingTypes
<1>10. IsFiniteSet(p_shown)
  BY FS_Subset DEF PendingAssumption, PendingTypes
<1>11. \A l, x : \/ ListedIs(l, x) = Waiting!Count(l[ch], x) + Waiting!Count(l[o], x)
                 \/ ListedIs(l, x) = Waiting!Count(l[o], x) + Waiting!Count(l[ch], x)
  BY <1>8 DEF ListedIs
<1>12. ASSUME ~p_mistaken', NEW x \in PendingTexts
       PROVE  ListedIs(p_lists', x) = Cardinality(WithText(p_text, p_shown', x))
  <2> DEFINE a == Waiting!Count(p_lists[ch], x)
             b == Waiting!Count(p_lists[o], x)
             n == Cardinality(WithText(p_text, p_shown, x))
             k == IF t = x THEN 1 ELSE 0
  <2>1. a \in Nat /\ b \in Nat /\ k \in Nat
    BY <1>9, CountType
  <2>2. n \in Nat
    BY <1>10, TextJoined
  <2>3. ~p_mistaken /\ (Waiting!Contains(p_lists[ch], t) => m \in p_shown)
    BY <1>1, <1>12
  <2>4. ListedIs(p_lists, x) = n
    BY <2>3 DEF ShownInv
  <2>5. ListedIs(p_lists, x) = a + b
    <3> HIDE DEF a, b
    <3> QED BY <1>11, <2>1 DEF a, b
  <2>6. CASE Waiting!Contains(p_lists[ch], t)
    <3>1. Waiting!Count(p_lists'[ch], x) = a - k
      BY <1>9, <2>6, CountWithout
    <3>2. Cardinality(WithText(p_text, p_shown', x)) = n - k
      <4>1. m \in p_shown
        BY <2>3, <2>6
      <4>2. \A v \in p_shown :
              Cardinality(WithText(p_text, p_shown \ {v}, x)) =
                Cardinality(WithText(p_text, p_shown, x)) - (IF p_text[v] = x THEN 1 ELSE 0)
        BY <1>10, TextTaken, Zenon
      <4>3. Cardinality(WithText(p_text, p_shown \ {m}, x)) =
              Cardinality(WithText(p_text, p_shown, x)) - (IF p_text[m] = x THEN 1 ELSE 0)
        BY <4>1, <4>2, Zenon
      <4>4. p_text[m] = t
        OBVIOUS
      <4> QED BY <1>1, <4>3, <4>4, Zenon
    <3>3. Waiting!Count(p_lists'[o], x) = b
      BY <1>9
    <3> HIDE DEF a, b, n, k
    <3>4. ListedIs(p_lists', x) = (a - k) + b
      BY <1>11, <2>1, <3>1, <3>3
    <3>5. n = a + b
      BY <2>4, <2>5
    <3>6. (a - k) + b = n - k
      BY <2>1, <3>5
    <3> QED BY <3>2, <3>4, <3>6
  <2>7. CASE ~Waiting!Contains(p_lists[ch], t)
    <3>1. p_lists'[ch] = p_lists[ch]
      BY <1>9, <2>7, CountWithout
    <3>2. ListedIs(p_lists', x) = a + b
      <4>1. Waiting!Count(p_lists'[ch], x) = a /\ Waiting!Count(p_lists'[o], x) = b
        BY <1>9, <3>1
      <4> HIDE DEF a, b
      <4> QED BY <1>11, <2>1, <4>1
    <3>3. ~Waiting!Contains(p_lists["steer"], t) /\ ~Waiting!Contains(p_lists["followUp"], t)
      BY <1>1, <1>8, <2>7
    <3>4. Waiting!Count(p_lists["steer"], t) = 0 /\ Waiting!Count(p_lists["followUp"], t) = 0
      BY <1>9, <3>3, CountWithout
    <3>5. Cardinality(WithText(p_text, p_shown, t)) = 0
      <4>1. ListedIs(p_lists, t) = 0
        BY <3>4 DEF ListedIs
      <4>2. ListedIs(p_lists, t) = Cardinality(WithText(p_text, p_shown, t))
        BY <2>3 DEF ShownInv
      <4> QED BY <4>1, <4>2
    <3>6. m \notin p_shown
      <4>1. WithText(p_text, p_shown, t) \in SUBSET p_shown
        BY DEF WithText
      <4>2. WithText(p_text, p_shown, t) = {}
        BY <1>10, <3>5, <4>1, FS_Subset, FS_EmptySet
      <4> QED BY <4>2 DEF WithText
    <3>7. p_shown' = p_shown
      BY <1>1, <3>6
    <3> QED BY <2>4, <2>5, <3>2, <3>7
  <2> QED BY <2>6, <2>7
<1>13. ASSUME ~p_mistaken', NEW x \in PendingTexts
       PROVE  Cardinality(WithText(p_text, p_cleared' \cap Typed, x)) <= Waiting!Count(p_restored', x)
  <2>1. ~p_mistaken
    BY <1>1, <1>13
  <2> QED BY <2>1 DEF ShownInv
<1> QED BY <1>5, <1>7, <1>12, <1>13 DEF ShownInv, ListedIs, WithText, Waiting!Count

LEMMA ShownClear ==
  ASSUME PendingAssumption, PendingTypes, SpotInv, ShownInv, Waiting!ClearQueue
  PROVE  ShownInv'
<1>1. /\ p_cleared' = p_cleared \union Waiting!InQueues
      /\ p_lists' = [ch \in {"steer", "followUp"} |-> <<>>]
      /\ p_queued' = [ch \in {"steer", "followUp"} |-> <<>>]
      /\ p_restored' = p_restored \o (p_lists["steer"] \o p_lists["followUp"]) /\ p_shown' = {}
      /\ UNCHANGED <<p_text, p_mistaken>>
  BY DEF Waiting!ClearQueue, Waiting!Channels, Waiting!Returned
<1>2. (Waiting!InQueues)' = {}
  <2>1. (Waiting!InQueues)' = SetIn(p_queued'["steer"]) \union SetIn(p_queued'["followUp"])
    BY DEF Waiting!InQueues, SetIn, Waiting!ToSet
  <2>2. SetIn(<<>>) = {}
    BY NoneIn
  <2> QED BY <1>1, <2>1, <2>2
<1>3. /\ p_lists["steer"] \in Seq(PendingTexts) /\ p_lists["followUp"] \in Seq(PendingTexts)
      /\ p_restored \in Seq(PendingTexts)
  BY DEF PendingTypes
<1>4. ASSUME ~p_mistaken', NEW t \in PendingTexts
      PROVE  /\ ListedIs(p_lists', t) = Cardinality(WithText(p_text, p_shown', t))
             /\ Cardinality(WithText(p_text, p_cleared' \cap Typed, t)) <= Waiting!Count(p_restored', t)
  <2>1. Waiting!Count(<<>>, t) = 0
    <3>0. <<>> \in Seq(PendingTexts) /\ \A i \in 1 .. Len(<<>>) : FALSE
      OBVIOUS
    <3>1. \E empty \in Seq(PendingTexts) : empty = <<>> /\ \A i \in 1 .. Len(empty) : FALSE
      BY <3>0, Zenon
    <3>2. PICK empty \in Seq(PendingTexts) : empty = <<>> /\ \A i \in 1 .. Len(empty) : FALSE
      BY <3>1
    <3>3. Waiting!Count(empty, t) = 0
      BY <3>2, CountType
    <3> QED BY <3>2, <3>3
  <2>2. ListedIs(p_lists', t) = 0
    BY <1>1, <2>1 DEF ListedIs
  <2>3. Cardinality(WithText(p_text, p_shown', t)) = 0
    <3>1. WithText(p_text, p_shown', t) = {}
      BY <1>1 DEF WithText
    <3> QED BY <3>1, FS_EmptySet
  <2> DEFINE C == p_cleared \cap Typed
             Q == Waiting!InQueues \cap Typed
  <2>4. /\ IsFiniteSet(C) /\ IsFiniteSet(Q) /\ IsFiniteSet(p_shown) /\ Q \subseteq p_shown
    BY FS_Subset DEF PendingAssumption, PendingTypes, ShownInv
  <2>5. p_cleared' \cap Typed = C \union Q
    BY <1>1
  <2> DEFINE c == Cardinality(WithText(p_text, C, t))
             q == Cardinality(WithText(p_text, Q, t))
             n == Cardinality(WithText(p_text, p_shown, t))
             r == Waiting!Count(p_restored, t)
             x == Waiting!Count(p_lists["steer"], t)
             y == Waiting!Count(p_lists["followUp"], t)
  <2>6. /\ Cardinality(WithText(p_text, p_cleared' \cap Typed, t)) <= c + q
        /\ c \in Nat /\ q \in Nat /\ n \in Nat /\ q <= n
    <3> HIDE DEF C, Q
    <3>1. Cardinality(WithText(p_text, C \union Q, t)) <= c + q /\ c \in Nat
      BY <2>4, TextJoined
    <3>2. q \in Nat /\ q <= n /\ n \in Nat
      BY <2>4, TextJoined
    <3> QED BY <2>5, <3>1, <3>2
  <2>7. c <= r /\ x + y = n
    BY <1>1, <1>4 DEF ShownInv, ListedIs
  <2>8. r \in Nat /\ x \in Nat /\ y \in Nat
    BY <1>3, CountType
  <2>9. Waiting!Count(p_restored', t) = r + (x + y)
    <3>1. PICK both \in Seq(PendingTexts) : both = p_lists["steer"] \o p_lists["followUp"]
      <4>1. p_lists["steer"] \o p_lists["followUp"] \in Seq(PendingTexts)
        BY <1>3
      <4> QED BY <4>1, Zenon
    <3>2. Waiting!Count(both, t) = x + y
      BY <1>3, <3>1, CountJoin
    <3>3. Waiting!Count(p_restored \o both, t) = r + Waiting!Count(both, t)
      BY <1>3, <3>1, CountJoin
    <3> QED BY <1>1, <3>1, <3>2, <3>3
  <2>10. IsFiniteSet(C \union Q) /\ Cardinality(WithText(p_text, p_cleared' \cap Typed, t)) \in Nat
    <3> HIDE DEF C, Q
    <3>1. IsFiniteSet(C \union Q)
      BY <2>4, FS_Union
    <3> QED BY <2>5, <3>1, TextJoined
  <2> DEFINE z == Cardinality(WithText(p_text, p_cleared' \cap Typed, t))
  <2>11. z <= c + q /\ z \in Nat
    BY <2>6, <2>10
  <2>12. z <= r + (x + y)
    <3> HIDE DEF z, c, q, n, r, x, y
    <3> QED BY <2>6, <2>7, <2>8, <2>11
  <2> QED BY <2>2, <2>3, <2>9, <2>12
<1> QED BY <1>1, <1>2, <1>4 DEF ShownInv, ListedIs, WithText, Waiting!Count

\* Steps after which the same messages are in the agent's queues.
LEMMA ShownQuiet ==
  ASSUME PendingTypes, ShownInv,
         UNCHANGED <<p_text, p_lists, p_shown, p_mistaken, p_cleared, p_restored, p_queued>>,
         p_dropped \subseteq p_dropped', p_unheard \subseteq p_unheard',
         SetIn(p_announced) \subseteq SetIn(p_announced'), SetIn(p_events) \subseteq SetIn(p_events'),
         \A m \in SetIn(p_announcing) :
           /\ m \in SetIn(p_announcing') \union SetIn(p_announced') \union p_dropped'
           /\ m \in Typed => m \in SetIn(p_announcing') \union SetIn(p_events') \union p_dropped'
                                   \union p_unheard'
  PROVE  ShownInv'
<1>1. (Waiting!InQueues)' = Waiting!InQueues
  BY SpotsStay
<1>2. (Waiting!InQueues)' \cap Typed \subseteq p_shown
  BY <1>1 DEF ShownInv
<1>3. Moving \subseteq Moving'
  BY <1>1, SetsThen DEF Moving
<1>4. Unsaid \cap Typed \subseteq Unsaid'
  BY <1>1, SetsThen DEF Unsaid
<1> QED BY <1>2, <1>3, <1>4, ShownStays

LEMMA ShownStep ==
  ASSUME PendingAssumption, PendingTypes, SpotInv, ShownInv, [Waiting!PendingNext]_pendingMessageVars
  PROVE  ShownInv'
<1>1. ASSUME NEW u \in Typed, NEW ch \in {"steer", "followUp"}, Waiting!Say(u, ch) PROVE ShownInv'
  BY <1>1, ShownQueue DEF Waiting!Say, Waiting!runVars, Waiting!lossVars
<1>2. ASSUME NEW u \in Typed, Waiting!Prompt(u) PROVE ShownInv'
  BY <1>2, ShownQuiet DEF Waiting!Prompt, Waiting!waitingVars, Waiting!runVars, Waiting!lossVars
<1>3. ASSUME NEW u \in Typed, Waiting!Route(u) PROVE ShownInv'
  <2>1. u \in Asking
    BY <1>3 DEF Waiting!Route, Asking
  <2>2. ASSUME NEW ch \in {"steer", "followUp"}, Waiting!Queue(u, ch) PROVE ShownInv'
    BY <1>3, <2>1, <2>2, ShownQueue DEF Waiting!Route, Waiting!runVars
  <2>3. CASE UNCHANGED <<p_queued, p_lists, p_shown>>
    BY <1>3, <2>3, ShownQuiet DEF Waiting!Route, Waiting!runVars
  <2> QED BY <1>3, <2>2, <2>3 DEF Waiting!Route, Waiting!Channels
<1>4. ASSUME NEW u \in Typed, Waiting!Assemble(u) PROVE ShownInv'
  BY <1>4, ShownQuiet DEF Waiting!Assemble, Waiting!TakeNextTurn, Waiting!runVars, Waiting!lossVars
<1>5. ASSUME NEW u \in Typed, Waiting!Submit(u) PROVE ShownInv'
  <2>1. ~p_running => SetIn(p_announcing) = {}
    BY NoneIn DEF SpotInv, PendingOnce
  <2>2. UNCHANGED p_announcing \/ SetIn(p_announcing) = {}
    BY <1>5, <2>1 DEF Waiting!Submit
  <2> QED BY <1>5, <2>2, ShownQuiet DEF Waiting!Submit, Waiting!waitingVars
<1>6. ASSUME NEW c \in Notices, Waiting!SendCustom(c) PROVE ShownInv'
  <2>1. c \in PendingWork /\ c \notin Typed /\ QueuesOnce
    BY DEF PendingWork, PendingAssumption, SpotInv, PendingOnce
  <2>2. ~p_running => SetIn(p_announcing) = {}
    BY NoneIn DEF SpotInv, PendingOnce
  <2>3. /\ UNCHANGED p_announcing \/ SetIn(p_announcing) = {}
        /\ UNCHANGED <<p_text, p_lists, p_shown, p_mistaken, p_cleared, p_restored, p_events,
                       p_dropped, p_unheard>>
    BY <1>6, <2>2 DEF Waiting!SendCustom, Waiting!lossVars
  <2>4. SetIn(p_announced) \subseteq SetIn(p_announced')
    <3>1. SetIn(Append(p_announced, c)) = SetIn(p_announced) \union {c}
      BY <2>1, AppendIn DEF PendingTypes
    <3> QED BY <1>6, <3>1 DEF Waiting!SendCustom
  <2>5. /\ Waiting!InQueues \subseteq (Waiting!InQueues)'
        /\ (Waiting!InQueues)' \subseteq Waiting!InQueues \union {c}
    <3>1. ASSUME NEW ch \in {"steer", "followUp"}, p_queued' = [p_queued EXCEPT ![ch] = Append(@, c)]
          PROVE  (Waiting!InQueues)' = Waiting!InQueues \union {c}
      BY <2>1, <3>1, QueueLater
    <3>2. UNCHANGED p_queued => (Waiting!InQueues)' = Waiting!InQueues
      BY SpotsStay
    <3> QED BY <1>6, <3>1, <3>2 DEF Waiting!SendCustom, Waiting!Channels
  <2>6. (Waiting!InQueues)' \cap Typed \subseteq p_shown
    BY <2>1, <2>5 DEF ShownInv
  <2>7. SetIn(p_announcing) \subseteq SetIn(p_announcing') /\ SetIn(p_events') = SetIn(p_events)
    BY <2>3
  <2>8. Moving \subseteq Moving' /\ Unsaid \cap Typed \subseteq Unsaid'
    BY <2>3, <2>4, <2>5, <2>7, SetsThen DEF Moving, Unsaid
  <2> QED BY <2>3, <2>6, <2>8, ShownStays
<1>7. ASSUME NEW ch \in {"steer", "followUp"}, Waiting!Drain(ch) PROVE ShownInv'
  <2> DEFINE S == SetIn(Waiting!Drained(p_queued[ch]))
  <2>1. /\ p_queued[ch] # <<>> /\ p_announcing = <<>>
        /\ p_announcing' = Waiting!Drained(p_queued[ch])
        /\ p_queued' = [p_queued EXCEPT ![ch] = Waiting!Left(@)] /\ QueuesOnce
        /\ UNCHANGED <<p_text, p_lists, p_shown, p_mistaken, p_cleared, p_restored, p_events,
                       p_announced, p_dropped, p_unheard>>
    BY <1>7 DEF Waiting!Drain, Waiting!lossVars, SpotInv, PendingOnce
  <2>2. (Waiting!InQueues)' = Waiting!InQueues \ S /\ S \subseteq Waiting!InQueues
    BY <2>1, QueueDrained
  <2>3. SetIn(p_announcing) = {} /\ SetIn(p_announcing') = S
    BY <2>1, NoneIn
  <2> HIDE DEF S
  <2>4. (Waiting!InQueues)' \cap Typed \subseteq p_shown
    BY <2>2 DEF ShownInv
  <2>5. SetIn(p_events') = SetIn(p_events) /\ SetIn(p_announced') = SetIn(p_announced)
    BY <2>1
  <2>6. Moving \subseteq Moving' /\ Unsaid \cap Typed \subseteq Unsaid'
    BY <2>1, <2>2, <2>3, <2>5, SetsThen DEF Moving, Unsaid
  <2> QED BY <2>1, <2>4, <2>6, ShownStays
<1>8. CASE Waiting!Announce
  <2>1. PICK m : m = Head(p_announcing)
    OBVIOUS
  <2>2. /\ p_announcing # <<>> /\ p_announcing' = Tail(p_announcing)
        /\ p_announced' = Append(p_announced, m)
        /\ p_events' = IF m \in Typed /\ p_connection = "on" THEN Append(p_events, m) ELSE p_events
        /\ p_unheard' = IF p_connection = "on" THEN p_unheard ELSE p_unheard \union {m}
        /\ UNCHANGED <<p_text, p_lists, p_shown, p_mistaken, p_cleared, p_restored, p_queued,
                       p_dropped>>
    BY <1>8, <2>1 DEF Waiting!Announce, Waiting!waitingVars
  <2>3. m \in PendingWork /\ SetIn(p_announcing) = SetIn(p_announcing') \union {m}
    BY <2>1, <2>2, TailIn DEF PendingTypes
  <2>4. SetIn(p_announced') = SetIn(p_announced) \union {m}
    BY <2>2, <2>3, AppendIn DEF PendingTypes
  <2>5. IF m \in Typed /\ p_connection = "on" THEN SetIn(p_events') = SetIn(p_events) \union {m}
        ELSE SetIn(p_events') = SetIn(p_events)
    BY <2>2, AppendIn DEF PendingTypes
  <2>6. p_unheard \subseteq p_unheard' /\ (p_connection = "on" \/ m \in p_unheard')
    BY <2>2
  <2>7. \A v \in SetIn(p_announcing) :
          /\ v \in SetIn(p_announcing') \union SetIn(p_announced') \union p_dropped'
          /\ v \in Typed => v \in SetIn(p_announcing') \union SetIn(p_events') \union p_dropped'
                                  \union p_unheard'
    BY <2>3, <2>4, <2>5, <2>6
  <2> QED BY <2>2, <2>4, <2>5, <2>6, <2>7, ShownQuiet
<1>9. CASE Waiting!RunEnds
  BY <1>9, ShownQuiet DEF Waiting!RunEnds, Waiting!waitingVars, Waiting!lossVars
<1>10. CASE Waiting!RunFails
  <2>1. p_dropped' = p_dropped \union SetIn(p_announcing)
    BY <1>10 DEF Waiting!RunFails, SetIn
  <2> QED BY <1>10, <2>1, ShownQuiet DEF Waiting!RunFails, Waiting!waitingVars
<1>11. CASE Waiting!HandleStart
  <2>1. PICK m : m = Head(p_events)
    OBVIOUS
  <2>2. /\ p_events # <<>> /\ p_events' = Tail(p_events)
        /\ UNCHANGED <<p_text, p_queued, p_announcing, p_announced, p_dropped, p_unheard,
                       p_cleared, p_restored>>
    BY <1>11 DEF Waiting!HandleStart, Waiting!runVars, Waiting!lossVars
  <2>3. m \in Typed /\ SetIn(p_events) = SetIn(p_events') \union {m}
    BY <2>1, <2>2, TailIn DEF PendingTypes
  <2>4. p_text[m] \in PendingTexts
    BY <2>3 DEF PendingTypes
  <2>5. CASE p_text[m] = ""
    <3>1. UNCHANGED <<p_lists, p_shown, p_mistaken>>
      BY <1>11, <2>1, <2>5 DEF Waiting!HandleStart
    <3>2. (Waiting!InQueues)' = Waiting!InQueues
      BY <2>2, SpotsStay
    <3>3. Moving' = Moving /\ Unsaid \subseteq Unsaid' \union {m}
      BY <2>2, <2>3, <3>2, SetsThen DEF Moving, Unsaid
    <3>4. \A u \in p_shown' : u \in Moving' /\ (p_text'[u] # "" => u \in Unsaid')
      BY <2>2, <2>5, <3>1, <3>3 DEF ShownInv
    <3>5. (Waiting!InQueues)' \cap Typed \subseteq p_shown'
      BY <3>1, <3>2 DEF ShownInv
    <3>6. ~p_mistaken' => \A t \in PendingTexts :
           /\ ListedIs(p_lists, t)' = Cardinality(WithText(p_text, p_shown, t)')
           /\ Cardinality(WithText(p_text, p_cleared \cap Typed, t)') <= Waiting!Count(p_restored, t)'
      BY <2>2, <3>1 DEF ShownInv, ListedIs, WithText, Waiting!Count
    <3> QED BY <3>4, <3>5, <3>6 DEF ShownInv
  <2>6. CASE p_text[m] # ""
    <3>1. PICK t \in PendingTexts : t = p_text[m]
      BY <2>4
    <3>2. Waiting!HearOf(m, t)
      BY <1>11, <2>1, <2>6, <3>1 DEF Waiting!HandleStart
    <3> QED BY <2>1, <2>2, <2>3, <3>1, <3>2, ShownHear
  <2> QED BY <2>5, <2>6
<1>12. CASE Waiting!ClearQueue
  BY <1>12, ShownClear
<1>13. CASE Waiting!Compact
  BY <1>13, ShownQuiet DEF Waiting!Compact, Waiting!waitingVars, Waiting!runVars, Waiting!lossVars
<1>14. CASE UNCHANGED pendingMessageVars
  BY <1>14, ShownQuiet DEF pendingMessageVars
<1> QED
  BY <1>1, <1>2, <1>3, <1>4, <1>5, <1>6, <1>7, <1>8, <1>9, <1>10, <1>11, <1>12, <1>13, <1>14
     DEF Waiting!PendingNext, Waiting!Channels

\* A message that was handed in is in exactly one place.
LEMMA OnePlace ==
  ASSUME Apart(Spots, p_sent), PendingTypes
  PROVE  \A m \in p_sent : LET places == Waiting!Places(m) IN
           Waiting!Cardinality({i \in 1 .. 9 : places[i]}) = 1
<1> SUFFICES ASSUME NEW m \in p_sent
             PROVE  Waiting!Cardinality({i \in 1 .. 9 : Waiting!Places(m)[i]}) = 1
  OBVIOUS
<1>1. \A i \in 1 .. 9 : Waiting!Places(m)[i] <=> m \in Spots[i]
  <2>1. /\ Waiting!Places(m)[1] <=> m \in Waiting!InQueues
        /\ Waiting!Places(m)[2] <=> m \in SetIn(p_nextTurn)
        /\ Waiting!Places(m)[3] <=> \E u \in Typed : m \in SetIn(p_taken[u])
        /\ Waiting!Places(m)[4] <=> m \in Typed /\ p_prompts[m] \in {"asked", "checking"}
        /\ Waiting!Places(m)[5] <=> m \in SetIn(p_announcing)
        /\ Waiting!Places(m)[6] <=> m \in SetIn(p_announced)
        /\ Waiting!Places(m)[7] <=> m \in p_cleared
        /\ Waiting!Places(m)[8] <=> m \in p_dropped
        /\ Waiting!Places(m)[9] <=> m \in p_refused
    BY DEF Waiting!Places, SetIn
  <2>2. Waiting!Places(m)[3] <=> m \in Taking
    BY <2>1 DEF Taking
  <2>3. Waiting!Places(m)[4] <=> m \in Asking
    BY <2>1 DEF Asking
  <2> QED BY <2>1, <2>2, <2>3, SpotsAre, NineAre DEF Nine
<1>2. PICK k \in 1 .. 9 : m \in Spots[k]
  BY DEF Apart
<1>3. \A i \in 1 .. 9 : m \in Spots[i] => i = k
  BY <1>2 DEF Apart
<1>4. {i \in 1 .. 9 : Waiting!Places(m)[i]} = {k}
  BY <1>1, <1>2, <1>3
<1>5. Cardinality({k}) = 1
  BY FS_Singleton
<1> QED BY <1>4, <1>5, WaitingCounts

HasText(t) == t # ""

\* With nothing under way, a text of the lists is that of a queued message, or of one that
\* will never be heard of.
LEMMA ListsShow ==
  ASSUME PendingAssumption, PendingTypes, SpotInv, ShownInv, ~p_mistaken,
         SetIn(p_announcing) = {}, SetIn(p_events) = {}, NEW t \in PendingTexts, HasText(t)
  PROVE  ListedIs(p_lists, t) =
           Cardinality(WithText(p_text, Waiting!InQueues \cap Typed, t))
           + Cardinality(WithText(p_text, p_shown \cap (p_dropped \union p_unheard), t))
<1> DEFINE Q == Waiting!InQueues \cap Typed
           L == p_shown \cap (p_dropped \union p_unheard)
<1>1. Q \in SUBSET p_shown /\ L \in SUBSET p_shown /\ IsFiniteSet(p_shown)
  BY FS_Subset DEF ShownInv, PendingAssumption, PendingTypes
<1>2. Q \cap L = {}
  <2>1. Waiting!InQueues \cap p_dropped = {} /\ Waiting!InQueues \cap SetIn(p_announced) = {}
    <3>1. \A i, j \in 1 .. 9 : i # j => Spots[i] \cap Spots[j] = {}
      BY DEF SpotInv, Apart
    <3>2. Spots[1] \cap Spots[8] = {} /\ Spots[1] \cap Spots[6] = {}
      BY <3>1
    <3> QED BY <3>2, SpotsAre
  <2>2. p_unheard \subseteq SetIn(p_announced)
    BY DEF SpotInv, PendingOnce
  <2> QED BY <2>1, <2>2
<1>3. WithText(p_text, p_shown, t) = WithText(p_text, Q \union L, t)
  <2>1. \A u \in p_shown : p_text[u] = t => u \in Q \union L
    BY DEF ShownInv, Unsaid, PendingTypes, HasText
  <2> HIDE DEF Q, L
  <2> QED BY <1>1, <2>1 DEF WithText
<1>4. ListedIs(p_lists, t) = Cardinality(WithText(p_text, p_shown, t))
  BY DEF ShownInv
<1> HIDE DEF Q, L
<1>5. IsFiniteSet(Q) /\ IsFiniteSet(L)
  BY <1>1, FS_Subset
<1>6. Cardinality(WithText(p_text, Q \union L, t)) =
        Cardinality(WithText(p_text, Q, t)) + Cardinality(WithText(p_text, L, t))
  BY <1>2, <1>5, TextJoined
<1>7. ListedIs(p_lists, t) =
        Cardinality(WithText(p_text, Q, t)) + Cardinality(WithText(p_text, L, t))
  BY <1>3, <1>4, <1>6
<1> QED BY <1>7 DEF Q, L
=============================================================================

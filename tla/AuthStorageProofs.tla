-------------------------- MODULE AuthStorageProofs --------------------------
(***************************************************************************)
(* Theorems about AuthStorage for any number of processes, of calls, of    *)
(* tokens, of changes and of faults.  Names says how a process, a call and *)
(* "none" are told apart.                                                  *)
(***************************************************************************)
EXTENDS AuthStorage, TLAPS

Credentials(n) == [oauth : 0 .. n, other : 0 .. MaxChanges + 1]

Phases == {"idle", "locking", "refreshing", "refreshed", "failing",
           "releasing", "reloading", "done"}
Jobs(n) == [kind : {"reload", "set", "login", "logout"}, value : Nat,
            caller : Callers \union {None}, read : Credentials(n),
            at : {"ensure", "lock", "write"}]

Names ==
  /\ ProcessOf \in [Callers -> Processes]
  /\ Processes \intersect Callers = {}
  /\ None \notin Processes \union Callers
  /\ \A n \in Nat : None \notin Credentials(n) \union Jobs(n)
  /\ MaxChanges \in Nat

----------------------------------------------------------------------------
(* Types *)

\* What a job would save is a credential of its kind.
JobValues ==
  \A p \in Processes : job[p] # None =>
    /\ job[p] \in Jobs(issued)
    /\ job[p].kind = "set" => job[p].value \in 0 .. MaxChanges + 1
    /\ job[p].kind = "login" => job[p].value \in 0 .. issued

\* A process does nothing else before it has made sure that there is a file.
FileEnsured ==
  file = None =>
    /\ \A p \in Processes \ crashed : job[p] # None /\ job[p].at = "ensure"
    /\ \A c \in Callers : phase[c] = "idle"

StorageTypeOK ==
  /\ issued \in Nat \ {0} /\ changes \in 0 .. MaxChanges /\ faults \in Nat
  /\ crashed \subseteq Processes
  /\ file \in Credentials(issued) \union {None}
  /\ lock \in [owner : Processes \union Callers \union {None}, age : {"young", "old", "dead"}]
  /\ data \in [Processes -> Credentials(issued)]
  /\ loadError \in [Processes -> BOOLEAN]
  /\ DOMAIN job = Processes /\ JobValues
  /\ phase \in [Callers -> Phases]
  /\ base \in [Callers -> Credentials(issued)]
  /\ fresh \in [Callers -> 0 .. issued] /\ key \in [Callers -> 0 .. issued]
  /\ compromised \in [Callers -> BOOLEAN]
  /\ live \subseteq 1 .. issued /\ expired \subseteq 1 .. issued
  /\ reused \in BOOLEAN /\ disturbed \in BOOLEAN /\ recreated \in BOOLEAN
  /\ FileEnsured

\* Numbers up to n are numbers up to n + 1.
LEMMA Later ==
  ASSUME NEW n \in Nat
  PROVE  /\ 0 .. n \subseteq 0 .. (n + 1) /\ 1 .. n \subseteq 1 .. (n + 1)
         /\ Credentials(n) \subseteq Credentials(n + 1)
         /\ Jobs(n) \subseteq Jobs(n + 1)
<1>1. 0 .. n \subseteq 0 .. (n + 1) /\ 1 .. n \subseteq 1 .. (n + 1)
  OBVIOUS
<1>2. Credentials(n) \subseteq Credentials(n + 1)
  BY <1>1 DEF Credentials
<1> QED BY <1>1, <1>2 DEF Jobs

\* Credentials after a change of one of them.
LEMMA OneChanged ==
  ASSUME NEW n \in Nat, NEW r \in Credentials(n)
  PROVE  /\ \A v \in 0 .. MaxChanges + 1 : [r EXCEPT !.other = v] \in Credentials(n)
         /\ \A v \in 0 .. n : [r EXCEPT !.oauth = v] \in Credentials(n)
         /\ r.oauth \in 0 .. n /\ r.other \in 0 .. MaxChanges + 1
  BY DEF Credentials

\* An empty file holds credentials.
LEMMA EmptyCredentials ==
  ASSUME NEW n \in Nat, Names PROVE Empty \in Credentials(n)
  BY DEF Empty, Credentials, Names

\* A new job is a job.
LEMMA JobType ==
  ASSUME Names, StorageTypeOK, NEW k \in {"reload", "set", "login", "logout"}, NEW v \in Nat,
         NEW c \in Callers \union {None}
  PROVE  /\ Job(k, v, c) \in Jobs(issued)
         /\ Job(k, v, c).kind = k /\ Job(k, v, c).value = v
         /\ file # None => Job(k, v, c).at = "lock"
  BY EmptyCredentials DEF Job, Jobs, StorageTypeOK

\* Every step keeps the types.
LEMMA StorageTypeStep == Names /\ StorageTypeOK /\ [Next]_vars => StorageTypeOK'
<1> SUFFICES ASSUME Names, StorageTypeOK, [Next]_vars PROVE StorageTypeOK'
  OBVIOUS
<1>a. issued \in Nat /\ issued + 1 \in Nat /\ MaxChanges \in Nat
  BY DEF StorageTypeOK, Names
<1>1. ASSUME NEW p \in Processes, EnsureFile(p) PROVE StorageTypeOK'
  BY <1>1, <1>a, EmptyCredentials
     DEF EnsureFile, StorageTypeOK, JobValues, FileEnsured, Jobs, callerVars, providerVars,
         bounds, Names
<1>2. ASSUME NEW p \in Processes, SyncLock(p) PROVE StorageTypeOK'
  <2>1. file \in Credentials(issued) /\ job[p] \in Jobs(issued)
    BY <1>2 DEF SyncLock, StorageTypeOK, JobValues, FileEnsured
  <2>2. [job[p] EXCEPT !.at = "write", !.read = file] \in Jobs(issued)
    BY <2>1 DEF Jobs
  <2>3. JobValues' /\ DOMAIN job' = Processes
    BY <1>2, <2>1, <2>2 DEF SyncLock, StorageTypeOK, JobValues, Jobs, providerVars
  <2>4. FileEnsured'
    BY <1>2, <2>1 DEF SyncLock, StorageTypeOK, FileEnsured, bounds
  <2> QED BY <1>2, <2>3, <2>4 DEF SyncLock, StorageTypeOK, callerVars, providerVars, bounds, OwnerLives
<1>3. ASSUME NEW p \in Processes, SyncLocked(p) PROVE StorageTypeOK'
  <2>1. FileEnsured'
    BY <1>3 DEF SyncLocked, StorageTypeOK, FileEnsured, bounds
  <2>2. UNCHANGED key \/ \E v \in 0 .. issued : key' = [key EXCEPT ![job[p].caller] = v]
    BY <1>3, OneChanged DEF SyncLocked, AfterReload, callerVars, StorageTypeOK
  <2>3. key' \in [Callers -> 0 .. issued]
    BY <2>2 DEF StorageTypeOK
  <2> QED
    BY <1>3, <2>1, <2>3
       DEF SyncLocked, AfterReload, StorageTypeOK, JobValues, callerVars, providerVars, bounds,
           history, Phases
<1>4. ASSUME NEW p \in Processes, SyncWrite(p) PROVE StorageTypeOK'
  <2>1. file # None /\ job[p] \in Jobs(issued) /\ job[p].read \in Credentials(issued)
    BY <1>4 DEF SyncWrite, StorageTypeOK, FileEnsured, JobValues, Jobs
  <2>2. job[p].kind # "reload" => Saved(p) \in Credentials(issued)
    <3>1. CASE job[p].kind = "set"
      BY <1>4, <1>a, <2>1, <3>1, OneChanged DEF SyncWrite, StorageTypeOK, JobValues, Saved
    <3>2. CASE job[p].kind = "login"
      BY <1>4, <1>a, <2>1, <3>2, OneChanged DEF SyncWrite, StorageTypeOK, JobValues, Saved
    <3>3. CASE job[p].kind = "logout"
      BY <1>a, <2>1, <3>3, OneChanged DEF Saved
    <3> QED BY <2>1, <3>1, <3>2, <3>3 DEF Jobs
  <2>3. file' \in Credentials(issued) /\ data' \in [Processes -> Credentials(issued)]
    BY <1>4, <2>1, <2>2 DEF SyncWrite, StorageTypeOK
  <2>4. FileEnsured'
    BY <1>a, <2>3 DEF FileEnsured, Names
  <2>5. UNCHANGED key \/ \E v \in 0 .. issued : key' = [key EXCEPT ![job[p].caller] = v]
    <3>1. job[p].read.oauth \in 0 .. issued /\ 0 \in 0 .. issued
      BY <1>a, <2>1, OneChanged
    <3> QED BY <1>4, <3>1 DEF SyncWrite, AfterReload, callerVars
  <2>6. key' \in [Callers -> 0 .. issued] /\ phase' \in [Callers -> Phases]
    BY <1>4, <2>5 DEF SyncWrite, AfterReload, callerVars, StorageTypeOK, Phases
  <2>7. JobValues' /\ DOMAIN job' = Processes
    BY <1>4 DEF SyncWrite, StorageTypeOK, JobValues, providerVars
  <2> QED
    BY <1>4, <2>3, <2>4, <2>6, <2>7
       DEF SyncWrite, AfterReload, StorageTypeOK, Free, callerVars, providerVars, bounds, history
<1>5. ASSUME NEW p \in Processes, Set(p) PROVE StorageTypeOK'
  <2>1. changes + 2 \in 0 .. MaxChanges + 1 /\ changes' \in 0 .. MaxChanges /\ changes + 2 \in Nat
    BY <1>5, <1>a DEF Set, StorageTypeOK
  <2>2. data' \in [Processes -> Credentials(issued)]
    BY <1>5, <1>a, <2>1, OneChanged DEF Set, StorageTypeOK
  <2>3. DOMAIN job' = Processes /\ JobValues'
    <3> DEFINE j == Job("set", changes + 2, None)
    <3>1. j \in Jobs(issued) /\ j.kind = "set" /\ j.value = changes + 2
      BY <2>1, JobType
    <3>2. UNCHANGED job \/ job' = [job EXCEPT ![p] = j]
      BY <1>5 DEF Set, Persist
    <3> HIDE DEF j
    <3> QED BY <1>5, <2>1, <3>1, <3>2 DEF Set, StorageTypeOK, JobValues, providerVars
  <2>4. FileEnsured'
    BY <1>5 DEF Set, Running, StorageTypeOK, FileEnsured
  <2> QED BY <1>5, <2>1, <2>2, <2>3, <2>4 DEF Set, StorageTypeOK, callerVars, providerVars
<1>6. ASSUME NEW p \in Processes, Login(p) PROVE StorageTypeOK'
  <2>1. changes' \in 0 .. MaxChanges /\ issued' = issued + 1
    BY <1>6, <1>a DEF Login, StorageTypeOK
  <2>2. data' \in [Processes -> Credentials(issued')]
    <3>1. data \in [Processes -> Credentials(issued')]
      BY <1>a, <2>1, Later DEF StorageTypeOK
    <3>2. data' = [data EXCEPT ![p] = [data[p] EXCEPT !.oauth = issued']]
      BY <1>6 DEF Login
    <3> QED BY <1>a, <2>1, <3>1, <3>2, OneChanged
  <2>3. /\ Job("login", issued', None) \in Jobs(issued')
        /\ Job("login", issued', None).value = issued' /\ Job("login", issued', None).kind = "login"
    BY <1>a, <2>1, JobType, Later
  <2>4. DOMAIN job' = Processes /\ JobValues'
    BY <1>6, <1>a, <2>1, <2>3, Later DEF Login, Persist, StorageTypeOK, JobValues
  <2>5. FileEnsured'
    BY <1>6 DEF Login, Running, StorageTypeOK, FileEnsured
  <2>6. /\ file' \in Credentials(issued') \union {None} /\ base' \in [Callers -> Credentials(issued')]
        /\ fresh' \in [Callers -> 0 .. issued'] /\ key' \in [Callers -> 0 .. issued']
        /\ live' \subseteq 1 .. issued' /\ expired' \subseteq 1 .. issued'
    BY <1>6, <1>a, <2>1, Later DEF Login, StorageTypeOK, callerVars
  <2> QED BY <1>6, <1>a, <2>1, <2>2, <2>4, <2>5, <2>6 DEF Login, StorageTypeOK, callerVars
<1>7. ASSUME NEW p \in Processes, Logout(p) PROVE StorageTypeOK'
  <2>1. changes' \in 0 .. MaxChanges /\ 0 \in 0 .. issued
    BY <1>7, <1>a DEF Logout, StorageTypeOK
  <2>2. data' \in [Processes -> Credentials(issued)]
    BY <1>7, <1>a, <2>1, OneChanged DEF Logout, StorageTypeOK
  <2>3. DOMAIN job' = Processes /\ JobValues'
    <3> DEFINE j == Job("logout", 0, None)
    <3>1. j \in Jobs(issued) /\ j.kind = "logout"
      BY <2>1, JobType
    <3>2. UNCHANGED job \/ job' = [job EXCEPT ![p] = j]
      BY <1>7 DEF Logout, Persist
    <3> HIDE DEF j
    <3> QED BY <1>7, <3>1, <3>2 DEF Logout, StorageTypeOK, JobValues, providerVars
  <2>4. FileEnsured'
    BY <1>7 DEF Logout, Running, StorageTypeOK, FileEnsured
  <2> QED BY <1>7, <2>1, <2>2, <2>3, <2>4 DEF Logout, StorageTypeOK, callerVars, providerVars
<1>8. ASSUME NEW p \in Processes, Crash(p) PROVE StorageTypeOK'
  BY <1>8, <1>a DEF Crash, StorageTypeOK, JobValues, FileEnsured, callerVars, providerVars
<1>9. ASSUME NEW c \in Callers, Ask(c) PROVE StorageTypeOK'
  <2>1. data[ProcessOf[c]].oauth \in 0 .. issued
    BY <1>a, OneChanged DEF StorageTypeOK, Names
  <2>2. key' \in [Callers -> 0 .. issued] /\ phase' \in [Callers -> Phases]
    BY <1>9, <2>1 DEF Ask, StorageTypeOK, Phases
  <2>3. FileEnsured'
    BY <1>9, <2>1 DEF Ask, Running, StorageTypeOK, FileEnsured, Names
  <2> QED BY <1>9, <2>2, <2>3 DEF Ask, StorageTypeOK, JobValues, providerVars, bounds, history
<1>10. ASSUME NEW c \in Callers, AsyncLock(c) PROVE StorageTypeOK'
  BY <1>10, <1>a, OneChanged
     DEF AsyncLock, UnderLock, StorageTypeOK, JobValues, FileEnsured, Running, providerVars,
         bounds, Phases, Names, OwnerLives
<1>11. ASSUME NEW c \in Callers, AsyncLocked(c) PROVE StorageTypeOK'
  BY <1>11, <1>a, JobType
     DEF AsyncLocked, Catch, StorageTypeOK, JobValues, FileEnsured, Running, providerVars,
         bounds, history, Phases, Names
<1>12. ASSUME NEW c \in Callers, Refuse(c) \/ Lose(c) PROVE StorageTypeOK'
  <2>1. phase' \in [Callers -> Phases] /\ faults' \in Nat
    BY <1>12 DEF Refuse, Lose, StorageTypeOK, Phases, bounds
  <2>2. disturbed' \in BOOLEAN /\ reused' \in BOOLEAN
    BY <1>12 DEF Refuse, Lose, StorageTypeOK
  <2>3. UNCHANGED <<file, lock, data, loadError, job, base, fresh, compromised, key, providerVars,
                    changes, crashed, recreated>>
    BY <1>12 DEF Refuse, Lose, bounds
  <2>4. FileEnsured'
    BY <1>12, <2>3 DEF Refuse, Lose, StorageTypeOK, FileEnsured
  <2> QED BY <2>1, <2>2, <2>3, <2>4 DEF StorageTypeOK, JobValues, providerVars
<1>13. ASSUME NEW c \in Callers, Rotate(c) PROVE StorageTypeOK'
  <2>1. issued' = issued + 1 /\ phase' \in [Callers -> Phases]
    BY <1>13 DEF Rotate, StorageTypeOK, Phases
  <2>2. DOMAIN job' = Processes /\ JobValues'
    BY <1>13, <1>a, <2>1, Later DEF Rotate, StorageTypeOK, JobValues
  <2>3. /\ file' \in Credentials(issued') \union {None} /\ base' \in [Callers -> Credentials(issued')]
        /\ data' \in [Processes -> Credentials(issued')] /\ key' \in [Callers -> 0 .. issued']
    BY <1>13, <1>a, <2>1, Later DEF Rotate, StorageTypeOK
  <2>4. live' \subseteq 1 .. issued' /\ expired' \subseteq 1 .. issued'
    <3>1. 1 .. issued \subseteq 1 .. issued' /\ issued' \in 1 .. issued'
      BY <1>a, <2>1
    <3>2. live \subseteq 1 .. issued /\ expired \subseteq 1 .. issued
      BY DEF StorageTypeOK
    <3>3. live' = (live \ {base[c].oauth}) \union {issued'} /\ expired' = expired
      BY <1>13 DEF Rotate
    <3> QED BY <3>1, <3>2, <3>3
  <2>5. fresh' \in [Callers -> 0 .. issued'] /\ issued' \in Nat \ {0}
    BY <1>13, <1>a, <2>1, Later DEF Rotate, StorageTypeOK
  <2>6. FileEnsured'
    BY <1>13 DEF Rotate, StorageTypeOK, FileEnsured, bounds
  <2> QED BY <1>13, <2>1, <2>2, <2>3, <2>4, <2>5, <2>6 DEF Rotate, StorageTypeOK, bounds, history
<1>14. ASSUME NEW c \in Callers, Answer(c) PROVE StorageTypeOK'
  <2>1. Merged(c) \in Credentials(issued) /\ ProcessOf[c] \in Processes
    BY <1>a, OneChanged DEF Merged, StorageTypeOK, Names
  <2>2. data' \in [Processes -> Credentials(issued)] /\ file' \in Credentials(issued) \union {None}
    BY <1>14, <2>1 DEF Answer, StorageTypeOK
  <2>3. phase' \in [Callers -> Phases] /\ key' \in [Callers -> 0 .. issued]
    BY <1>14 DEF Answer, StorageTypeOK, Phases
  <2>4. file # None
    BY <1>14, <2>1 DEF Answer, Running, StorageTypeOK, FileEnsured
  <2>5. file' # None
    BY <1>14, <1>a, <2>1, <2>4 DEF Answer, Names, StorageTypeOK
  <2> QED
    BY <1>14, <2>1, <2>2, <2>3, <2>5
       DEF Answer, StorageTypeOK, JobValues, FileEnsured, providerVars, bounds, history
<1>15. ASSUME NEW c \in Callers, Release(c) PROVE StorageTypeOK'
  BY <1>15, <1>a
     DEF Release, Unlock, Free, StorageTypeOK, JobValues, FileEnsured, providerVars, bounds,
         history, Phases
<1>16. ASSUME NEW c \in Callers, ReleaseAndCatch(c) PROVE StorageTypeOK'
  BY <1>16, <1>a, JobType
     DEF ReleaseAndCatch, Unlock, Free, Catch, StorageTypeOK, JobValues, FileEnsured, Running,
         providerVars, bounds, history, Phases, Names
<1>17. ASSUME NEW c \in Callers, Renew(c) PROVE StorageTypeOK'
  BY <1>17, <1>a DEF Renew, StorageTypeOK, JobValues, FileEnsured, providerVars, bounds, history
<1>18. CASE GrowStale \/ GrowDead
  BY <1>18, <1>a
     DEF GrowStale, GrowDead, StorageTypeOK, JobValues, FileEnsured, callerVars, providerVars,
         bounds, history
<1>19. CASE Expire
  BY <1>19, <1>a DEF Expire, StorageTypeOK, JobValues, FileEnsured, callerVars, bounds, history
<1>20. CASE UNCHANGED vars
  BY <1>20 DEF vars, StorageTypeOK, JobValues, FileEnsured
<1> QED
  BY <1>1, <1>2, <1>3, <1>4, <1>5, <1>6, <1>7, <1>8, <1>9, <1>10, <1>11, <1>12, <1>13, <1>14,
     <1>15, <1>16, <1>17, <1>18, <1>19, <1>20 DEF Next, Synchronous, Refreshing

----------------------------------------------------------------------------
(* Who holds the lock *)

Alive(c) == ProcessOf[c] \notin crashed
Holds(c) == phase[c] \in {"refreshing", "refreshed", "failing", "releasing"} /\ Alive(c)
Writing(p) == p \notin crashed /\ job[p] # None /\ job[p].at = "write"

\* A lock that has aged belongs to a caller or to a process that has died.
OnlySlowAge == lock.age # "young" => lock.owner \in Callers \union crashed

\* As long as no lock is taken over, whoever works on the file owns the lock.
HoldersOwn ==
  ~disturbed =>
    /\ \A c \in Callers : Holds(c) => lock.owner = c
    /\ \A p \in Processes : Writing(p) => lock.owner = p
    /\ \A c \in Callers : ~compromised[c]

LockInv == OnlySlowAge /\ HoldersOwn

\* Every step keeps what is known of the owners of the lock.
LEMMA LockStep == Names /\ StorageTypeOK /\ LockInv /\ [Next]_vars => LockInv'
<1> SUFFICES ASSUME Names, StorageTypeOK, LockInv, [Next]_vars PROVE LockInv'
  OBVIOUS
<1> USE DEF LockInv
<1>a. /\ \A c \in Callers : ProcessOf[c] \in Processes /\ c \notin Processes /\ c # None
      /\ \A p \in Processes : p \notin Callers /\ p # None
  BY DEF Names
<1>1. ASSUME NEW p \in Processes, EnsureFile(p) \/ SyncLocked(p) PROVE LockInv'
  <2>1. UNCHANGED <<lock, crashed, disturbed, compromised>>
    BY <1>1 DEF EnsureFile, SyncLocked, AfterReload, callerVars, bounds, history
  <2>2. \A c \in Callers : Holds(c)' => Holds(c)
    BY <1>1, <2>1 DEF EnsureFile, SyncLocked, AfterReload, callerVars, Holds, Alive, StorageTypeOK
  <2>3. \A q \in Processes : Writing(q)' => Writing(q)
    BY <1>1, <2>1 DEF EnsureFile, SyncLocked, Writing, StorageTypeOK, JobValues, Jobs
  <2> QED BY <2>1, <2>2, <2>3 DEF OnlySlowAge, HoldersOwn
<1>2. ASSUME NEW p \in Processes, SyncLock(p) PROVE LockInv'
  <2>1. /\ lock' = [owner |-> p, age |-> "young"] /\ UNCHANGED <<crashed, compromised, phase>>
        /\ ~disturbed' => ~disturbed /\ ~OwnerLives
        /\ lock.owner = None \/ lock.age # "young"
    BY <1>2 DEF SyncLock, callerVars, bounds, Stale
  <2>2. ~disturbed' => \A c \in Callers : ~Holds(c)
    BY <1>a, <2>1 DEF HoldersOwn, OwnerLives, Holds, Alive
  <2>3. ~disturbed' => \A q \in Processes : ~Writing(q)
    BY <1>a, <2>1 DEF HoldersOwn, OnlySlowAge, Writing
  <2>4. \A q \in Processes : Writing(q)' => q = p \/ Writing(q)
    BY <1>2, <2>1 DEF SyncLock, Writing, StorageTypeOK
  <2> QED BY <2>1, <2>2, <2>3, <2>4 DEF OnlySlowAge, HoldersOwn, Holds, Alive
<1>3. ASSUME NEW p \in Processes, SyncWrite(p) PROVE LockInv'
  <2>1. lock' = Free /\ UNCHANGED <<crashed, disturbed, compromised>> /\ Writing(p)
    BY <1>3 DEF SyncWrite, AfterReload, callerVars, bounds, history, Writing
  <2>2. \A c \in Callers : Holds(c)' => Holds(c)
    BY <1>3, <2>1 DEF SyncWrite, AfterReload, callerVars, Holds, Alive, StorageTypeOK
  <2>3. \A q \in Processes : Writing(q)' => Writing(q) /\ q # p
    BY <1>3, <2>1 DEF SyncWrite, Writing, StorageTypeOK
  <2> QED BY <1>a, <2>1, <2>2, <2>3 DEF OnlySlowAge, HoldersOwn, Free
<1>4. ASSUME NEW p \in Processes, Set(p) \/ Login(p) \/ Logout(p) PROVE LockInv'
  <2>1. UNCHANGED <<lock, crashed, disturbed, compromised, phase>>
    BY <1>4 DEF Set, Login, Logout, callerVars
  <2>2. \A q \in Processes : Writing(q)' => Writing(q)
    BY <1>4, <2>1 DEF Set, Login, Logout, Persist, Job, Writing, StorageTypeOK
  <2> QED BY <2>1, <2>2 DEF OnlySlowAge, HoldersOwn, Holds, Alive
<1>5. ASSUME NEW p \in Processes, Crash(p) PROVE LockInv'
  <2>1. UNCHANGED <<lock, compromised, phase>> /\ crashed' = crashed \union {p} /\ (~disturbed' => ~disturbed)
    BY <1>5 DEF Crash, callerVars
  <2>2. \A q \in Processes : Writing(q)' => Writing(q)
    BY <1>5, <2>1 DEF Crash, Writing, StorageTypeOK
  <2> QED BY <2>1, <2>2 DEF OnlySlowAge, HoldersOwn, Holds, Alive
<1>6. ASSUME NEW c \in Callers, Ask(c) \/ AsyncLocked(c) PROVE LockInv'
  <2>1. UNCHANGED <<lock, crashed, disturbed, compromised>>
    BY <1>6 DEF Ask, AsyncLocked, Catch, bounds, history
  <2>2. \A d \in Callers : Holds(d)' => Holds(d)
    BY <1>6, <2>1 DEF Ask, AsyncLocked, Catch, Holds, Alive, StorageTypeOK
  <2>3. \A q \in Processes : Writing(q)' => Writing(q)
    BY <1>6, <2>1 DEF Ask, AsyncLocked, Catch, Job, Writing, StorageTypeOK
  <2> QED BY <2>1, <2>2, <2>3 DEF OnlySlowAge, HoldersOwn
<1>7. ASSUME NEW c \in Callers, AsyncLock(c) PROVE LockInv'
  <2>1. /\ lock' = [owner |-> c, age |-> "young"] /\ UNCHANGED <<crashed, compromised, job>>
        /\ ~disturbed' => ~disturbed /\ ~OwnerLives
        /\ lock.owner = None \/ lock.age # "young"
    BY <1>7 DEF AsyncLock, bounds
  <2>2. ~disturbed' => \A d \in Callers : ~Holds(d)
    BY <1>a, <2>1 DEF HoldersOwn, OwnerLives, Holds, Alive
  <2>3. ~disturbed' => \A q \in Processes : ~Writing(q)
    BY <1>a, <2>1 DEF HoldersOwn, OnlySlowAge, Writing
  <2>4. \A d \in Callers : Holds(d)' => d = c \/ Holds(d)
    BY <1>7, <2>1 DEF AsyncLock, UnderLock, Holds, Alive, StorageTypeOK
  <2> QED BY <2>1, <2>2, <2>3, <2>4 DEF OnlySlowAge, HoldersOwn, Writing
<1>8. ASSUME NEW c \in Callers, Refuse(c) \/ Rotate(c) \/ Lose(c) \/ Answer(c) PROVE LockInv'
  <2>1. UNCHANGED <<lock, crashed, compromised, job>> /\ (~disturbed' => ~disturbed)
    <3>1. Refuse(c) => UNCHANGED <<lock, crashed, compromised, job, disturbed>>
      BY DEF Refuse, bounds
    <3>2. Rotate(c) \/ Answer(c) => UNCHANGED <<lock, crashed, compromised, job, disturbed>>
      BY DEF Rotate, Answer, bounds, history
    <3>3. Lose(c) => UNCHANGED <<lock, crashed, compromised, job>> /\ (~disturbed' => ~disturbed)
      BY DEF Lose
    <3> QED BY <1>8, <3>1, <3>2, <3>3
  <2>2. \A d \in Callers : Holds(d)' => Holds(d)
    BY <1>8, <2>1 DEF Refuse, Rotate, Lose, Answer, Holds, Alive, StorageTypeOK
  <2> QED BY <2>1, <2>2 DEF OnlySlowAge, HoldersOwn, Writing
<1>9. ASSUME NEW c \in Callers, Release(c) \/ ReleaseAndCatch(c) PROVE LockInv'
  <2>1. UNCHANGED <<crashed, compromised, disturbed>> /\ Unlock(c) /\ Holds(c)
    BY <1>9 DEF Release, ReleaseAndCatch, Running, Holds, Alive, bounds, history
  <2>2. \A d \in Callers : Holds(d)' => Holds(d) /\ d # c
    BY <1>9, <2>1 DEF Release, ReleaseAndCatch, Catch, Holds, Alive, StorageTypeOK
  <2>3. \A q \in Processes : Writing(q)' => Writing(q)
    BY <1>9, <2>1 DEF Release, ReleaseAndCatch, Catch, Job, Writing, StorageTypeOK
  <2>4. OnlySlowAge'
    BY <2>1 DEF Unlock, Free, OnlySlowAge
  <2>5. HoldersOwn'
    BY <1>a, <2>1, <2>2, <2>3 DEF Unlock, HoldersOwn
  <2> QED BY <2>4, <2>5
<1>10. ASSUME NEW c \in Callers, Renew(c) PROVE LockInv'
  <2>1. UNCHANGED <<crashed, disturbed, job, phase>> /\ Holds(c)
    BY <1>10 DEF Renew, Running, Holds, Alive, bounds, history
  <2>2. OnlySlowAge'
    BY <1>10 DEF Renew, OnlySlowAge, bounds, StorageTypeOK
  <2>3. HoldersOwn'
    BY <1>10, <2>1 DEF Renew, HoldersOwn, Holds, Alive, Writing, StorageTypeOK
  <2> QED BY <2>2, <2>3
<1>11. CASE GrowStale \/ GrowDead
  <2>1. UNCHANGED <<crashed, compromised, disturbed, phase, job>> /\ lock'.owner = lock.owner
    BY <1>11 DEF GrowStale, GrowDead, callerVars, bounds, history, StorageTypeOK
  <2>2. OnlySlowAge'
    BY <1>11, <2>1 DEF GrowStale, GrowDead, OnlySlowAge
  <2> QED BY <2>1, <2>2 DEF HoldersOwn, Holds, Alive, Writing
<1>12. CASE Expire \/ UNCHANGED vars
  BY <1>12
     DEF Expire, vars, callerVars, bounds, history, OnlySlowAge, HoldersOwn, Holds, Alive, Writing
<1> QED
  BY <1>1, <1>2, <1>3, <1>4, <1>5, <1>6, <1>7, <1>8, <1>9, <1>10, <1>11, <1>12
     DEF Next, Synchronous, Refreshing

\* A reload that a call waits for is one of its process.
CallsReload ==
  \A p \in Processes : job[p] # None /\ job[p].caller # None =>
    phase[job[p].caller] = "reloading" /\ ProcessOf[job[p].caller] = p

\* A job that a call waits for stays the reload of that call's process.
LEMMA ReloadStep == Names /\ StorageTypeOK /\ CallsReload /\ [Next]_vars => CallsReload'
<1> SUFFICES ASSUME Names, StorageTypeOK, CallsReload, [Next]_vars PROVE CallsReload'
  OBVIOUS
<1> USE DEF CallsReload
<1>a. /\ \A c \in Callers : ProcessOf[c] \in Processes
      /\ \A p \in Processes : job[p] # None => job[p].caller \in Callers \union {None}
  BY DEF Names, StorageTypeOK, JobValues, Jobs
<1>1. ASSUME NEW p \in Processes, EnsureFile(p) \/ SyncLock(p) PROVE CallsReload'
  <2>1. UNCHANGED phase
    BY <1>1 DEF EnsureFile, SyncLock, callerVars
  <2>2. \A q \in Processes : job'[q] # None => job[q] # None /\ job'[q].caller = job[q].caller
    BY <1>1 DEF EnsureFile, SyncLock, StorageTypeOK, JobValues, Jobs
  <2> QED BY <2>1, <2>2
<1>2. ASSUME NEW p \in Processes, SyncLocked(p) \/ SyncWrite(p) PROVE CallsReload'
  <2>1. job' = [job EXCEPT ![p] = None] /\ job[p] # None
    BY <1>2 DEF SyncLocked, SyncWrite
  <2>2. UNCHANGED phase \/ (job[p].caller # None /\ phase' = [phase EXCEPT ![job[p].caller] = "done"])
    BY <1>2 DEF SyncLocked, SyncWrite, AfterReload, callerVars
  <2>3. \A q \in Processes : job'[q] # None /\ job'[q].caller # None =>
                             q # p /\ job'[q] = job[q] /\ job[q].caller # job[p].caller
    BY <2>1 DEF StorageTypeOK
  <2> QED BY <1>a, <2>1, <2>2, <2>3 DEF StorageTypeOK
<1>3. ASSUME NEW p \in Processes, Set(p) \/ Login(p) \/ Logout(p) \/ Crash(p) PROVE CallsReload'
  <2>1. UNCHANGED phase
    BY <1>3 DEF Set, Login, Logout, Crash, callerVars
  <2>2. \A q \in Processes : job'[q] = job[q] \/ job'[q] = None \/ job'[q].caller = None
    BY <1>3 DEF Set, Login, Logout, Crash, Persist, Job, StorageTypeOK
  <2> QED BY <2>1, <2>2
<1>4. ASSUME NEW c \in Callers, AsyncLocked(c) \/ ReleaseAndCatch(c) PROVE CallsReload'
  <2>1. /\ phase[c] # "reloading" /\ phase' = [phase EXCEPT ![c] = "reloading"]
        /\ job' = [job EXCEPT ![ProcessOf[c]] = Job("reload", 0, c)]
    BY <1>4 DEF AsyncLocked, ReleaseAndCatch, Catch
  <2>2. \A q \in Processes : job'[q] = job[q] \/ (q = ProcessOf[c] /\ job'[q].caller = c)
    BY <2>1 DEF Job, StorageTypeOK
  <2>3. \A d \in Callers : phase[d] = "reloading" => phase'[d] = "reloading"
    BY <2>1 DEF StorageTypeOK
  <2>4. phase'[c] = "reloading"
    BY <2>1 DEF StorageTypeOK
  <2> QED BY <1>a, <2>2, <2>3, <2>4
<1>5. ASSUME NEW c \in Callers,
             \/ Ask(c) \/ AsyncLock(c) \/ Refuse(c) \/ Rotate(c) \/ Lose(c) \/ Answer(c)
             \/ Release(c) \/ Renew(c)
      PROVE CallsReload'
  <2>1. UNCHANGED job
    BY <1>5 DEF Ask, AsyncLock, Refuse, Rotate, Lose, Answer, Release, Renew
  <2>2. \A d \in Callers : phase[d] = "reloading" => phase'[d] = "reloading"
    BY <1>5
       DEF Ask, AsyncLock, UnderLock, Refuse, Rotate, Lose, Answer, Release, Renew, StorageTypeOK
  <2> QED BY <1>a, <2>1, <2>2
<1>6. CASE GrowStale \/ GrowDead \/ Expire \/ UNCHANGED vars
  BY <1>6 DEF GrowStale, GrowDead, Expire, vars, callerVars
<1> QED
  BY <1>1, <1>2, <1>3, <1>4, <1>5, <1>6 DEF Next, Synchronous, Refreshing

----------------------------------------------------------------------------
(* Tokens *)

Spendable(t) == t = 0 \/ t \in live
Refreshes(c) == phase[c] = "refreshing" /\ Alive(c)
Refreshed(c) == phase[c] = "refreshed" /\ Alive(c)
\* The token of a login that is not yet saved.
LoggingIn(p) == p \notin crashed /\ job[p] # None /\ job[p].kind = "login"

\* What is in the file, or was read from it under the lock, can still be spent.
TokensGood ==
  /\ file # None /\ (\A c \in Callers : ~Refreshed(c)) => Spendable(file.oauth)
  /\ \A c \in Callers : Refreshes(c) => base[c].oauth \in live
  /\ \A c \in Callers : Refreshed(c) => fresh[c] \in live
  /\ \A p \in Processes : Writing(p) => Spendable(job[p].read.oauth)

\* A token that is yet to be saved is nowhere else.
LoginsApart ==
  \A p \in Processes : LoggingIn(p) =>
    LET t == job[p].value
    IN  /\ t \in live
        /\ file # None => file.oauth # t
        /\ \A c \in Callers : (Refreshes(c) => base[c].oauth # t) /\ (Refreshed(c) => fresh[c] # t)
        /\ \A q \in Processes : Writing(q) => job[q].read.oauth # t
        /\ \A q \in Processes : LoggingIn(q) /\ job[q].value = t => q = p

TokenInv == ~disturbed => ~reused /\ TokensGood /\ LoginsApart

\* A step that leaves the provider and the file alone and starts nothing.
LEMMA TokensRest ==
  ASSUME TokenInv, UNCHANGED <<file, live, reused>>, ~disturbed' => ~disturbed,
         \A c \in Callers : Refreshes(c)' => Refreshes(c) /\ base'[c] = base[c],
         \A c \in Callers : Refreshed(c)' => Refreshed(c) /\ fresh'[c] = fresh[c],
         ~disturbed' => \A c \in Callers : Refreshed(c) => Refreshed(c)',
         \A p \in Processes : Writing(p)' => Writing(p) /\ job'[p].read = job[p].read,
         \A p \in Processes : LoggingIn(p)' => LoggingIn(p) /\ job'[p].value = job[p].value
  PROVE  TokenInv'
<1> SUFFICES ASSUME ~disturbed' PROVE ~reused' /\ TokensGood' /\ LoginsApart'
  BY DEF TokenInv
<1>1. ~disturbed /\ ~reused' /\ TokensGood /\ LoginsApart
  BY DEF TokenInv
<1>2. TokensGood'
  BY <1>1 DEF TokensGood, Spendable
<1>3. LoginsApart'
  BY <1>1 DEF LoginsApart
<1> QED BY <1>1, <1>2, <1>3

\* Every step keeps tokens apart until the lock of a live caller is taken over.
LEMMA TokenStep ==
  Names /\ StorageTypeOK /\ CallsReload /\ LockInv /\ TokenInv /\ [Next]_vars => TokenInv'
<1> SUFFICES ASSUME Names, StorageTypeOK, CallsReload, LockInv, TokenInv, [Next]_vars PROVE TokenInv'
  OBVIOUS
<1> DEFINE
      KeepsCallers ==
        /\ \A c \in Callers : Refreshes(c)' => Refreshes(c) /\ base'[c] = base[c]
        /\ \A c \in Callers : Refreshed(c)' => Refreshed(c) /\ fresh'[c] = fresh[c]
        /\ ~disturbed' => \A c \in Callers : Refreshed(c) => Refreshed(c)'
      KeepsJobs ==
        /\ \A q \in Processes : Writing(q)' => Writing(q) /\ job'[q].read = job[q].read
        /\ \A q \in Processes : LoggingIn(q)' => LoggingIn(q) /\ job'[q].value = job[q].value
<1>a. /\ \A c \in Callers : ProcessOf[c] \in Processes /\ c \notin Processes /\ c # None
      /\ \A p \in Processes : p \notin Callers /\ p # None
      /\ issued \in Nat
  BY DEF Names, StorageTypeOK
<1>b. ASSUME UNCHANGED <<file, live, reused>>, ~disturbed' => ~disturbed, KeepsCallers, KeepsJobs
      PROVE  TokenInv'
  BY <1>b, TokensRest
<1>c. UNCHANGED <<phase, base, fresh, crashed>> => KeepsCallers
  BY DEF Refreshes, Refreshed, Alive
<1>d. UNCHANGED <<job, crashed>> => KeepsJobs
  BY DEF Writing, LoggingIn
<1>1. ASSUME NEW p \in Processes, EnsureFile(p) PROVE TokenInv'
  <2> SUFFICES ASSUME ~disturbed' PROVE ~reused' /\ TokensGood' /\ LoginsApart'
    BY DEF TokenInv
  <2>1. /\ ~disturbed /\ ~reused' /\ TokensGood /\ LoginsApart /\ KeepsCallers
        /\ file' = Empty /\ live' = live
    BY <1>1, <1>c DEF EnsureFile, TokenInv, callerVars, providerVars, bounds
  <2>2. KeepsJobs
    BY <1>1 DEF EnsureFile, bounds, Writing, LoggingIn, StorageTypeOK, JobValues, Jobs
  <2>3. file'.oauth = 0 /\ 0 \notin live
    BY <2>1 DEF Empty, StorageTypeOK
  <2>4. TokensGood'
    BY <2>1, <2>2, <2>3 DEF TokensGood, Spendable
  <2>5. LoginsApart'
    BY <2>1, <2>2, <2>3 DEF LoginsApart
  <2> QED BY <2>1, <2>4, <2>5
<1>2. ASSUME NEW p \in Processes, SyncLock(p) PROVE TokenInv'
  <2> SUFFICES ASSUME ~disturbed' PROVE ~reused' /\ TokensGood' /\ LoginsApart'
    BY DEF TokenInv
  <2>1. /\ ~disturbed /\ ~reused' /\ TokensGood /\ LoginsApart /\ KeepsCallers
        /\ ~OwnerLives /\ UNCHANGED <<file, live, crashed>>
    BY <1>2, <1>c DEF SyncLock, TokenInv, callerVars, providerVars, bounds
  <2>2. \A c \in Callers : ~Refreshed(c)
    BY <1>a, <2>1 DEF LockInv, HoldersOwn, OwnerLives, Holds, Refreshed, Alive
  <2>3. file # None
    BY <1>2 DEF SyncLock, StorageTypeOK, FileEnsured
  <2>4. \A q \in Processes : Writing(q)' => job'[q].read = file \/ (Writing(q) /\ job'[q].read = job[q].read)
    BY <1>2 DEF SyncLock, bounds, Writing, StorageTypeOK, JobValues, Jobs
  <2>5. \A q \in Processes : LoggingIn(q)' => LoggingIn(q) /\ job'[q].value = job[q].value
    BY <1>2 DEF SyncLock, bounds, LoggingIn, StorageTypeOK, JobValues, Jobs
  <2>6. TokensGood'
    BY <2>1, <2>2, <2>3, <2>4 DEF TokensGood, Spendable
  <2>7. LoginsApart'
    BY <2>1, <2>3, <2>4, <2>5 DEF LoginsApart
  <2> QED BY <2>1, <2>6, <2>7
<1>3. ASSUME NEW p \in Processes, SyncLocked(p) PROVE TokenInv'
  <2>1. /\ UNCHANGED phase \/ (job[p].caller # None /\ phase' = [phase EXCEPT ![job[p].caller] = "done"])
        /\ UNCHANGED <<base, fresh, crashed>>
    BY <1>3 DEF SyncLocked, AfterReload, callerVars, bounds
  <2>2. job[p].caller # None => phase[job[p].caller] = "reloading"
    BY <1>3 DEF SyncLocked, CallsReload
  <2>3. KeepsCallers
    BY <2>1, <2>2 DEF Refreshes, Refreshed, Alive, StorageTypeOK
  <2>4. KeepsJobs
    BY <1>3 DEF SyncLocked, bounds, Writing, LoggingIn, StorageTypeOK
  <2> QED BY <1>3, <1>b, <2>3, <2>4 DEF SyncLocked, providerVars, history
<1>4. ASSUME NEW p \in Processes, SyncWrite(p) PROVE TokenInv'
  <2> SUFFICES ASSUME ~disturbed' PROVE ~reused' /\ TokensGood' /\ LoginsApart'
    BY DEF TokenInv
  <2>1. /\ ~disturbed /\ ~reused' /\ TokensGood /\ LoginsApart
        /\ UNCHANGED <<live, crashed, base, fresh>> /\ Writing(p)
    BY <1>4 DEF SyncWrite, AfterReload, TokenInv, callerVars, providerVars, bounds, history, Writing
  <2>2. \A c \in Callers : ~Refreshed(c) /\ ~Refreshes(c)
    BY <1>a, <2>1 DEF LockInv, HoldersOwn, Holds, Refreshed, Refreshes
  <2>3. \A c \in Callers : ~Refreshed(c)' /\ ~Refreshes(c)'
    BY <1>4, <2>1, <2>2
       DEF SyncWrite, AfterReload, callerVars, Refreshed, Refreshes, Alive, StorageTypeOK
  <2>4. KeepsJobs /\ \A q \in Processes : Writing(q)' \/ LoggingIn(q)' => q # p
    BY <1>4 DEF SyncWrite, bounds, Writing, LoggingIn, StorageTypeOK
  <2>5. /\ file # None /\ file' # None
        /\ Spendable(file'.oauth)
        /\ \/ file'.oauth \in {file.oauth, job[p].read.oauth, 0}
           \/ LoggingIn(p) /\ file'.oauth = job[p].value
    <3>1. file # None /\ job[p].read \in Credentials(issued) /\ job[p].kind \in {"reload", "set", "login", "logout"}
      BY <2>1 DEF Writing, StorageTypeOK, FileEnsured, JobValues, Jobs
    <3>2. job[p].kind = "reload" => file' = file
      BY <1>4 DEF SyncWrite
    <3>3. job[p].kind = "set" => file' # None /\ file'.oauth = job[p].read.oauth
      <4> SUFFICES ASSUME job[p].kind = "set" PROVE file' # None /\ file'.oauth = job[p].read.oauth
        OBVIOUS
      <4>1. file' = [job[p].read EXCEPT !.other = job[p].value]
        BY <1>4 DEF SyncWrite, Saved
      <4>2. job[p].value \in 0 .. MaxChanges + 1
        BY <2>1 DEF Writing, StorageTypeOK, JobValues
      <4>3. file' \in Credentials(issued)
        BY <1>a, <3>1, <4>1, <4>2, OneChanged
      <4> QED BY <1>a, <3>1, <4>1, <4>3 DEF Names, Credentials
    <3>4. job[p].kind = "login" => file' # None /\ file'.oauth = job[p].value /\ LoggingIn(p)
      BY <1>4, <1>a, <2>1, <3>1
         DEF SyncWrite, Saved, Credentials, LoggingIn, Writing, Names, StorageTypeOK, JobValues
    <3>5. job[p].kind = "logout" => file' # None /\ file'.oauth = 0
      BY <1>4, <1>a, <3>1 DEF SyncWrite, Saved, Credentials, Names
    <3>6. Spendable(file.oauth) /\ Spendable(job[p].read.oauth) /\ (LoggingIn(p) => job[p].value \in live)
      BY <2>1, <2>2, <3>1 DEF TokensGood, LoginsApart
    <3> QED BY <3>1, <3>2, <3>3, <3>4, <3>5, <3>6 DEF Spendable
  <2>6. TokensGood'
    BY <2>1, <2>3, <2>4, <2>5 DEF TokensGood, Spendable
  <2>7. 0 \notin live
    BY DEF StorageTypeOK
  <2>8. LoginsApart'
    BY <2>1, <2>3, <2>4, <2>5, <2>7 DEF LoginsApart
  <2> QED BY <2>1, <2>6, <2>8
<1>5. ASSUME NEW p \in Processes, Set(p) \/ Logout(p) PROVE TokenInv'
  <2>1. KeepsCallers
    BY <1>5, <1>c DEF Set, Logout, callerVars
  <2>2. KeepsJobs
    BY <1>5 DEF Set, Logout, Persist, Job, Writing, LoggingIn, StorageTypeOK
  <2> QED BY <1>5, <1>b, <2>1, <2>2 DEF Set, Logout, providerVars
<1>6. ASSUME NEW p \in Processes, Login(p) PROVE TokenInv'
  <2> SUFFICES ASSUME ~disturbed' PROVE ~reused' /\ TokensGood' /\ LoginsApart'
    BY DEF TokenInv
  <2>1. /\ ~disturbed /\ ~reused' /\ TokensGood /\ LoginsApart /\ KeepsCallers
        /\ UNCHANGED <<file, crashed>> /\ live' = live \union {issued + 1} /\ issued' = issued + 1
    BY <1>6, <1>c DEF Login, TokenInv, callerVars
  <2>2. \A q \in Processes : Writing(q)' => Writing(q) /\ job'[q].read = job[q].read
    BY <1>6 DEF Login, Persist, Job, Writing, StorageTypeOK
  <2>3. \A q \in Processes : LoggingIn(q)' => \/ LoggingIn(q) /\ job'[q].value = job[q].value
                                              \/ q = p /\ job'[q].value = issued + 1
    BY <1>6 DEF Login, Persist, Job, LoggingIn, StorageTypeOK
  <2>4. TokensGood'
    BY <2>1, <2>2 DEF TokensGood, Spendable
  <2>5. /\ file # None => file.oauth # issued + 1
        /\ issued + 1 \notin live
        /\ \A q \in Processes : Writing(q) => job[q].read.oauth # issued + 1
        /\ \A q \in Processes : LoggingIn(q) => job[q].value # issued + 1
    BY <1>a, OneChanged DEF StorageTypeOK, JobValues, Jobs, Writing, LoggingIn
  <2>6. LoginsApart'
    BY <2>1, <2>2, <2>3, <2>5 DEF LoginsApart, TokensGood
  <2> QED BY <2>1, <2>4, <2>6
<1>7. ASSUME NEW p \in Processes, Crash(p) PROVE TokenInv'
  <2>1. KeepsCallers
    BY <1>7 DEF Crash, callerVars, Refreshes, Refreshed, Alive
  <2>2. KeepsJobs
    BY <1>7 DEF Crash, Writing, LoggingIn, StorageTypeOK
  <2> QED BY <1>7, <1>b, <2>1, <2>2 DEF Crash, providerVars
<1>8. ASSUME NEW c \in Callers, Ask(c) \/ AsyncLocked(c) PROVE TokenInv'
  <2>1. KeepsCallers
    BY <1>8 DEF Ask, AsyncLocked, Catch, bounds, Refreshes, Refreshed, Alive, StorageTypeOK
  <2>2. KeepsJobs
    BY <1>8 DEF Ask, AsyncLocked, Catch, bounds, Job, Writing, LoggingIn, StorageTypeOK
  <2> QED BY <1>8, <1>b, <2>1, <2>2 DEF Ask, AsyncLocked, providerVars, history
<1>9. ASSUME NEW c \in Callers, AsyncLock(c) PROVE TokenInv'
  <2> SUFFICES ASSUME ~disturbed' PROVE ~reused' /\ TokensGood' /\ LoginsApart'
    BY DEF TokenInv
  <2>1. /\ ~disturbed /\ ~reused' /\ TokensGood /\ LoginsApart /\ KeepsJobs
        /\ ~OwnerLives /\ UNCHANGED <<file, live, fresh, crashed>>
    BY <1>9, <1>d DEF AsyncLock, TokenInv, providerVars, bounds
  <2>2. \A d \in Callers : ~Refreshed(d) /\ ~Refreshes(d)
    BY <1>a, <2>1 DEF LockInv, HoldersOwn, OwnerLives, Holds, Refreshed, Refreshes, Alive
  <2>3. file # None
    BY <1>9, <1>a DEF AsyncLock, Running, StorageTypeOK, FileEnsured
  <2>4. \A d \in Callers : ~Refreshed(d)' /\ (Refreshes(d)' => file.oauth # 0 /\ base'[d] = file)
    BY <1>9, <2>1, <2>2 DEF AsyncLock, UnderLock, Refreshed, Refreshes, Alive, StorageTypeOK
  <2>5. TokensGood'
    BY <2>1, <2>2, <2>3, <2>4 DEF TokensGood, Spendable
  <2>6. LoginsApart'
    BY <2>1, <2>3, <2>4 DEF LoginsApart
  <2> QED BY <2>1, <2>5, <2>6
<1>10. ASSUME NEW c \in Callers, Refuse(c) PROVE TokenInv'
  <2>1. Refreshes(c) /\ base[c].oauth \notin live /\ disturbed' = disturbed
    BY <1>10 DEF Refuse, Refreshes, Alive
  <2> QED BY <2>1 DEF TokenInv, TokensGood
<1>11. ASSUME NEW c \in Callers, Rotate(c) PROVE TokenInv'
  <2> SUFFICES ASSUME ~disturbed' PROVE ~reused' /\ TokensGood' /\ LoginsApart'
    BY DEF TokenInv
  <2>1. /\ ~disturbed /\ ~reused' /\ TokensGood /\ LoginsApart /\ KeepsJobs
        /\ UNCHANGED <<file, base, crashed>> /\ Refreshes(c)
        /\ live' = (live \ {base[c].oauth}) \union {issued + 1}
    BY <1>11, <1>d DEF Rotate, TokenInv, bounds, history, Refreshes, Alive
  <2>2. /\ \A d \in Callers : d # c => ~Refreshed(d) /\ ~Refreshes(d)
        /\ \A q \in Processes : ~Writing(q)
    BY <1>a, <2>1 DEF LockInv, HoldersOwn, Holds, Refreshed, Refreshes
  <2>3. /\ \A d \in Callers : ~Refreshes(d)' /\ (Refreshed(d)' => d = c)
        /\ Refreshed(c)' /\ fresh'[c] = issued + 1
    BY <1>11, <2>1, <2>2 DEF Rotate, Refreshed, Refreshes, Alive, StorageTypeOK
  <2>4. \A q \in Processes : LoggingIn(q) => job[q].value # issued + 1
    BY <1>a DEF StorageTypeOK, JobValues, LoggingIn
  <2>5. TokensGood'
    BY <2>1, <2>2, <2>3 DEF TokensGood, Spendable
  <2>6. LoginsApart'
    BY <2>1, <2>2, <2>3, <2>4 DEF LoginsApart
  <2> QED BY <2>1, <2>5, <2>6
<1>12. ASSUME NEW c \in Callers, Lose(c) PROVE TokenInv'
  <2>1. KeepsCallers
    BY <1>12 DEF Lose, Refreshes, Refreshed, Alive, StorageTypeOK
  <2>2. KeepsJobs
    BY <1>12, <1>d DEF Lose
  <2> QED BY <1>12, <1>b, <2>1, <2>2 DEF Lose, providerVars
<1>13. ASSUME NEW c \in Callers, Answer(c) PROVE TokenInv'
  <2> SUFFICES ASSUME ~disturbed' PROVE ~reused' /\ TokensGood' /\ LoginsApart'
    BY DEF TokenInv
  <2>1. /\ ~disturbed /\ ~reused' /\ TokensGood /\ LoginsApart /\ KeepsJobs
        /\ UNCHANGED <<live, base, fresh, crashed>> /\ Refreshed(c)
    BY <1>13, <1>d DEF Answer, Running, TokenInv, providerVars, bounds, history, Refreshed, Alive
  <2>2. /\ \A d \in Callers : d # c => ~Refreshed(d) /\ ~Refreshes(d)
        /\ \A q \in Processes : ~Writing(q)
        /\ ~compromised[c]
    BY <1>a, <2>1 DEF LockInv, HoldersOwn, Holds, Refreshed, Refreshes
  <2>3. file' = Merged(c) /\ \A d \in Callers : ~Refreshed(d)' /\ ~Refreshes(d)'
    BY <1>13, <2>1, <2>2 DEF Answer, Refreshed, Refreshes, Alive, StorageTypeOK
  <2>4. file'.oauth = fresh[c]
    BY <2>3 DEF Merged, StorageTypeOK, Credentials
  <2>5. TokensGood'
    BY <2>1, <2>2, <2>3, <2>4 DEF TokensGood, Spendable
  <2>6. LoginsApart'
    BY <2>1, <2>2, <2>3, <2>4 DEF LoginsApart
  <2> QED BY <2>1, <2>5, <2>6
<1>14. ASSUME NEW c \in Callers, Release(c) \/ ReleaseAndCatch(c) PROVE TokenInv'
  <2>1. KeepsCallers
    BY <1>14 DEF Release, ReleaseAndCatch, Catch, bounds, Refreshes, Refreshed, Alive, StorageTypeOK
  <2>2. KeepsJobs
    BY <1>14 DEF Release, ReleaseAndCatch, Catch, bounds, Job, Writing, LoggingIn, StorageTypeOK
  <2> QED BY <1>14, <1>b, <2>1, <2>2 DEF Release, ReleaseAndCatch, providerVars, history
<1>15. ASSUME NEW c \in Callers, Renew(c) PROVE TokenInv'
  BY <1>15, <1>b, <1>c, <1>d DEF Renew, providerVars, bounds, history
<1>16. CASE GrowStale \/ GrowDead
  BY <1>16, <1>b, <1>c, <1>d DEF GrowStale, GrowDead, callerVars, providerVars, bounds, history
<1>17. CASE Expire \/ UNCHANGED vars
  BY <1>17, <1>b, <1>c, <1>d DEF Expire, vars, callerVars, bounds, history
<1> QED
  BY <1>1, <1>2, <1>3, <1>4, <1>5, <1>6, <1>7, <1>8, <1>9, <1>10, <1>11, <1>12, <1>13, <1>14,
     <1>15, <1>16, <1>17 DEF Next, Synchronous, Refreshing

----------------------------------------------------------------------------
(* Credentials of others *)

\* What a writer has read is what is in the file, as long as no lock is taken
\* over and no process creates the file over that of another.
ReadsAreCurrent ==
  ~disturbed /\ ~recreated =>
    /\ \A p \in Processes : Writing(p) => job[p].read = file
    /\ \A c \in Callers : Refreshes(c) \/ Refreshed(c) => base[c] = file

\* What a writer has read stays the file until it writes, unless the lock was taken over.
LEMMA ReadsStep ==
  Names /\ StorageTypeOK /\ LockInv /\ ReadsAreCurrent /\ [Next]_vars => ReadsAreCurrent'
<1> SUFFICES ASSUME Names, StorageTypeOK, LockInv, ReadsAreCurrent, [Next]_vars,
                    ~disturbed', ~recreated'
             PROVE  /\ \A p \in Processes : Writing(p)' => job'[p].read = file'
                    /\ \A c \in Callers : Refreshes(c)' \/ Refreshed(c)' => base'[c] = file'
  BY DEF ReadsAreCurrent
<1> DEFINE Working(c) == Refreshes(c) \/ Refreshed(c)
           Goal == /\ \A p \in Processes : Writing(p)' => job'[p].read = file'
                   /\ \A c \in Callers : Working(c)' => base'[c] = file'
<1> USE DEF Refreshes, Refreshed
<1>a. /\ \A c \in Callers : ProcessOf[c] \in Processes /\ c \notin Processes /\ c # None
      /\ \A p \in Processes : p \notin Callers /\ p # None
  BY DEF Names
<1>b. ~disturbed /\ ~recreated => /\ \A p \in Processes : Writing(p) => job[p].read = file
                                  /\ \A c \in Callers : Working(c) => base[c] = file
  BY DEF ReadsAreCurrent
<1>c. ~disturbed => \A c \in Callers : Working(c) => lock.owner = c /\ ~compromised[c]
  BY DEF LockInv, HoldersOwn, Holds
<1>d. ~disturbed => \A p \in Processes : Writing(p) => lock.owner = p
  BY DEF LockInv, HoldersOwn
<1>e. ASSUME UNCHANGED file, ~disturbed, ~recreated,
             \A c \in Callers : Working(c)' => base'[c] = file \/ (Working(c) /\ base'[c] = base[c]),
             \A p \in Processes : Writing(p)' =>
               job'[p].read = file \/ (Writing(p) /\ job'[p].read = job[p].read)
      PROVE  Goal
  BY <1>b, <1>e
<1>1. ASSUME NEW p \in Processes, EnsureFile(p) PROVE Goal
  <2>1. file = None /\ ~disturbed
    BY <1>1 DEF EnsureFile
  <2>2. \A q \in Processes : ~Writing(q)'
    BY <1>1, <2>1 DEF EnsureFile, bounds, Writing, StorageTypeOK, FileEnsured, JobValues, Jobs
  <2>3. \A c \in Callers : ~Working(c)'
    BY <1>1, <2>1 DEF EnsureFile, callerVars, StorageTypeOK, FileEnsured
  <2> QED BY <2>2, <2>3
<1>2. ASSUME NEW p \in Processes, SyncLock(p) PROVE Goal
  <2>1. ~disturbed /\ UNCHANGED <<file, phase, base, crashed, recreated>>
    BY <1>2 DEF SyncLock, callerVars, bounds
  <2>2. \A q \in Processes : Writing(q)' => job'[q].read = file \/ (Writing(q) /\ job'[q].read = job[q].read)
    BY <1>2 DEF SyncLock, bounds, Writing, StorageTypeOK, JobValues, Jobs
  <2> QED BY <1>e, <2>1, <2>2 DEF Alive
<1>3. ASSUME NEW p \in Processes, SyncLocked(p) PROVE Goal
  <2>1. ~disturbed /\ UNCHANGED <<file, base, crashed, recreated>>
    BY <1>3 DEF SyncLocked, AfterReload, callerVars, bounds, history
  <2>2. \A c \in Callers : Working(c)' => Working(c)
    BY <1>3, <2>1 DEF SyncLocked, AfterReload, callerVars, Alive, StorageTypeOK
  <2>3. \A q \in Processes : Writing(q)' => Writing(q) /\ job'[q].read = job[q].read
    BY <1>3, <2>1 DEF SyncLocked, Writing, StorageTypeOK
  <2> QED BY <1>e, <2>1, <2>2, <2>3
<1>4. ASSUME NEW p \in Processes, SyncWrite(p) PROVE Goal
  <2>1. ~disturbed /\ ~recreated /\ UNCHANGED <<base, crashed>> /\ Writing(p)
    BY <1>4 DEF SyncWrite, AfterReload, callerVars, bounds, history, Writing
  <2>2. \A c \in Callers : ~Working(c)'
    <3>1. \A c \in Callers : ~Working(c)
      BY <1>a, <1>c, <1>d, <2>1
    <3> QED BY <1>4, <2>1, <3>1 DEF SyncWrite, AfterReload, callerVars, Alive, StorageTypeOK
  <2>3. \A q \in Processes : ~Writing(q)'
    <3>1. \A q \in Processes : Writing(q) => q = p
      BY <1>d, <2>1
    <3> QED BY <1>4, <2>1, <3>1 DEF SyncWrite, Writing, StorageTypeOK
  <2> QED BY <2>2, <2>3
<1>5. ASSUME NEW p \in Processes, Set(p) \/ Login(p) \/ Logout(p) PROVE Goal
  <2>1. ~disturbed /\ UNCHANGED <<file, phase, base, crashed, recreated>>
    BY <1>5 DEF Set, Login, Logout, callerVars
  <2>2. \A q \in Processes : Writing(q)' => Writing(q) /\ job'[q].read = job[q].read
    BY <1>5, <2>1 DEF Set, Login, Logout, Persist, Job, Writing, StorageTypeOK
  <2> QED BY <1>e, <2>1, <2>2 DEF Alive
<1>6. ASSUME NEW p \in Processes, Crash(p) PROVE Goal
  <2>1. ~disturbed /\ UNCHANGED <<file, phase, base, recreated>> /\ crashed \subseteq crashed'
    BY <1>6 DEF Crash, callerVars
  <2>2. \A q \in Processes : Writing(q)' => Writing(q) /\ job'[q].read = job[q].read
    BY <1>6, <2>1 DEF Crash, Writing, StorageTypeOK
  <2> QED BY <1>e, <2>1, <2>2 DEF Alive
<1>7. ASSUME NEW c \in Callers, Ask(c) \/ AsyncLocked(c) \/ Release(c) \/ ReleaseAndCatch(c) PROVE Goal
  <2>1. ~disturbed /\ UNCHANGED <<file, base, crashed, recreated>>
    BY <1>7 DEF Ask, AsyncLocked, Release, ReleaseAndCatch, bounds, history
  <2>2. \A d \in Callers : Working(d)' => Working(d)
    BY <1>7, <2>1 DEF Ask, AsyncLocked, Release, ReleaseAndCatch, Catch, Alive, StorageTypeOK
  <2>3. \A q \in Processes : Writing(q)' => Writing(q) /\ job'[q].read = job[q].read
    BY <1>7, <2>1 DEF Ask, AsyncLocked, Release, ReleaseAndCatch, Catch, Job, Writing, StorageTypeOK
  <2> QED BY <1>e, <2>1, <2>2, <2>3
<1>8. ASSUME NEW c \in Callers, AsyncLock(c) PROVE Goal
  <2>1. ~disturbed /\ UNCHANGED <<file, job, crashed, recreated>>
    BY <1>8 DEF AsyncLock, bounds
  <2>2. \A d \in Callers : Working(d)' => base'[d] = file \/ (Working(d) /\ base'[d] = base[d])
    BY <1>8, <2>1 DEF AsyncLock, UnderLock, Alive, StorageTypeOK
  <2> QED BY <1>e, <2>1, <2>2 DEF Writing
<1>9. ASSUME NEW c \in Callers, Refuse(c) \/ Rotate(c) \/ Lose(c) PROVE Goal
  <2>1. ~disturbed /\ UNCHANGED <<file, job, base, crashed, recreated>>
    <3>1. Refuse(c) => UNCHANGED <<disturbed, file, job, base, crashed, recreated>>
      BY DEF Refuse, bounds
    <3>2. Rotate(c) => UNCHANGED <<disturbed, file, job, base, crashed, recreated>>
      BY DEF Rotate, bounds, history
    <3>3. Lose(c) => ~disturbed /\ UNCHANGED <<file, job, base, crashed, recreated>>
      BY DEF Lose
    <3> QED BY <1>9, <3>1, <3>2, <3>3
  <2>2. \A d \in Callers : Working(d)' => Working(d)
    BY <1>9, <2>1 DEF Refuse, Rotate, Lose, Alive, StorageTypeOK
  <2> QED BY <1>e, <2>1, <2>2 DEF Writing
<1>10. ASSUME NEW c \in Callers, Answer(c) PROVE Goal
  <2>1. ~disturbed /\ ~recreated /\ UNCHANGED <<job, base, crashed>> /\ Working(c)
    BY <1>10 DEF Answer, Running, bounds, history, Alive
  <2>2. \A d \in Callers : ~Working(d)'
    <3>1. \A d \in Callers : Working(d) => d = c
      BY <1>c, <2>1
    <3> QED BY <1>10, <2>1, <3>1 DEF Answer, Alive, StorageTypeOK
  <2>3. \A q \in Processes : ~Writing(q)'
    BY <1>a, <1>c, <1>d, <2>1 DEF Writing
  <2> QED BY <2>2, <2>3
<1>11. ASSUME NEW c \in Callers, Renew(c) PROVE Goal
  BY <1>11, <1>e DEF Renew, bounds, history, Alive, Writing
<1>12. CASE GrowStale \/ GrowDead \/ Expire \/ UNCHANGED vars
  BY <1>12, <1>e DEF GrowStale, GrowDead, Expire, vars, callerVars, bounds, history, Alive, Writing
<1> QED
  BY <1>1, <1>2, <1>3, <1>4, <1>5, <1>6, <1>7, <1>8, <1>9, <1>10, <1>11, <1>12
     DEF Next, Synchronous, Refreshing

----------------------------------------------------------------------------
(* The theorems *)

AuthInv == StorageTypeOK /\ CallsReload /\ LockInv /\ TokenInv /\ ReadsAreCurrent

\* The initial states satisfy the invariant.
LEMMA AuthInit == Names /\ Init => AuthInv
<1> SUFFICES ASSUME Names, Init PROVE AuthInv
  OBVIOUS
<1>1. /\ Empty \in Credentials(1) /\ Stored \in Credentials(1) /\ Empty # None
      /\ \A p \in Processes : job[p].kind = "reload" /\ job[p].value = 0 /\ job[p].caller = None
                              /\ job[p].read = Empty
                              /\ job[p].at = IF file = None THEN "ensure" ELSE "lock"
  BY DEF Init, Empty, Stored, Credentials, Names, Job
<1>2. StorageTypeOK
  <2>1. issued = 1 /\ DOMAIN job = Processes /\ \A p \in Processes : job[p] = Job("reload", 0, None)
    BY DEF Init
  <2>2. Job("reload", 0, None) \in Jobs(1)
    BY <1>1 DEF Job, Jobs
  <2>3. JobValues
    BY <1>1, <2>1, <2>2 DEF JobValues
  <2>4. FileEnsured
    BY <2>1, <2>2 DEF Init, Job, FileEnsured, Names
  <2>5. /\ file \in Credentials(1) \union {None} /\ data \in [Processes -> Credentials(1)]
        /\ base \in [Callers -> Credentials(1)]
    BY <1>1 DEF Init
  <2>6. /\ fresh \in [Callers -> 0 .. 1] /\ key \in [Callers -> 0 .. 1] /\ live \subseteq 1 .. 1
        /\ expired \subseteq 1 .. 1 /\ changes \in 0 .. MaxChanges /\ faults \in Nat
    BY DEF Init, Names
  <2>7. lock \in [owner : Processes \union Callers \union {None}, age : {"young", "old", "dead"}]
    BY DEF Init, Free
  <2>8. /\ phase \in [Callers -> Phases] /\ loadError \in [Processes -> BOOLEAN]
        /\ compromised \in [Callers -> BOOLEAN]
    BY DEF Init, Phases
  <2>9. /\ crashed \subseteq Processes /\ reused \in BOOLEAN /\ disturbed \in BOOLEAN
        /\ recreated \in BOOLEAN
    BY DEF Init
  <2>10. issued \in Nat \ {0}
    BY <2>1
  <2> HIDE DEF Names, Init
  <2> QED BY <2>1, <2>3, <2>4, <2>5, <2>6, <2>7, <2>8, <2>9, <2>10 DEF StorageTypeOK
<1>3. CallsReload
  BY <1>1 DEF CallsReload
<1>4. LockInv
  BY <1>1 DEF Init, LockInv, OnlySlowAge, HoldersOwn, Holds, Writing, Free
<1>5. TokenInv
  BY <1>1 DEF Init, TokenInv, TokensGood, LoginsApart, Spendable, Refreshes, Refreshed, Writing,
              LoggingIn, Stored
<1>6. ReadsAreCurrent
  BY <1>1 DEF Init, ReadsAreCurrent, Refreshes, Refreshed, Writing
<1> QED BY <1>2, <1>3, <1>4, <1>5, <1>6 DEF AuthInv

\* Every step keeps the invariant.
LEMMA AuthStep == Names /\ AuthInv /\ [Next]_vars => AuthInv'
  BY StorageTypeStep, ReloadStep, LockStep, TokenStep, ReadsStep DEF AuthInv

\* Every variable keeps its type.
THEOREM TypeTheorem == ASSUME Names PROVE Spec => []TypeOK
<1>1. AuthInv => TypeOK
  BY DEF AuthInv, StorageTypeOK, TypeOK, Credentials, Phases
<1> QED BY <1>1, AuthInit, AuthStep, PTL DEF Spec

\* A refresh token is presented to its provider once, whatever processes and
\* calls there are, unless the lock of a refresh was taken over or its answer lost.
THEOREM SpentOnceTheorem == ASSUME Names PROVE Spec => []RefreshTokenSpentOnce
<1>1. AuthInv => RefreshTokenSpentOnce
  BY DEF AuthInv, TokenInv, RefreshTokenSpentOnce, StorageTypeOK
<1> QED BY <1>1, AuthInit, AuthStep, PTL DEF Spec

\* A writer of auth.json changes one credential and keeps the other as it is in the
\* file, unless a lock was taken over or a process created the file over another's.
THEOREM OtherKeptTheorem == ASSUME Names PROVE Spec => OtherCredentialKept
<1> DEFINE Kept ==
      file # None /\ file'.oauth # file.oauth /\ file'.other # file.other => disturbed \/ recreated'
<1>1. AuthInv /\ [Next]_vars => Kept
  <2> SUFFICES ASSUME AuthInv, [Next]_vars, file # None, ~disturbed, ~recreated'
               PROVE  file'.oauth = file.oauth \/ file'.other = file.other
    OBVIOUS
  <2>1. /\ StorageTypeOK /\ file \in Credentials(issued) /\ issued \in Nat
        /\ \A p \in Processes : ~recreated /\ Writing(p) => job[p].read = file
        /\ \A c \in Callers : ~recreated /\ Refreshed(c) => base[c] = file
    BY DEF AuthInv, StorageTypeOK, ReadsAreCurrent
  <2>2. ASSUME NEW p \in Processes, EnsureFile(p) PROVE FALSE
    BY <2>2 DEF EnsureFile
  <2>3. ASSUME NEW p \in Processes, SyncWrite(p)
        PROVE  file'.oauth = file.oauth \/ file'.other = file.other
    <3>1. ~recreated /\ job[p].read = file /\ job[p].kind \in {"reload", "set", "login", "logout"}
      BY <2>1, <2>3 DEF SyncWrite, history, Writing, StorageTypeOK, JobValues, Jobs
    <3>2. \/ file' = file \/ file' = [file EXCEPT !.other = job[p].value]
          \/ \E t : file' = [file EXCEPT !.oauth = t]
      BY <2>3, <3>1 DEF SyncWrite, Saved
    <3> QED BY <2>1, <3>2 DEF Credentials
  <2>4. ASSUME NEW c \in Callers, Answer(c)
        PROVE  file'.oauth = file.oauth \/ file'.other = file.other
    <3>1. ~recreated /\ base[c] = file
      BY <2>1, <2>4 DEF Answer, Running, history, Refreshed, Alive
    <3>2. file' = file \/ file' = [file EXCEPT !.oauth = fresh[c]]
      BY <2>4, <3>1 DEF Answer, Merged
    <3> QED BY <2>1, <3>2 DEF Credentials
  <2>5. ASSUME NEW p \in Processes,
               SyncLock(p) \/ SyncLocked(p) \/ Set(p) \/ Login(p) \/ Logout(p) \/ Crash(p)
        PROVE  UNCHANGED file
    BY <2>5 DEF SyncLock, SyncLocked, Set, Login, Logout, Crash
  <2>6. ASSUME NEW c \in Callers,
               \/ Ask(c) \/ AsyncLock(c) \/ AsyncLocked(c) \/ Refuse(c) \/ Rotate(c) \/ Lose(c)
               \/ Release(c) \/ ReleaseAndCatch(c) \/ Renew(c)
        PROVE  UNCHANGED file
    BY <2>6 DEF Ask, AsyncLock, AsyncLocked, Refuse, Rotate, Lose, Release, ReleaseAndCatch, Renew
  <2>7. CASE GrowStale \/ GrowDead \/ Expire \/ UNCHANGED vars
    BY <2>7 DEF GrowStale, GrowDead, Expire, vars
  <2> QED BY <2>2, <2>3, <2>4, <2>5, <2>6, <2>7 DEF Next, Synchronous, Refreshing
<1> QED BY <1>1, AuthInit, AuthStep, PTL DEF Spec, OtherCredentialKept
=============================================================================

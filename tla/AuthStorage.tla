----------------------------- MODULE AuthStorage -----------------------------
(***************************************************************************)
(* core/auth-storage.ts: several processes share auth.json, which holds a  *)
(* credential of an OAuth provider, whose refresh tokens can be spent once *)
(* only, and the key of another provider.  Tokens and keys are numbered as *)
(* they are made, 0 is none.                                               *)
(*                                                                         *)
(* A synchronous withLock blocks its process (job); other processes may    *)
(* act between its reading and its writing.  proper-lockfile is external:  *)
(* a lock is a directory with a time.  A synchronous locker removes a lock *)
(* older than 10 s, an asynchronous one a lock older than 30 s, and a live *)
(* asynchronous owner renews its lock every 15 s.  age says which of these *)
(* times have passed.                                                      *)
(***************************************************************************)
EXTENDS Naturals

CONSTANTS
  Processes,
  Callers,    \* calls of getApiKey for the OAuth provider, each made once
  ProcessOf,  \* the process each caller is in
  None,       \* no file, no job, no owner
  MaxTokens,  \* bound: tokens issued before the last expiry or login
  MaxChanges, \* bound: calls of set, login and logout
  MaxFaults   \* bound: crashes, lost requests and lost answers

VARIABLES
  file,        \* auth.json, or None
  lock,        \* owner: a process, a caller or None
  data,        \* AuthStorage.data of each process
  loadError,
  job,         \* the synchronous operation a process is in, or None
  phase,       \* where each caller is
  base,        \* what each caller has read under the lock
  fresh,       \* the token the provider has sent to each caller
  compromised, \* each caller's lockCompromised
  key,         \* what each call returned: a token, or 0
  live, expired, issued, \* the provider: tokens not spent, expired ones, their number
  changes, faults,
  crashed,     \* processes that have died
  reused, disturbed, dropped, recreated  \* history

vars == <<file, lock, data, loadError, job, phase, base, fresh, compromised, key,
          live, expired, issued, changes, faults, crashed, reused, disturbed, dropped, recreated>>
callerVars == <<phase, base, fresh, compromised, key>>
providerVars == <<live, expired, issued>>
history == <<reused, disturbed, dropped, recreated>>
bounds == <<changes, faults, crashed>>

Empty == [oauth |-> 0, other |-> 0]
Stored == [oauth |-> 1, other |-> 1]
Free == [owner |-> None, age |-> "young"]

Job(kind, value, caller) ==
  [kind |-> kind, value |-> value, caller |-> caller, read |-> Empty,
   at |-> IF file = None THEN "ensure" ELSE "lock"]

\* Every process starts with AuthStorage.create, which reloads.
Init ==
  /\ file \in {None, Stored}
  /\ lock = Free
  /\ data = [p \in Processes |-> Empty]
  /\ loadError = [p \in Processes |-> FALSE]
  /\ job = [p \in Processes |-> Job("reload", 0, None)]
  /\ phase = [c \in Callers |-> "idle"]
  /\ base = [c \in Callers |-> Empty]
  /\ fresh = [c \in Callers |-> 0]
  /\ compromised = [c \in Callers |-> FALSE]
  /\ key = [c \in Callers |-> 0]
  /\ live = {1} /\ expired = {} /\ issued = 1
  /\ changes = 0 /\ faults = 0 /\ crashed = {}
  /\ reused = FALSE /\ disturbed = FALSE /\ dropped = {} /\ recreated = FALSE

ProcessOfOwner(o) == IF o \in Callers THEN ProcessOf[o] ELSE o
OwnerLives == lock.owner \in Callers /\ ProcessOf[lock.owner] \notin crashed
Running(p) == p \notin crashed /\ job[p] = None
Usable(t) == t # 0 /\ t \notin expired
Stale(l) == l.age # "young"

----------------------------------------------------------------------------
(* The synchronous withLock *)

\* ensureFileExists: existsSync said no, and writeFileSync follows, without the
\* lock and even over a file that another process has created meanwhile.
EnsureFile(p) ==
  /\ p \notin crashed /\ job[p] # None /\ job[p].at = "ensure"
  /\ file' = Empty
  /\ job' = [job EXCEPT ![p].at = "lock"]
  /\ recreated' = (recreated \/ file # None)
  /\ UNCHANGED <<lock, data, loadError, callerVars, providerVars, bounds, reused, disturbed, dropped>>

\* acquireLockSyncWithRetry and readFileSync.
SyncLock(p) ==
  /\ p \notin crashed /\ job[p] # None /\ job[p].at = "lock"
  /\ lock.owner = None \/ Stale(lock)
  /\ disturbed' = (disturbed \/ OwnerLives)
  /\ lock' = [owner |-> p, age |-> "young"]
  /\ job' = [job EXCEPT ![p].at = "write", ![p].read = file]
  /\ UNCHANGED <<file, data, loadError, callerVars, providerVars, bounds, reused, dropped, recreated>>

\* getApiKey goes on after the reload in its catch block.
AfterReload(p, d) ==
  LET c == job[p].caller
  IN  IF c = None THEN UNCHANGED callerVars
      ELSE /\ phase' = [phase EXCEPT ![c] = "done"]
           /\ key' = [key EXCEPT ![c] = IF Usable(d.oauth) THEN d.oauth ELSE 0]
           /\ UNCHANGED <<base, fresh, compromised>>

\* Ten attempts found the lock taken: a reload keeps the data and blocks later
\* saves, a save records the error.
SyncLocked(p) ==
  /\ p \notin crashed /\ job[p] # None /\ job[p].at = "lock"
  /\ ~Stale(lock) /\ (OwnerLives \/ ProcessOfOwner(lock.owner) \in crashed)
  /\ loadError' = [loadError EXCEPT ![p] = @ \/ job[p].kind = "reload"]
  /\ AfterReload(p, data[p])
  /\ job' = [job EXCEPT ![p] = None]
  /\ UNCHANGED <<file, lock, data, providerVars, bounds, history>>

\* Seeded fault: the process saves what it has in memory.
SavedFromMemory(p) == data[p]

\* persistProviderChange: the file as read, with the one credential changed.
Saved(p) ==
  CASE job[p].kind = "set"    -> [job[p].read EXCEPT !.other = job[p].value]
    [] job[p].kind = "login"  -> [job[p].read EXCEPT !.oauth = job[p].value]
    [] job[p].kind = "logout" -> [job[p].read EXCEPT !.oauth = 0]

\* The function runs, its result is written, and the lock is released.
SyncWrite(p) ==
  /\ p \notin crashed /\ job[p] # None /\ job[p].at = "write"
  /\ IF job[p].kind = "reload"
     THEN /\ data' = [data EXCEPT ![p] = job[p].read]
          /\ loadError' = [loadError EXCEPT ![p] = FALSE]
          /\ AfterReload(p, job[p].read)
          /\ UNCHANGED file
     ELSE /\ file' = Saved(p)
          /\ UNCHANGED <<data, loadError, callerVars>>
  /\ lock' = Free
  /\ job' = [job EXCEPT ![p] = None]
  /\ UNCHANGED <<providerVars, bounds, history>>

\* set, login and logout: memory first, and no save after a load error.
Persist(p, kind, value) ==
  IF loadError[p]
  THEN dropped' = dropped \union {p} /\ UNCHANGED job
  ELSE job' = [job EXCEPT ![p] = Job(kind, value, None)] /\ UNCHANGED dropped

Set(p) ==
  /\ Running(p) /\ changes < MaxChanges
  /\ changes' = changes + 1
  /\ data' = [data EXCEPT ![p].other = changes + 2]
  /\ Persist(p, "set", changes + 2)
  /\ UNCHANGED <<file, lock, loadError, callerVars, providerVars, faults, crashed, reused, disturbed, recreated>>

\* The provider's login ends with a new token.
Login(p) ==
  /\ Running(p) /\ changes < MaxChanges /\ issued < MaxTokens
  /\ changes' = changes + 1
  /\ issued' = issued + 1 /\ live' = live \union {issued'}
  /\ data' = [data EXCEPT ![p].oauth = issued']
  /\ Persist(p, "login", issued')
  /\ UNCHANGED <<file, lock, loadError, callerVars, expired, faults, crashed, reused, disturbed, recreated>>

Logout(p) ==
  /\ Running(p) /\ changes < MaxChanges
  /\ changes' = changes + 1
  /\ data' = [data EXCEPT ![p].oauth = 0]
  /\ Persist(p, "logout", 0)
  /\ UNCHANGED <<file, lock, loadError, callerVars, providerVars, faults, crashed, reused, disturbed, recreated>>

----------------------------------------------------------------------------
(* getApiKey and refreshOAuthTokenWithLock *)

Ask(c) ==
  LET t == data[ProcessOf[c]].oauth
  IN  /\ Running(ProcessOf[c]) /\ phase[c] = "idle"
      /\ IF t = 0 \/ Usable(t)
         THEN phase' = [phase EXCEPT ![c] = "done"] /\ key' = [key EXCEPT ![c] = t]
         ELSE phase' = [phase EXCEPT ![c] = "locking"] /\ UNCHANGED key
      /\ UNCHANGED <<file, lock, data, loadError, job, base, fresh, compromised,
                     providerVars, bounds, history>>

\* Seeded fault: the token is refreshed without looking at the file again.
UnderLockWithoutLook(c) ==
  /\ base' = [base EXCEPT ![c] = data[ProcessOf[c]]]
  /\ phase' = [phase EXCEPT ![c] = "refreshing"]
  /\ UNCHANGED <<data, key>>

\* The function under the lock, up to its await: another process may have
\* refreshed or removed the token.
UnderLock(c) ==
  /\ base' = [base EXCEPT ![c] = file]
  /\ data' = [data EXCEPT ![ProcessOf[c]] = file]
  /\ phase' = [phase EXCEPT ![c] =
                 IF file.oauth = 0 \/ Usable(file.oauth) THEN "releasing" ELSE "refreshing"]
  /\ key' = [key EXCEPT ![c] = IF Usable(file.oauth) THEN file.oauth ELSE 0]

\* lockfile.lock succeeds.
AsyncLock(c) ==
  /\ Running(ProcessOf[c]) /\ phase[c] = "locking"
  /\ lock.owner = None \/ lock.age = "dead"
  /\ disturbed' = (disturbed \/ OwnerLives)
  /\ lock' = [owner |-> c, age |-> "young"]
  /\ UnderLock(c)
  /\ loadError' = [loadError EXCEPT ![ProcessOf[c]] = FALSE]
  /\ UNCHANGED <<file, job, fresh, compromised, providerVars, bounds, reused, dropped, recreated>>

\* The catch block of getApiKey, which reloads.
Catch(c) ==
  /\ phase' = [phase EXCEPT ![c] = "reloading"]
  /\ job' = [job EXCEPT ![ProcessOf[c]] = Job("reload", 0, c)]

\* All retries found the lock taken.
AsyncLocked(c) ==
  /\ Running(ProcessOf[c]) /\ phase[c] = "locking"
  /\ OwnerLives
  /\ Catch(c)
  /\ UNCHANGED <<file, lock, data, loadError, base, fresh, compromised, key,
                 providerVars, bounds, history>>

\* The provider refuses a token that has been spent.
Refuse(c) ==
  /\ phase[c] = "refreshing" /\ ProcessOf[c] \notin crashed
  /\ base[c].oauth \notin live
  /\ reused' = TRUE
  /\ phase' = [phase EXCEPT ![c] = "failing"]
  /\ UNCHANGED <<file, lock, data, loadError, job, base, fresh, compromised, key,
                 providerVars, bounds, disturbed, dropped, recreated>>

\* The provider takes the token and issues the next one.
Rotate(c) ==
  /\ phase[c] = "refreshing" /\ ProcessOf[c] \notin crashed
  /\ base[c].oauth \in live
  /\ issued' = issued + 1
  /\ live' = (live \ {base[c].oauth}) \union {issued'}
  /\ fresh' = [fresh EXCEPT ![c] = issued']
  /\ phase' = [phase EXCEPT ![c] = "refreshed"]
  /\ UNCHANGED <<file, lock, data, loadError, job, base, compromised, key, expired, bounds, history>>

\* The request or its answer is lost.
Lose(c) ==
  /\ phase[c] \in {"refreshing", "refreshed"} /\ ProcessOf[c] \notin crashed
  /\ faults < MaxFaults
  /\ faults' = faults + 1
  /\ disturbed' = (disturbed \/ phase[c] = "refreshed")
  /\ phase' = [phase EXCEPT ![c] = "failing"]
  /\ UNCHANGED <<file, lock, data, loadError, job, base, fresh, compromised, key,
                 providerVars, changes, crashed, reused, dropped, recreated>>

\* Seeded fault: other credentials are taken from memory, not from the file.
MergedFromMemory(c) == [data[ProcessOf[c]] EXCEPT !.oauth = fresh[c]]

Merged(c) == [base[c] EXCEPT !.oauth = fresh[c]]

\* The answer arrives: memory takes it in any case, the file unless the lock is
\* known to be lost.
Answer(c) ==
  /\ Running(ProcessOf[c]) /\ phase[c] = "refreshed"
  /\ data' = [data EXCEPT ![ProcessOf[c]] = Merged(c)]
  /\ loadError' = [loadError EXCEPT ![ProcessOf[c]] = FALSE]
  /\ IF compromised[c]
     THEN /\ phase' = [phase EXCEPT ![c] = "failing"]
          /\ UNCHANGED <<file, key>>
     ELSE /\ phase' = [phase EXCEPT ![c] = "releasing"]
          /\ file' = Merged(c)
          /\ key' = [key EXCEPT ![c] = fresh[c]]
  /\ UNCHANGED <<lock, job, base, fresh, compromised, providerVars, bounds, history>>

\* release(): an owner that has not noticed its loss may remove another's lock.
Unlock(c) ==
  \/ lock.owner = c /\ lock' = Free
  \/ lock.owner # c /\ UNCHANGED lock
  \/ lock.owner # c /\ ~compromised[c] /\ lock' = Free

Release(c) ==
  /\ Running(ProcessOf[c]) /\ phase[c] = "releasing"
  /\ Unlock(c)
  /\ phase' = [phase EXCEPT ![c] = "done"]
  /\ UNCHANGED <<file, data, loadError, job, base, fresh, compromised, key,
                 providerVars, bounds, history>>

\* The finally block after a failure, and the catch block of getApiKey.
ReleaseAndCatch(c) ==
  /\ Running(ProcessOf[c]) /\ phase[c] = "failing"
  /\ Unlock(c)
  /\ Catch(c)
  /\ UNCHANGED <<file, data, loadError, base, fresh, compromised, key,
                 providerVars, bounds, history>>

----------------------------------------------------------------------------
(* Time and crashes *)

\* The lock's time passes 10 s.
GrowStale ==
  /\ lock.age = "young"
  /\ lock.owner \in Callers \/ lock.owner \in crashed
  /\ lock' = [lock EXCEPT !.age = "old"]
  /\ UNCHANGED <<file, data, loadError, job, callerVars, providerVars, bounds, history>>

\* It passes 30 s, which its owner prevents while it lives.
GrowDead ==
  /\ lock.age = "old" /\ ProcessOfOwner(lock.owner) \in crashed
  /\ lock' = [lock EXCEPT !.age = "dead"]
  /\ UNCHANGED <<file, data, loadError, job, callerVars, providerVars, bounds, history>>

\* The timer of proper-lockfile renews the lock, or finds it gone.
Renew(c) ==
  /\ Running(ProcessOf[c]) /\ phase[c] \in {"refreshing", "refreshed"}
  /\ \/ /\ lock.owner = c /\ lock.age = "old"
        /\ lock' = [lock EXCEPT !.age = "young"]
        /\ UNCHANGED compromised
     \/ /\ lock.owner # c /\ ~compromised[c]
        /\ compromised' = [compromised EXCEPT ![c] = TRUE]
        /\ UNCHANGED lock
  /\ UNCHANGED <<file, data, loadError, job, phase, base, fresh, key, providerVars, bounds, history>>

\* The tokens issued so far expire.
Expire ==
  /\ expired # 1..issued /\ issued < MaxTokens
  /\ expired' = 1..issued
  /\ UNCHANGED <<file, lock, data, loadError, job, callerVars, live, issued, bounds, history>>

Crash(p) ==
  /\ p \notin crashed /\ faults < MaxFaults
  /\ faults' = faults + 1
  /\ crashed' = crashed \union {p}
  /\ job' = [job EXCEPT ![p] = None]
  /\ disturbed' = (disturbed \/ \E c \in Callers : ProcessOf[c] = p /\ phase[c] = "refreshed")
  /\ UNCHANGED <<file, lock, data, loadError, callerVars, providerVars, changes, reused, dropped, recreated>>

Synchronous(p) == EnsureFile(p) \/ SyncLock(p) \/ SyncLocked(p) \/ SyncWrite(p)
Refreshing(c) ==
  AsyncLock(c) \/ AsyncLocked(c) \/ Refuse(c) \/ Rotate(c) \/ Answer(c) \/ Release(c) \/ ReleaseAndCatch(c)

Next ==
  \/ \E p \in Processes : Synchronous(p) \/ Set(p) \/ Login(p) \/ Logout(p) \/ Crash(p)
  \/ \E c \in Callers : Ask(c) \/ Refreshing(c) \/ Lose(c) \/ Renew(c)
  \/ GrowStale \/ GrowDead \/ Expire

Spec == Init /\ [][Next]_vars

\* Code runs on, the provider answers or its request times out, and a lock that
\* nobody renews grows old.
Fairness ==
  /\ \A p \in Processes : WF_vars(Synchronous(p))
  /\ \A c \in Callers : WF_vars(Refreshing(c) \/ Lose(c))
  /\ WF_vars(GrowStale /\ ~OwnerLives) /\ WF_vars(GrowDead)

FairSpec == Spec /\ Fairness

----------------------------------------------------------------------------
(* Properties *)

TypeOK ==
  /\ file \in {None} \union [oauth : 0..issued, other : 0..(MaxChanges + 1)]
  /\ lock.owner \in Processes \union Callers \union {None}
  /\ phase \in [Callers -> {"idle", "locking", "refreshing", "refreshed", "failing",
                            "releasing", "reloading", "done"}]
  /\ \A c \in Callers : key[c] \in 0..issued /\ fresh[c] \in 0..issued
  /\ live \subseteq 1..issued /\ expired \subseteq 1..issued

\* "Multiple pi instances may try to refresh simultaneously when tokens expire":
\* a refresh token is never presented a second time, except after the lock of a
\* refresh was taken over or the provider's answer was lost.
RefreshTokenSpentOnce == reused => disturbed

\* "set preserves unrelated external edits" (auth-storage.test.ts): no step
\* changes both credentials of the file, except after a lock was taken over or a
\* process that had found no file created it over the one of another.
OtherCredentialKept ==
  [][file # None /\ file'.oauth # file.oauth /\ file'.other # file.other
       => disturbed \/ recreated']_vars

\* Nothing a user sets is dropped without a record.
NoSilentDrop == dropped = {}

\* A call of getApiKey returns unless its process dies, whoever holds the lock or
\* died with it.
GetApiKeySettles ==
  \A c \in Callers : phase[c] = "locking" ~> phase[c] = "done" \/ ProcessOf[c] \in crashed
=============================================================================

--------------------------- MODULE SessionRuntime ---------------------------
(***************************************************************************)
(* core/agent-session-runtime.ts under modes/rpc/rpc-mode.ts: the session  *)
(* of a process is replaced by a new one, a saved one or a fork.  Input    *)
(* lines are handled without waiting for the one before, so replacements   *)
(* overlap.  Each asks the extensions, prepares a session manager, shuts   *)
(* the extensions down, disposes of the session, creates the next one,     *)
(* makes it current and binds the front end to it; every one of these may  *)
(* fail or let others in between.                                          *)
(*                                                                         *)
(* A session manager is a name and the number of times its memory has been *)
(* branched in place, which is what fork does to a session without a file. *)
(***************************************************************************)
EXTENDS Naturals

CONSTANTS
  Commands,    \* the new_session, switch_session and fork lines of the input
  MaxSessions, \* bound: sessions created
  MaxFaults    \* bound: replacements that fail

VARIABLES
  \* AgentSessionRuntime
  current,   \* _session
  created,   \* sessions so far; they are numbered
  connected, \* sessions that hear their agent and so save its messages: not disposed
  manager,   \* sessionManager of each session
  branch,    \* how often each manager was branched in place
  view,      \* the branch each session's transcript was built from
  saved,     \* whether each manager has a file
  \* the extensions of each session
  starts, stops,  \* how many session_start and session_shutdown they were sent
  \* rpc-mode
  session,   \* the session commands go to
  heard,     \* the session whose events go to the output
  process,   \* "up", "closing", "gone"
  job,       \* what each command is doing
  \* history
  faults,
  torn,      \* sessions a failed replacement had disposed of, or had made
  overlapped \* two replacements, or one and the shutdown, ran at the same time

runtimeVars == <<current, created, connected>>
managerVars == <<manager, branch, view, saved>>
extensionVars == <<starts, stops>>
frontVars == <<session, heard, process>>
historyVars == <<faults, torn, overlapped>>
vars == <<runtimeVars, managerVars, extensionVars, frontVars, job, historyVars>>

Sessions == 1 .. MaxSessions
Nobody == 0
Kinds == {"new", "setup", "switch", "fork"}
UnderWay == {"asking", "stopping", "creating", "applying", "setup", "returning", "binding"}
Busy == {c \in Commands : job[c].stage \in UnderWay}

\* target is the manager the replacement has branched, last the session it has disposed
\* of and next the one it has made.
Job(stage, kind, target) ==
  [stage |-> stage, kind |-> kind, target |-> target, last |-> Nobody, next |-> Nobody]

Init ==
  /\ current = 1 /\ created = 1 /\ connected = {1}
  /\ manager = [s \in Sessions |-> s]
  /\ branch = [m \in Sessions |-> 0] /\ view = [s \in Sessions |-> 0]
  /\ \E file \in BOOLEAN : saved = [m \in Sessions |-> m # 1 \/ file]
  /\ starts = [s \in Sessions |-> IF s = 1 THEN 1 ELSE 0]
  /\ stops = [s \in Sessions |-> 0]
  /\ session = 1 /\ heard = 1 /\ process = "up"
  /\ job = [c \in Commands |-> Job("none", "new", Nobody)]
  /\ faults = 0 /\ torn = {} /\ overlapped = FALSE

Goes(c, stage) == job' = [job EXCEPT ![c].stage = stage]
Fault == faults < MaxFaults /\ faults' = faults + 1

----------------------------------------------------------------------------
(* One replacement *)

\* emitBeforeSwitch, emitBeforeFork
Ask(c, kind) ==
  /\ process # "gone" /\ job[c].stage = "none"
  /\ job' = [job EXCEPT ![c] = Job("asking", kind, Nobody)]
  /\ overlapped' = (overlapped \/ Busy # {} \/ process = "closing")
  /\ UNCHANGED <<runtimeVars, managerVars, extensionVars, frontVars, faults, torn>>

\* An extension cancels, the file cannot be opened, its directory is missing or the
\* entry is no message of the user.
Refuse(c) ==
  /\ process # "gone" /\ job[c].stage = "asking"
  /\ Goes(c, "done")
  /\ UNCHANGED <<runtimeVars, managerVars, extensionVars, frontVars, historyVars>>

\* The next session's manager is made, or the current one's memory branched, and the
\* extensions of the current session are told.
Prepare(c) ==
  LET inPlace == job[c].kind = "fork" /\ ~saved[manager[current]]
      m == manager[current]
  IN  /\ process # "gone" /\ job[c].stage = "asking"
      /\ branch' = IF inPlace THEN [branch EXCEPT ![m] = @ + 1] ELSE branch
      /\ job' = [job EXCEPT ![c] = Job("stopping", @.kind, IF inPlace THEN m ELSE Nobody)]
      /\ stops' = [stops EXCEPT ![current] = @ + 1]
      /\ UNCHANGED <<runtimeVars, manager, view, saved, starts, frontVars, historyVars>>

\* dispose, of the session that is current now.
Dispose ==
  /\ connected' = connected \ {current}
  /\ heard' = IF heard = current THEN Nobody ELSE heard

Stopped(c) ==
  /\ process # "gone" /\ job[c].stage = "stopping"
  /\ Dispose
  /\ job' = [job EXCEPT ![c].stage = "creating", ![c].last = current]
  /\ UNCHANGED <<current, created, managerVars, extensionVars, session, process, historyVars>>

\* createRuntime: the transcript is what the manager holds by now.
Create(c) ==
  LET s == created + 1
      m == IF job[c].target = Nobody THEN s ELSE job[c].target
  IN  /\ process # "gone" /\ job[c].stage = "creating" /\ created < MaxSessions
      /\ created' = s
      /\ connected' = connected \union {s}
      /\ manager' = [manager EXCEPT ![s] = m]
      /\ view' = [view EXCEPT ![s] = branch[m]]
      /\ job' = [job EXCEPT ![c].stage = "applying", ![c].next = s]
      /\ UNCHANGED <<current, branch, saved, extensionVars, frontVars, historyVars>>

\* createRuntime fails, or chdir before the session is current.
Fail(c) ==
  /\ process # "gone" /\ job[c].stage \in {"creating", "applying"}
  /\ Fault /\ torn' = torn \union ({job[c].last, job[c].next} \ {Nobody})
  /\ Goes(c, "done")
  /\ UNCHANGED <<runtimeVars, managerVars, extensionVars, frontVars, overlapped>>

\* apply; newSession goes on with the setup an extension has asked for.
Apply(c) ==
  /\ process # "gone" /\ job[c].stage = "applying"
  /\ current' = job[c].next
  /\ Goes(c, IF job[c].kind = "setup" THEN "setup" ELSE "returning")
  /\ UNCHANGED <<created, connected, managerVars, extensionVars, frontVars, historyVars>>

\* The transcript is that of the current session's manager again.
SetUp(c) ==
  /\ process # "gone" /\ job[c].stage = "setup"
  /\ view' = [view EXCEPT ![current] = branch[manager[current]]]
  /\ Goes(c, "returning")
  /\ UNCHANGED <<runtimeVars, manager, branch, saved, extensionVars, frontVars, historyVars>>

\* The front end is not bound to the new session.
SetUpFails(c) ==
  /\ process # "gone" /\ job[c].stage = "setup"
  /\ Fault /\ torn' = torn \union {job[c].next}
  /\ Goes(c, "done")
  /\ UNCHANGED <<runtimeVars, managerVars, extensionVars, frontVars, overlapped>>

\* rebindSession: the session that is current by now, whose extensions are started.
BindTo(c, s) ==
  /\ process # "gone" /\ job[c].stage = "returning"
  /\ session' = s
  /\ starts' = [starts EXCEPT ![s] = @ + 1]
  /\ Goes(c, "binding")
  /\ UNCHANGED <<runtimeVars, managerVars, stops, heard, process, historyVars>>

\* Seeded fault: the session the command has made.
BindOwn(c) == BindTo(c, job[c].next)

Bind(c) == BindTo(c, current)

Bound(c) ==
  /\ process # "gone" /\ job[c].stage = "binding"
  /\ heard' = session
  /\ Goes(c, "done")
  /\ UNCHANGED <<runtimeVars, managerVars, extensionVars, session, process, historyVars>>

----------------------------------------------------------------------------
(* shutdown, at the end of the input *)

Close ==
  /\ process = "up"
  /\ process' = "closing" /\ heard' = Nobody
  /\ stops' = [stops EXCEPT ![current] = @ + 1]
  /\ overlapped' = (overlapped \/ Busy # {})
  /\ UNCHANGED <<runtimeVars, managerVars, starts, session, job, faults, torn>>

Exit ==
  /\ process = "closing"
  /\ process' = "gone"
  /\ Dispose
  /\ UNCHANGED <<current, created, managerVars, extensionVars, session, job, historyVars>>

Next ==
  \/ \E c \in Commands, kind \in Kinds : Ask(c, kind)
  \/ \E c \in Commands :
       \/ Refuse(c) \/ Prepare(c) \/ Stopped(c) \/ Create(c) \/ Fail(c) \/ Apply(c)
       \/ SetUp(c) \/ SetUpFails(c) \/ Bind(c) \/ Bound(c)
  \/ Close
  \/ Exit

Spec == Init /\ [][Next]_vars

----------------------------------------------------------------------------
(* Properties *)

\* Every variable holds a value of its kind.
TypeOK ==
  /\ current \in 1 .. created /\ session \in 1 .. created /\ heard \in 0 .. created
  /\ connected \subseteq 1 .. created
  /\ manager \in [Sessions -> Sessions] /\ saved \in [Sessions -> BOOLEAN]
  /\ \A s \in Sessions : view[s] <= branch[manager[s]]
  /\ process \in {"up", "closing", "gone"}

\* However replacements overlap: once they are over, commands go to the current
\* session, it hears its agent and the client hears it, unless a replacement that
\* failed has left it that way.
SettledOnCurrent ==
  process = "up" /\ Busy = {} /\ current \notin torn =>
    session = current /\ heard = current /\ current \in connected

\* One replacement at a time: all sessions but the current one are disposed of, each
\* had its extensions started and, when it was replaced, stopped, once; what the agent
\* is shown is what the manager holds.
OneSessionAtATime ==
  ~overlapped /\ process = "up" /\ Busy = {} =>
    /\ connected \subseteq {current} \union torn
    /\ \A s \in 1 .. created : s \notin torn =>
         starts[s] = 1 /\ stops[s] = (IF s = current THEN 0 ELSE 1)
    /\ current \notin torn => view[current] = branch[manager[current]]

\* The process ends with its extensions told and no session connected.
EndsClean ==
  process = "gone" /\ ~overlapped =>
    stops[current] >= 1 /\ connected \subseteq torn

ReplacementsSettle == SettledOnCurrent /\ OneSessionAtATime /\ EndsClean
=============================================================================

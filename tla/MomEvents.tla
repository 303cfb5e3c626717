------------------------------ MODULE MomEvents ------------------------------
(***************************************************************************)
(* packages/mom/src/events.ts, one file of the events directory: users and *)
(* the agent write it, the watcher notices with a delay, a handler reads   *)
(* it with retries and executes or schedules the event, a timer or a cron  *)
(* executes it later.  Handlers of one file may overlap: each awaits its   *)
(* reads, and the delay of a retry is as long as that of a notification.   *)
(*                                                                         *)
(* Every content written is a version of its own.  The runs of a cron      *)
(* change nothing here.                                                    *)
(***************************************************************************)
EXTENDS Naturals

CONSTANTS
  Types,       \* subset of EventTypes, below
  MaxRetries,
  None,
  MaxVersions, \* bound: contents written
  MaxTouches,  \* bound: notifications of no change
  MaxStarts,   \* bound: starts of mom
  Handlers     \* bound: handlers at work at a time

EventTypes ==
  {"immediate", "one-shot", "periodic",
   "unschedulable", \* periodic with a schedule Cron rejects
   "malformed"}     \* not yet, or never, an event

VARIABLES
  disk,        \* the content of the file, or None
  versions, touches, starts,
  ripe,        \* versions whose time has come
  up,          \* mom runs
  debounced,   \* a debounce timer runs
  handlers,    \* for each handler at work its place, or None
  known,       \* knownFiles has the file
  timers, crons, \* the schedule the maps name, or None
  armed,       \* schedules that will execute
  scheduled,   \* schedules made so far
  executions,  \* history: for each version how often it was executed
  mixed        \* history: two handlers were at work at once, or one acted on a file that
               \* had changed since it was read

momEventVars == <<disk, versions, touches, starts, ripe, up, debounced, handlers, known, timers,
                  crons, armed, scheduled, executions, mixed>>
outside == <<versions, touches, starts, ripe>>

NoHandlers == [h \in Handlers |-> None]

Init ==
  /\ disk = None /\ versions = 0 /\ touches = 0 /\ starts = 1 /\ ripe = {}
  /\ up = TRUE /\ debounced = FALSE /\ handlers = NoHandlers /\ known = FALSE
  /\ timers = None /\ crons = None /\ armed = {} /\ scheduled = 0
  /\ executions = [v \in 1..MaxVersions |-> 0] /\ mixed = FALSE

----------------------------------------------------------------------------
(* Outside: the file, the clock, the process *)

WriteFile ==
  /\ versions < MaxVersions
  /\ versions' = versions + 1
  /\ \E t \in Types : disk' = [v |-> versions', type |-> t, start |-> starts]
  /\ debounced' = up
  /\ UNCHANGED <<touches, starts, ripe, up, handlers, known, timers, crons, armed, scheduled,
                 executions, mixed>>

RemoveFile ==
  /\ disk # None
  /\ disk' = None /\ debounced' = up
  /\ UNCHANGED <<outside, up, handlers, known, timers, crons, armed, scheduled, executions,
                 mixed>>

\* One write may be notified more than once.
TouchFile ==
  /\ up /\ disk # None /\ touches < MaxTouches
  /\ touches' = touches + 1 /\ debounced' = TRUE
  /\ UNCHANGED <<disk, versions, starts, ripe, up, handlers, known, timers, crons, armed, scheduled,
                 executions, mixed>>

\* The time of a one-shot event passes.
TimePasses(v) ==
  /\ v \in (1..versions) \ ripe
  /\ ripe' = ripe \union {v}
  /\ UNCHANGED <<disk, versions, touches, starts, up, debounced, handlers, known, timers, crons,
                 armed, scheduled, executions, mixed>>

Die ==
  /\ up' = FALSE /\ debounced' = FALSE /\ handlers' = NoHandlers /\ known' = FALSE
  /\ timers' = None /\ crons' = None /\ armed' = {}

Crash ==
  /\ up /\ starts < MaxStarts
  /\ Die
  /\ UNCHANGED <<disk, outside, scheduled, executions, mixed>>

----------------------------------------------------------------------------
(* The watcher *)

Busy(h) == handlers[h] # None
Reading(tries) == [at |-> "reading", tries |-> tries, got |-> None]

\* handleFile runs to its first await.
BeginHandler ==
  \E h \in Handlers :
    /\ ~Busy(h) /\ \A g \in Handlers : ~Busy(g) => h = CHOOSE x \in Handlers : ~Busy(x)
    /\ handlers' = [handlers EXCEPT ![h] = Reading(0)]
    /\ mixed' = (mixed \/ \E g \in Handlers : Busy(g))

\* start: files that exist are handled as if they were new.
Start ==
  /\ ~up
  /\ up' = TRUE /\ starts' = starts + 1
  /\ IF disk # None
     THEN handlers' = [handlers EXCEPT ![CHOOSE h \in Handlers : TRUE] = Reading(0)]
     ELSE UNCHANGED handlers
  /\ UNCHANGED <<disk, versions, touches, ripe, debounced, known, timers, crons, armed, scheduled,
                 executions, mixed>>

CancelScheduled ==
  /\ armed' = {a \in armed : a.id \notin {timers, crons}}
  /\ timers' = None /\ crons' = None

\* Seeded fault: only timers are cancelled when a file is changed.
ChangedKeepsCrons ==
  /\ armed' = {a \in armed : a.id # timers}
  /\ timers' = None /\ UNCHANGED crons

\* The file was modified, or is gone.
Changed == CancelScheduled

\* handleFileChange, 100 ms after the last notification.
HandleFileChange ==
  /\ up /\ debounced
  /\ debounced' = FALSE
  /\ \/ /\ disk = None /\ known' = FALSE
        /\ IF known THEN Changed ELSE UNCHANGED <<timers, crons, armed>>
        /\ UNCHANGED <<handlers, mixed>>
     \/ /\ disk # None /\ BeginHandler /\ UNCHANGED known
        /\ IF known THEN Changed ELSE UNCHANGED <<timers, crons, armed>>
  /\ UNCHANGED <<disk, outside, up, scheduled, executions>>

\* unlinkSync is noticed like any change.
DeleteFile == disk' = None /\ debounced' = (debounced \/ disk # None) /\ known' = FALSE

\* execute: the event is queued or discarded and the file deleted, in either case;
\* mom may die in between.
Execute(v) ==
  /\ executions' = [executions EXCEPT ![v] = @ + 1]
  /\ \/ DeleteFile /\ UNCHANGED up
     \/ starts < MaxStarts /\ up' = FALSE /\ debounced' = FALSE /\ known' = FALSE /\ UNCHANGED disk

Place(h, at) == up /\ Busy(h) /\ handlers[h].at = at
Ends(h) == handlers' = IF up' THEN [handlers EXCEPT ![h] = None] ELSE NoHandlers

\* readFile returns what it found, or fails.
ReadFile(h) ==
  /\ Place(h, "reading")
  /\ handlers' = [handlers EXCEPT ![h] = [@ EXCEPT !.at = "read", !.got = disk]]
  /\ UNCHANGED <<disk, outside, up, debounced, known, timers, crons, armed, scheduled, executions,
                 mixed>>

Parsed(h) == handlers[h].got # None /\ handlers[h].got.type # "malformed"

\* No event: another attempt after a while, then the file is deleted unseen.
Retry(h) ==
  /\ Place(h, "read") /\ ~Parsed(h)
  /\ IF handlers[h].tries + 1 < MaxRetries
     THEN /\ handlers' = [handlers EXCEPT ![h] =
                            [at |-> "sleeping", tries |-> @.tries + 1, got |-> None]]
          /\ UNCHANGED <<disk, up, debounced, known>>
     ELSE DeleteFile /\ UNCHANGED up /\ Ends(h)
  /\ UNCHANGED <<outside, timers, crons, armed, scheduled, executions, mixed>>

WakeUp(h) ==
  /\ Place(h, "sleeping")
  /\ handlers' = [handlers EXCEPT ![h].at = "reading"]
  /\ UNCHANGED <<disk, outside, up, debounced, known, timers, crons, armed, scheduled, executions,
                 mixed>>

\* handleImmediate: not for a file older than mom's start, nor one that is gone.
HandleImmediate(h) ==
  /\ Place(h, "read") /\ Parsed(h) /\ handlers[h].got.type = "immediate"
  /\ \/ disk = None /\ known' = TRUE /\ UNCHANGED <<disk, up, debounced, executions>>
     \/ disk # None /\ disk.start < starts /\ DeleteFile /\ UNCHANGED <<up, executions>>
     \/ disk # None /\ disk.start = starts /\ Execute(handlers[h].got.v)
  /\ mixed' = (mixed \/ disk # handlers[h].got)
  /\ Ends(h)
  /\ IF up' THEN UNCHANGED <<timers, crons, armed>> ELSE timers' = None /\ crons' = None /\ armed' = {}
  /\ UNCHANGED <<outside, scheduled>>

Arm(v, kind) ==
  /\ scheduled' = scheduled + 1
  /\ armed' = armed \union {[id |-> scheduled', v |-> v, kind |-> kind]}

\* handleOneShot: a time that has passed deletes the file.
HandleOneShot(h) ==
  LET v == handlers[h].got.v IN
  /\ Place(h, "read") /\ Parsed(h) /\ handlers[h].got.type = "one-shot"
  /\ \/ v \in ripe /\ DeleteFile /\ UNCHANGED <<armed, timers, scheduled>>
     \/ v \notin ripe /\ Arm(v, "timer") /\ timers' = scheduled' /\ known' = TRUE
        /\ UNCHANGED <<disk, debounced>>
  /\ UNCHANGED up /\ Ends(h)
  /\ mixed' = (mixed \/ disk # handlers[h].got)
  /\ UNCHANGED <<outside, crons, executions>>

\* handlePeriodic: a schedule that Cron rejects deletes the file.
HandlePeriodic(h) ==
  /\ Place(h, "read") /\ Parsed(h)
  /\ \/ handlers[h].got.type = "unschedulable" /\ DeleteFile /\ UNCHANGED <<armed, crons, scheduled>>
     \/ handlers[h].got.type = "periodic" /\ Arm(handlers[h].got.v, "cron") /\ crons' = scheduled'
        /\ known' = TRUE /\ UNCHANGED <<disk, debounced>>
  /\ UNCHANGED up /\ Ends(h)
  /\ mixed' = (mixed \/ disk # handlers[h].got)
  /\ UNCHANGED <<outside, timers, executions>>

\* The timer's callback: whatever timer the map names is forgotten.
Fire(a) ==
  /\ up /\ a \in armed /\ a.kind = "timer" /\ a.v \in ripe
  /\ Execute(a.v)
  /\ armed' = IF up' THEN armed \ {a} ELSE {}
  /\ timers' = None /\ crons' = (IF up' THEN crons ELSE None)
  /\ handlers' = (IF up' THEN handlers ELSE NoHandlers)
  /\ UNCHANGED <<outside, scheduled, mixed>>

Handle(h) ==
  ReadFile(h) \/ Retry(h) \/ WakeUp(h) \/ HandleImmediate(h) \/ HandleOneShot(h) \/ HandlePeriodic(h)

Next ==
  \/ WriteFile \/ RemoveFile \/ TouchFile \/ Crash \/ Start \/ HandleFileChange
  \/ \E v \in 1..MaxVersions : TimePasses(v)
  \/ \E h \in Handlers : Handle(h)
  \/ \E a \in armed : Fire(a)

Spec == Init /\ [][Next]_momEventVars

----------------------------------------------------------------------------
(* Properties *)

TypeOK ==
  /\ disk = None \/ (disk.v \in 1..versions /\ disk.type \in Types /\ disk.start \in 1..starts)
  /\ timers \in 1..scheduled \union {None} /\ crons \in 1..scheduled \union {None}
  /\ ~up => armed = {} /\ handlers = NoHandlers
  /\ \A a \in armed : a.id \in 1..scheduled

\* An event is executed at most once, across changes of its file, retries, crashes
\* and restarts, and what will execute is what the maps can cancel and, once the
\* notifications are handled, what the file says; unless two handlers of the file
\* were at work at once or the file changed under one of them.
ExecutedOnce ==
  ~mixed =>
    /\ \A v \in 1..versions : executions[v] <= 1
    /\ \A a \in armed : a.id = IF a.kind = "timer" THEN timers ELSE crons
    /\ up /\ ~debounced /\ (\A h \in Handlers : ~Busy(h)) =>
         \A a \in armed : disk # None /\ a.v = disk.v
=============================================================================

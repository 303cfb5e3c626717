---------------------------- MODULE BashExecution ----------------------------
(***************************************************************************)
(* One shell command: core/tools/bash.ts, core/bash-executor.ts and        *)
(* utils/child-process.ts.  The shell ends on its own or is killed, by the *)
(* signal or the time-out, and may leave processes that hold its pipes.    *)
(* Output arrives in pieces; the last of it is buffered, all of it goes to *)
(* a temporary file once there is too much.                                *)
(***************************************************************************)
EXTENDS Naturals, Sequences, FiniteSetsExt

CONSTANTS
  Sizes,      \* bytes of a piece of output
  LineCounts, \* lines of a piece
  MaxBytes,   \* DEFAULT_MAX_BYTES
  MaxLines,   \* DEFAULT_MAX_LINES
  MaxPieces   \* bound: pieces of output

VARIABLES
  \* how it is called
  caller,  \* "tool", or "user": the ! command of executeBashWithOperations
  updates, \* the tool's caller wants the output as it comes
  timeout, \* a time-out is given
  aborted, \* the signal
  \* the processes
  child,       \* "none", "running", "exited"
  code,        \* exit code, 1 for every other than 0
  killed,      \* the process group was sent SIGKILL
  descendants, \* what the shell has left behind: "none", "group", or "detached" from it
  open,        \* the pipes have not ended
  timedOut,
  \* the output
  pieces,  \* what arrived
  first,   \* the oldest piece still in the buffer
  file,    \* the oldest piece in the temporary file; 0 when there is none
  \* the answer
  outcome, \* "none", "ok", "failed", "aborted", "timeout", "error"
  cut      \* the answer shows the end of the output only

callVars == <<caller, updates, timeout>>
processVars == <<child, code, killed, descendants, open, timedOut>>
outputVars == <<pieces, first, file>>
answerVars == <<outcome, cut>>
vars == <<callVars, aborted, processVars, outputVars, answerVars>>

Pieces == [bytes : Sizes, lines : LineCounts]

Init ==
  /\ caller \in {"tool", "user"}
  /\ updates \in BOOLEAN /\ (updates => caller = "tool")
  /\ timeout \in BOOLEAN /\ (timeout => caller = "tool")
  /\ aborted = FALSE
  /\ child = "none" /\ code = 0 /\ killed = FALSE /\ descendants = "none"
  /\ open = TRUE /\ timedOut = FALSE
  /\ pieces = <<>> /\ first = 1 /\ file = 0
  /\ outcome = "none" /\ cut = FALSE

Started == child # "none" /\ outcome = "none"

----------------------------------------------------------------------------
(* Output *)

Total(t) == LET sum[n \in 0 .. Len(t)] == IF n = 0 THEN 0 ELSE sum[n - 1] + t[n] IN sum[Len(t)]
Bytes(from, s) == Total([i \in 1 .. Len(s) |-> IF i < from THEN 0 ELSE s[i].bytes])
Lines(from, s) == Total([i \in 1 .. Len(s) |-> IF i < from THEN 0 ELSE s[i].lines])

\* truncateTail, of the buffer
Truncated(from, s) == Bytes(from, s) > MaxBytes \/ Lines(from, s) > MaxLines

\* The rolling buffer keeps twice the limit and at least one piece.
Trimmed(from, s) ==
  Min({i \in from .. Len(s) : i = Len(s) \/ Bytes(i, s) <= 2 * MaxBytes})

\* ensureTempFile: the file begins with what the buffer holds.
Ensured(from) == IF file = 0 THEN from ELSE file

\* Seeded fault: the buffer is trimmed before the file is made.
ReceiveTrimsFirst(piece) ==
  LET s == Append(pieces, piece)
      from == Trimmed(first, s)
  IN  /\ pieces' = s /\ first' = from
      /\ file' = IF Bytes(1, s) > MaxBytes \/ (updates /\ Truncated(from, s))
                 THEN Ensured(from) ELSE file

\* handleData: the file, the new piece in it, the buffer, the update.
Receive(piece) ==
  LET s == Append(pieces, piece)
      from == Trimmed(first, s)
      early == IF Bytes(1, s) > MaxBytes THEN Ensured(first) ELSE file
  IN  /\ pieces' = s /\ first' = from
      /\ file' = IF early = 0 /\ updates /\ Truncated(from, s) THEN from ELSE early

Data(piece) ==
  /\ Started /\ open /\ Len(pieces) < MaxPieces
  /\ Receive(piece)
  /\ UNCHANGED <<callVars, aborted, processVars, answerVars>>

\* The promise settles.  The tool throws away the limits when it rejects; the user's
\* command is answered in the same way when it was aborted.
Answer(result) ==
  LET limited == result \in {"ok", "failed"} \/ (caller = "user" /\ result = "aborted")
      now == limited /\ Truncated(first, pieces)
  IN  /\ outcome' = result
      /\ cut' = now
      /\ file' = IF now THEN Ensured(first) ELSE file
      /\ UNCHANGED <<pieces, first>>

----------------------------------------------------------------------------
(* The processes *)

\* Seeded fault: only the shell itself is killed.
KillChildOnly == killed' = TRUE /\ UNCHANGED descendants

\* killProcessTree
Kill ==
  /\ killed' = TRUE
  /\ descendants' = IF descendants = "group" THEN "none" ELSE descendants

\* A signal that is aborted already kills at once.
Spawn ==
  /\ child = "none" /\ outcome = "none"
  /\ child' = "running"
  /\ IF aborted THEN Kill ELSE UNCHANGED <<killed, descendants>>
  /\ UNCHANGED <<callVars, aborted, code, open, timedOut, outputVars, answerVars>>

\* No such directory, or no shell; an aborted command of the user's is answered as such.
SpawnFails ==
  /\ child = "none" /\ outcome = "none"
  /\ Answer(IF caller = "user" /\ aborted THEN "aborted" ELSE "error")
  /\ UNCHANGED <<callVars, aborted, processVars>>

Abort ==
  /\ ~aborted /\ outcome = "none"
  /\ aborted' = TRUE
  /\ IF Started THEN Kill ELSE UNCHANGED <<killed, descendants>>
  /\ UNCHANGED <<callVars, child, code, open, timedOut, outputVars, answerVars>>

TimeoutFires ==
  /\ Started /\ timeout /\ ~timedOut
  /\ timedOut' = TRUE
  /\ Kill
  /\ UNCHANGED <<callVars, aborted, child, code, open, outputVars, answerVars>>

LeaveBehind(kind) ==
  /\ child = "running" /\ ~killed /\ descendants = "none"
  /\ descendants' = kind
  /\ UNCHANGED <<callVars, aborted, child, code, killed, open, timedOut, outputVars, answerVars>>

DescendantEnds ==
  /\ descendants # "none" /\ outcome = "none"
  /\ descendants' = "none"
  /\ UNCHANGED <<callVars, aborted, child, code, killed, open, timedOut, outputVars, answerVars>>

----------------------------------------------------------------------------
(* waitForChildProcess *)

\* finalize: the signal comes first, then the time-out, then the exit code.
Finalize(c) ==
  Answer(IF aborted THEN "aborted" ELSE IF timedOut THEN "timeout"
         ELSE IF c = 0 THEN "ok" ELSE "failed")

\* Without its pipes still open the exit ends the wait.
Exit(c) ==
  /\ child = "running" /\ outcome = "none"
  /\ child' = "exited" /\ code' = c
  /\ IF open THEN UNCHANGED <<outputVars, answerVars>> ELSE Finalize(c)
  /\ UNCHANGED <<callVars, aborted, killed, descendants, open, timedOut>>

\* The pipes end when nobody can write to them, or when they are closed before.
PipesEnd ==
  /\ Started /\ open
  /\ open' = FALSE
  /\ IF child = "exited" THEN Finalize(code) ELSE UNCHANGED <<outputVars, answerVars>>
  /\ UNCHANGED <<callVars, aborted, child, code, killed, descendants, timedOut>>

\* EXIT_STDIO_GRACE_MS after the exit
GraceEnds ==
  /\ child = "exited" /\ outcome = "none"
  /\ Finalize(code)
  /\ UNCHANGED <<callVars, aborted, processVars>>

Next ==
  \/ \E piece \in Pieces : Data(piece)
  \/ Spawn \/ SpawnFails
  \/ Abort \/ TimeoutFires
  \/ \E kind \in {"group", "detached"} : LeaveBehind(kind)
  \/ DescendantEnds
  \/ \E c \in {0, 1} : Exit(c)
  \/ PipesEnd \/ GraceEnds

Spec == Init /\ [][Next]_vars

\* Node spawns or fails and its timers fire; what is killed dies.  Nothing makes the
\* command end on its own, or what it leaves behind.
Timers == Spawn \/ SpawnFails \/ TimeoutFires \/ GraceEnds \/ (killed /\ \E c \in {0, 1} : Exit(c))

----------------------------------------------------------------------------
(* Properties *)

\* Every variable holds a value of its kind.
TypeOK ==
  /\ child \in {"none", "running", "exited"} /\ code \in {0, 1}
  /\ descendants \in {"none", "group", "detached"}
  /\ pieces \in Seq(Pieces) /\ first \in 1 .. Len(pieces) + 1 /\ file \in 0 .. Len(pieces)
  /\ outcome \in {"none", "ok", "failed", "aborted", "timeout", "error"}

\* The temporary file holds all the output, and there is one when the answer or the
\* buffer holds less, however the output was cut into pieces.
FullOutputSaved ==
  /\ file \in {0, 1}
  /\ cut \/ first > 1 => file = 1

\* The answer is given when the shell is gone, with the processes of its group when it
\* was stopped, and an exit code is reported only for a command nobody stopped.
AnswerIsHonest ==
  /\ outcome # "none" => child # "running"
  /\ outcome \in {"aborted", "timeout"} /\ child = "exited" => killed /\ descendants # "group"
  /\ outcome \in {"ok", "failed"} => ~killed

CommandReported == FullOutputSaved /\ AnswerIsHonest

\* A command that has ended, was stopped or has a time-out is answered, whoever still
\* holds its pipes.
CommandAnswered == (child = "exited" \/ aborted \/ timeout) ~> outcome # "none"
=============================================================================

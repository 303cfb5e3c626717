# A TLA+ verification of free-code

free-code is a coding agent: a loop that talks to a language model and runs
tools on its behalf (`packages/agent`), a session around it that saves the
conversation, retries, compacts and queues (`packages/coding-agent/src/core`),
and the front ends that drive it: a terminal UI, an RPC process, a Slack bot
(`packages/mom`), a desktop host and a VS Code extension.

Almost everything runs on the single thread of Node's event loop. What makes it
hard is therefore not data races but *interleavings of asynchronous functions*:
every `await` is a point at which other handlers run and change the state that
the function goes on to use. The models put one value of a control variable at
each such await, and one action at each stretch of code between two awaits. A
rejected promise, an abort or a crash is an action that may come at any of them.

Contents: [1 inventory](#1-inventory), [2 modules](#2-modules),
[3 runs](#3-runs), [4 fairness](#4-fairness), [5 proofs](#5-proofs),
[6 disagreements found](#6-where-code-and-documentation-disagree),
[7 what is left out](#7-what-is-left-out), [8 plan](#8-plan).

## 1. Inventory

How the parts call each other:

    Interactive mode   RPC client --stdio--> RPC mode   Mom (Slack)   desktop, VS Code
           \                                   |           |               /
            +---------------- AgentSessionRuntime ---------+--------------+
                                     |  new / switch / fork / import
                              AgentSession ---- extension runner ---- extensions
                     events  /      |      \ 
                       Agent        |       SessionManager --> *.jsonl files
                      /     \       |
          EventStream       tools   SettingsManager, AuthStorage --> locked files
              |               |
          providers     file mutation queue, bash executor

Calls go down; events come back up from Agent through AgentSession to the
extensions and the front ends. Queues (steering, follow-up) and abort signals
are the only way into a run that is under way.

### Agent and agent loop — `packages/agent/src/agent.ts`, `agent-loop.ts`

*State:* the transcript `state.messages`, the active run with its abort signal,
the steering and follow-up queues with their modes, the pending tool calls;
inside a run the loop's own copy of the conversation (`currentContext.messages`),
the messages drained but not emitted, and the tool calls under way.
*Operations:* prompt, continue, steer, followUp, clear, reset, abort, assignment
of `state.messages`; every await of the loop; tools that settle on their own.
*Hard:* callers act at every await; any hook, listener or stream may reject;
parallel tools outlive the code that waits for them.
*Correct when* the model is sent exactly the transcript, every tool call is
answered exactly once before the next request, no queued message is lost,
reordered or delivered twice except visibly, and every run settles.

### SessionManager — `core/session-manager.ts`

*State:* an append-only tree of entries (messages, labels, compactions, branch
summaries, settings), the leaf new entries hang on, the labels, and a JSONL file
that is written late: nothing before the first assistant message, everything
then, one line per entry afterwards.
*Operations:* append, label, move the leaf, reset it, branch with a summary,
start, resume and fork sessions.
*Hard:* what memory holds and what the file holds differ until the first answer;
reopening, forking and crashing all happen in that window; forks re-link entries
around labels; compaction refers to an entry by id.
*Correct when* the file holds what memory holds once there is an answer, every
reference resolves, a reload or a fork shows the same conversation, and a crash
takes nothing that was saved.

### AgentSession — `core/agent-session.ts`

*State:* a promise chain of agent events, the retry promise and counter, the
lists of queued texts and of messages for the next turn, the overflow flag, the compaction controllers, pending bash results, the subscription
to the agent.
*Operations:* prompt, steer, follow up, send a custom message, clear the queue, abort,
compact, record a bash result; the event
handler, its back-off and its compactions; the timer that continues a run.
*Hard:* events are handled behind slow extension handlers while the agent goes
on; four independent paths restart the agent; compaction replaces the transcript.
*Correct when* the transcript and the saved branch agree at rest, `prompt()`
always settles, an overflow is recovered from at most once and, if recovery is
announced, the request is sent again, and no message that waits for the agent is lost
or kept twice.

### Session runtime — `core/agent-session-runtime.ts` under `modes/rpc/rpc-mode.ts`

*State:* the current session, the front end's subscription and bindings.
*Operations:* switch, new, fork, the shutdown. *Hard:* each stops the old session
before it creates the next, any step may fail, and input lines are handled
without waiting, so replacements overlap. *Correct when*, once they are over,
commands, events and recording are all on the same session, its extensions were
started and stopped once, and the process ends with none connected.

### Stores shared between processes

SettingsManager (`core/settings-manager.ts`): *state* settings in memory, a set
of modified fields, a write queue, two files. *Hard:* other processes write the
same files; a missing file is read without the lock; fields are merged one by
one. *Correct when* no process undoes a change another made to a field it did
not touch, and a change is written, waits to be, or its loss is recorded.
AuthStorage (`core/auth-storage.ts`): *state* credentials in memory and in a
locked file. *Hard:* two processes find one token expired; a lock can be taken
over during the refresh; processes die. *Correct when* a refresh token is spent
once, the other credentials survive, and `getApiKey` returns.

### Tools and commands

File mutation queue (`core/tools/file-mutation-queue.ts`): a chain of promises
per file. *Correct when* changes of one file run one at a time, in order, and the
map forgets idle files. Its users edit and write (`edit.ts`, `write.ts`): *hard*
are aborts that answer while a file system call goes on and names that change
when the file is created; *correct when* no edit is lost and every call returns.
Bash executor (`core/tools/bash.ts`, `core/bash-executor.ts`,
`utils/child-process.ts`): a child, its pipes, a rolling buffer and a temporary
file. *Hard:* abort, time-out, exit and the end of the pipes in any order, and
descendants that hold the pipes. *Correct when* the output is saved in full, the
answer comes and says how the command ended.

### Requests to models

Event stream (`ai/src/utils/event-stream.ts`): one producer, consumers that ask,
wait and leave. Providers (`ai/src/providers`) are loaded when first used and
their stream is forwarded into the one the agent loop already reads. *Correct
when* events arrive once and in order across both, and the loop's answer is the
provider's last event.

### Extension runner — `core/extensions/runner.ts`

*State:* per round the handlers asked, the value they pass on, what ended it.
*Hard:* nine kinds of round that differ in what an answer changes, what ends the
round and which errors are caught. *Correct when* a tool runs only if every
handler agreed, later handlers see what earlier ones changed, and an error of one
takes nothing from the others.

### Compaction — `core/compaction/*`

Functions on the branch: where to cut, whether a turn is split, what to summarise.
*Hard:* boundaries (trailing tool results, settings entries, an earlier
compaction), and compactions of what was compacted. *Correct when* no tool result
is kept without its call, what is kept stays within the budget whenever it can,
and every message is kept or in a summary.

### RPC — `modes/rpc/rpc-client.ts`, `rpc-mode.ts`

*State:* pending requests with timers, a send chain, listeners; two pipes; the
agent's run and command. *Hard:* late answers, `stop()` with requests pending, an
`agent_end` of an earlier run, a dying agent. *Correct when* each request settles
once, with its own answer.

### Mom, the Slack bot — `packages/mom/src`

*State:* per channel a queue and a running flag; event files with timers and
crons; a log synchronised into the session. *Hard:* overlapping handlers for one
file, deletion during a read, a stop racing the end of a run, restarts. *Correct
when* each event is executed once at its time, the flag says whether the queue
works, and the model sees each logged text.

### Webhook receiver — `default-extensions/webhook-receiver`

*State:* a bounded queue with waiters, the server and its port, messages on their
way into `prompt()`. *Hard:* time-outs, aborts and events settle the same waiter;
the port is bound asynchronously; the agent starts and stops meanwhile. *Correct
when* each event reaches one live waiter, in order, unless the queue overflowed;
a message follows the run it finds; no server is left behind.

### Everything else

OAuth logins (network protocols), model registry, skills, prompts, resources
(tables read from files), package manager (npm and git), the other built-in tools
(text functions), start-up, the user interfaces (tui, web-ui, interactive mode,
desktop host, VS Code, macOS), pods, code graph, the Python RAG server, generated
and vendored code. `PROJECT.json` lists each with the reason it is not modelled,
and under "hazards" the points of the code a test would hardly reach, with the
properties that cover each.

## 2. Modules

| module | models | code |
|---|---|---|
| `Agent` | the Agent class and the loop it runs | `agent.ts`, `agent-loop.ts` |
| `MessageDelivery` | what the agent promises for messages handed to it | abstract |
| `SessionManager` | entry tree, files, branching, forks, crashes | `session-manager.ts`, `fork()` of `agent-session-runtime.ts` |
| `ConversationLog` | what a session store promises | abstract |
| `AgentSession` | event queue, retry, compaction, prompt | `agent-session.ts` |
| `PendingMessages` | queued messages, the lists front ends show, the next turn's messages | `agent-session.ts` |
| `SessionRuntime` | replacing the session, bindings, shutdown | `agent-session-runtime.ts`, `rpc-mode.ts` |
| `Compaction` | the cut and the summaries | `compaction.ts` |
| `ExtensionRunner` | rounds of handlers, hooks around a tool call | `runner.ts`, hooks of `agent-session.ts` |
| `FileMutationQueue` | the chain of promises per file | `file-mutation-queue.ts` |
| `FileTools` | edit and write, on the queue | `edit.ts`, `write.ts` |
| `BashExecution` | one shell command | `bash.ts`, `bash-executor.ts`, `child-process.ts` |
| `EventStream` | events from a producer to consumers | `event-stream.ts` |
| `ProviderStream` | a request: lazy loading, forwarding, reading | `register-builtins.ts`, `agent-loop.ts` |
| `AuthStorage` | credentials shared by processes | `auth-storage.ts` |
| `Settings` | settings shared by processes | `settings-manager.ts` |
| `Rpc` | RPC client, pipes and agent process | `rpc-client.ts`, `rpc-mode.ts` |
| `MomChannel` | a Slack channel: queue, handler, log | `slack.ts`, `main.ts`, `agent.ts`, `context.ts` of mom |
| `MomEvents` | one file of the events directory | `events.ts` of mom |
| `WebhookReceiver` | queue, waiters, server, triggered messages | `_registry.ts`, `_server.ts`, `index.ts` |
| `AgentProofs`, `AgentSessionProofs`, `SessionManagerProofs`, `AuthStorageProofs` | theorems about the module of that name | |
| `ComponentProofs` | theorems about `FileMutationQueue`, `EventStream`, `ExtensionRunner`, `Compaction` | |
| `HostServices` | instances of `MomChannel`, `Settings`, `MomEvents`, `SessionRuntime`, `WebhookReceiver`, `PendingMessages`, under the names they have in `MCServices` | |
| `HostServicesProofs` | the invariants of these six components | |
| `ServicesProofs`, `AgentScenarioProofs`, `SessionManagerProofs` (its last section) | theorems about the compositions `MCServices`, `MCAgentScenarios` and `MCSessionScenarios` | |
| `MCAgentScenarios`, `MCSessionScenarios`, `MCServices` | several instances in one state graph | |
| `MCAgent`, `MCSessionManager`, `MCAgentSession` | definitions the configurations name | |

Composition: `FileTools` runs its bodies inside `FileMutationQueue` (INSTANCE,
same variables); `ProviderStream` extends `EventStream` and has a second instance
of it for the provider's own stream; `MCServices` and `MCAgentScenarios` choose
one component or one instance in the initial state and move only that one
(`subject`, `scenario`), which gives one run per question without multiplying
independent states. `MCServices` extends `HostServices`, which only declares its share of
the constants, variables and instances. `Agent` implements `MessageDelivery` through the mapping
`Delivery`; the session store implements `ConversationLog` through `Store`. The proofs
compose in the same way: `ServicesProofs` shows that a step of the services is a step of
a component or leaves it alone, and takes over what was proved of the component in
`ComponentProofs`, `HostServicesProofs` or an instance of `AuthStorageProofs` with the
substitutions `MCServices` makes. The modules are divided as they are because a proof
sees every definition of the modules it extends, and the provers slow down with them.

Where one component is part of another's environment it is reduced to what the
other sees of it: `AgentSession` has the agent as injected messages, replies and
an end and the store as the entries of the current branch; `WebhookReceiver` has
the agent as whether it runs.

### Agent

`pc` names the await at which the loop is suspended. Each loop action is the code
up to the next await: `EmitPrompt`, `InitialPoll`, `InjectMessage` and
`PushInjected` (the loop's push comes after listeners have run), `Request`,
`ResponseStart`, `ResponseEnd`, `StartTools`, `ToolStart`, `ToolImmediate` /
`ToolPrepared`, `LaunchTools`, `FinalizeTool`, `ToolOutcome`, `ToolsDone`,
`PollSteering`, `PollFollowUp`, `FinishRun`. `Throw` is a rejected hook, stream or
listener at the current await; `HandleRunFailure` is what the code makes of it.
The caller's methods are enabled at every await. `ToolSettles` is a tool that
finishes by itself, which it may do after the run is gone. A message is an
identity and the channel it came by; an assistant message keeps its stop reason
and the number of its calls. `message_update` and `tool_execution_update`, which
change only what is drawn, are left out.

### SessionManager

`disk` is the lines of every file, `sm` the manager's fields. A save is
`Persisted` and `DiskAfter`, the two halves of `_persist`; `Save` adds them to
every append, as the code does. `Resume` reads a file through `Loaded`, which
skips unreadable lines as the code does. `ForkSaved` is `fork()` of a persisted
session, through the file; `ForkInMemory` the other branch. `CrashWhileAppending`
leaves any prefix of the lines an append writes, the last of them perhaps torn,
and continues with a program started again on that file; a torn line and whatever
is glued to it are one unreadable line. `Next` is `Operate(kinds)`, what users and
agents do with the given kinds of entry, `Mark`, a bookmark, and `Crash(kinds)`;
the two scenarios of `MCSessionScenarios` put them together differently.

### AgentSession

`run` is the agent, `events` the promise chain `_agentEventQueue`, `handling` the
handler's own await. `compactions` has one entry per function that can compact
(the event handler, each `prompt()`, `compact()`): they are independent in the
code too, apart from the controller two of them share. `prompts` says where each
call of `prompt()` is. `timers` counts `setTimeout(() => agent.continue())`.
Calls are numbered in the order they are made, which loses nothing because they
differ in nothing else. A compaction entry names the first kept entry by its place on the
branch: the code looks its id up, and the branch of this model only grows.

Two history variables delimit what the code promises. `overtaken` becomes true when
the session and the agent have changed the conversation at the same time: a
compaction ends, a back-off or an overflow drops a message, or a bash result is
flushed while a run is on or messages are still unsaved; or a run begins during a
compaction; or a message is shown while the session is unsubscribed. `derailed`
becomes true when an answer comes without its message event, or when a compaction
ends under a run or a pending retry. Both really happen (`prompt()` during
`compact()` is enough) and the code does nothing about them; the passing
properties speak about the executions in which they did not, and the violation
runs and the hazards about some in which they did.

Abstractions: compaction keeps the last message; only the follow-up queue, drained
at once; handlers of `session_compact` return at once; retry and compaction are
switched on in the settings.

### The services

`FileMutationQueue` names a promise by its caller: a caller takes the promise in
the map (`currentQueue`), leaves its own and enters when its predecessor has left.
`FileTools` has one step per file system call; `writeFile` is two, truncation and
write. An aborted call is a *straggler*: it is answered and off the queue while
its file system call goes on.

`AuthStorage` and `Settings` have a `job` per process: the synchronous section of
`withLock`, one step per system call, so that other processes act in between.
`proper-lockfile` is external; `age` says which of its times (10 s, 15 s, 30 s)
have passed. `Settings` has one scope, because global and project settings share
nothing but the queue.

`Rpc` joins the client's state (`pendingRequests`, the send chain, listeners) to
the agent process by two sequences. `MomChannel` has one step per await of a run;
`MomEvents` one file with numbered versions, up to `Handlers` overlapping
handlers with their retries, and the timer or cron each one arms.

`Compaction` names an entry by its place on the branch. `findCutPoint`,
`findTurnStartIndex` and `prepareCompaction` are operators; the branch grows by
`Append` and is compacted again and again, each compaction remembering what its
summary covers.

`SessionRuntime` numbers sessions; a session manager is a name with the number of
times its memory was branched in place, which is what a fork of a session without
a file does. `torn` are sessions a failed replacement has disposed of or made.

`BashExecution` has the child, the processes it leaves in its group or outside it,
the pipes, the timers, and the pieces of output with their sizes; `first` is the
first piece still in the buffer, `file` the first in the temporary file.

`PendingMessages` has the agent's queues, the session's lists of texts (`lists`) and
the events between them (`events`): a text leaves its list when the event of its
message is handled, not when the agent drains it. `shown` says whose texts the lists
hold, which the code does not know. `ClearedGivenBack`: what `clearQueue()` takes
from the agent it gives back to the editor. `ListsAreQueues`: once every event is
handled the lists hold what is queued. `InOnePlace`: no message is lost or kept twice
on its way from a list or a prompt into the transcript.

`ExtensionRunner` abstracts a value to the handlers whose change it carries. An
event is one round, a tool call two with the tool between them; `told` is, per
field, whose value the model is told.

`WebhookReceiver`: `waiters` is the registry's list and `waited` what each call
came to, so a waiter that was settled and stayed in the list shows. `servers` are
all instances made, `server` the one the extension knows.

History variables (`early`, `crowded`, `disturbed`, `mixed`, `torn`, `overlapped`,
`rushed`, `mistaken`, `unheard`, `lateFor`, `overtaken`, `derailed`, `forgotten`, `recreated`) delimit what the code
promises. Each becomes true at one described event, is never read by a guard, and
each exception is told in section 6.

## 3. Runs

All bounds are constants named in the configuration. Deadlock is checked for the
session store, where some step is always possible; every other component may be
idle for ever once the bounds on what callers do are used up, so there it is not,
and the liveness properties take its place.

### agent
Four instances: parallel tools with two messages, two tool turns of up to two
calls and one rejection; three messages, both queue modes and one clear, reset or
assignment; the same with two messages and a rejection; sequential tools with
one-at-a-time queues. `RequestShowsTranscript`: whenever the model is asked, the
loop's context is the transcript (`ContextInv` is the inductive form the proof
rests on). `ToolCallsAnswered`: at a request every call of every earlier answer
has exactly one result, after that answer. `PendingCoversExecuting`: every
executing tool of a live run is in `pendingToolCalls`. `DeliverySpec`: the agent
implements `MessageDelivery` - messages of a channel are delivered in order, at
most once, and only a counted, visible event drops any.
`NothingOverlaps`: with queues that give one message at a time two steering messages
never go into one request, not even when `continue()` drains one itself, and with
sequential tools no tool outlives its run. Two calls are the fewest that answer
out of order, two turns the fewest in which a result could go to the wrong one;
three messages let one overtake, one be drained and one be left.

### session_store
Two instances: users, assistants and the other kinds of entry, four entries, two
files, no bookmarks or crashes; and bookmarks, sessions in memory and on disk, one
crash. `FileIsMemory`: once there is an answer the file holds what memory holds,
with one header and no entry twice. `ReferencesResolve`: every parent and every
first kept entry is in the session, without bookmarks and crashes. `ForkKeepsContext`: a fork of an answered
branch starts from its context. `LogSpec`: the store implements
`ConversationLog`. `LabelsAreRecorded`: the table kept by appends is the one a
reload computes. `ForkKeepsLabels`: a fork in memory keeps the labels of what it
keeps. `NothingSavedIsLost`: no crash takes a readable line from a file. Four
entries allow a question, an answer, a second branch and a compaction; two files
a fork that is resumed.

### agent_session
Two overlapping prompts and any two troubles among: a failed request (retryable,
overflowing, fatal), a failure before the answer, a follow-up, a bash result, an
abort, a manual compaction. `TranscriptIsContext`: at rest, unless overtaken, the
agent's transcript and the saved branch show the same conversation.
`OneOverflowRecovery`: no second recovery without an answer or a prompt in
between. Two prompts are the fewest that overlap; every pair of troubles is tried.

### agent_session_settles
Fair; one prompt, any three troubles. `PromptSettles`: unless derailed, every call
of `prompt()` returns or rejects. `UndisturbedOverflowIsRetried`: a recovery is
followed by another entry unless `compact()` has unsubscribed the session or it is
derailed. Three troubles make a retry, its failure and an intervention meet.

### services
The components around the agent, one at a time, all safety.

| property | bounds |
|---|---|
| `InTurn`, `MapForgets`: one mutation of a file at a time, in order; the map forgets | three calls (two edits, one write), two names |
| `NoLostEdit`: an edit writes what it made of the text as it is | the same; aborts at every step |
| `RefreshTokenSpentOnce`, `SavedByOthersKept` (credentials) | two processes, a caller each, three tokens, one change, one crash or loss |
| `SavedByOthersKept` (settings), `NoSilentLoss` | two processes, one of which reloads, two fields, three changes |
| `AnswersMatched`: one request of a chain pending, strays explained | two requests of four kinds, one `waitForIdle` |
| `ChannelInStep`: the busy flag, the context against the log | two mentions, two events |
| `InOrder`, `ResponseIsTheProviders` | one consumer on each stream, all events |
| `ExecutedOnce` | two versions of a file, two starts, two handlers |
| `CompactionKeeps` | branches of six entries, compacted wherever they can be |
| `ReplacementsSettle` | two overlapping replacements, a failure, a shutdown |
| `CommandReported` | three pieces of output of two sizes |
| `HandlersHeeded` | three handlers, all nine kinds of round |
| `EventsDelivered` | two events, one waiter, a queue of one, two servers, two ports |
| `WaitingKept` | two user messages with the same text, another or none, one of an extension, a failing run, one message drained at a time |

Two of each is what an interleaving needs; where a third matters (an edit behind
two others, a handler between two, a piece that pushes out an earlier one) there
are three. Six entries hold two turns with results and two compactions.

### services_settle
The agent and the components that owe somebody an answer, fair. `RunSettles`: every
run ends. `CallsSettle`: an edit or write that was queued returns whatever fails or
is aborted before it; `getApiKey` returns whoever holds the lock or died with it;
every RPC request settles, across a stop, a restart and the death of the agent;
every queued event of a channel is worked on; a model's answer arrives; every
queued write of the settings is done or fails; a command that has ended, was
stopped or has a time-out is answered, whoever holds its pipes.

### agent_orphan_tools, session_duplicates, session_fork_labels, agent_session_hang, agent_session_silent_overflow, compaction_forgets
Violations; see section 6.

Every property has a seeded fault (`mutants` in `PROJECT.json`, definitions marked
"Seeded fault" in the modules) under which the same run finds it violated.

## 4. Fairness

Fairness is that of Node's event loop: the continuation of a settled promise, a
timer that is due and a system call under way do happen. Nothing is assumed of
users, callers or other programs.

* `Agent`: the loop's next step and tools settling. That streams, hooks and tools
  settle, by answering or rejecting, is an assumption about what is outside.
* `AgentSession`: the running agent (which `RunSettles` justifies), the event
  handler, the timer, each compaction and each `prompt()` once called.
* `FileTools`: each call's next system call. `Settings`: the synchronous section
  of each process. `AuthStorage`: the same, the steps of each refresh (the
  provider answers or the request is lost), and the time that makes a dead
  owner's lock stale. `Rpc`: the send chain and the time-outs, not the agent
  process. `MomChannel`: the run. `ProviderStream`: the event loop, and that a
  provider ends its stream. `BashExecution`: the timers only, not the command.

In `MCServices` each is weak fairness of `subject = "x" /\ action`: without the
conjunct a component that never moves would have an action enabled for ever, no
behaviour would be fair, and every liveness property would hold of none.

## 5. Proofs

TLC checks each property on the instances of section 3; the theorems hold for
every value of the constants. Eight modules hold them. Each rests on an
*inductive invariant*: what the property says holds in the states where it can
be observed, and to prove it one must say what holds in all the others. The
invariants were first checked by TLC on the instances of the runs. A step lemma
(`...Step`) has one step per action.

### The agent — `AgentProofs`

For every set of messages, both tool execution modes, all queue modes and all
bounds, under `AgentAssumption`, which only types the constants.

* `TypeCorrect`: `Spec => []TypeOK`, which is inductive.
* `RequestTheorem`, `ContextTheorem`: `RequestShowsTranscript` speaks of one await
  only. `ContextInv` says for *every* await how the loop's copy of the conversation
  relates to the transcript: equal at most, one message behind while listeners
  hear of an injected message or an answer, unrelated once the run has failed or
  the transcript was reset or assigned under it.
* `PendingTheorem`: `PendingCoversExecuting`, from `CallIInv`: of the calls of the
  batch so far, each is in exactly one place: runnable, in flight (`cur`) or
  answered; and whatever executes of this turn is runnable. It counts them, because
  "nothing executes that is not pending" breaks as soon as one result is pushed while
  its call is thought to run.
* `AnswersTheorem`: `ToolCallsAnswered`. A transcript is `Closed` when each
  answer's calls are all answered behind it, or `Open` from its last answer on, with
  exactly the loop's `results` behind it. `TranscriptInv` says which it is at which
  await (a rejection leaves it open and the error message that follows closes the
  matter), `LoopContextInv` the same of the loop's copy.
* `SequentialTheorem`: with sequential tools no tool outlives its run, from
  `SequentialInv`: at most one executes, and the loop waits for it. The run
  `agent_orphan_tools` refutes the same for parallel ones.
* `SteeringTheorem`: with one-at-a-time queues two steering messages never go into
  one request. `SteeringInv`: where the loop or `continue()` may take one from the
  queue the model has answered (`Heard`) every one in the transcript.
* `DeliveryTheorem`: `Spec => DeliverySpec`. `HeldInv`: what the run holds came from one
  channel and is in one place, the prompts or the pending messages, so that the mapping
  (`Undelivered`: what is held, then the queue) loses nothing. `DeliveryStep` maps
  `EmitPrompt` and `InjectMessage` to `Deliver`, the calls that hand messages over to
  `Accept`, answers and results to `Answer`, clears and rejections to `Discard`, and the
  rest, draining and polling among it, to a stutter.
* `ScenarioTheorem` (in `AgentScenarioProofs`): `NothingOverlaps`, for any messages and any
  number of rejections: the scenario "turns" moves as an `Agent` with sequential tools,
  one-at-a-time queues and no clears (`TurnsMove`), so the two theorems above hold of it.

### The session store — `SessionManagerProofs`

For all kinds of entry, labels, numbers of entries, files and crashes.

Lines are filtered and branches climbed by recursive functions, so the proofs need
two facts no installed prover has. `Induct` is induction on the naturals, stated for
a set and proved by counting (adding one would map the part of the set below a
number one to one into a smaller one). `Recursion` gets the function from its
equations. From them come `KindsAre` (a filter keeps order and membership),
`BranchChain` and `BranchIs`: `getBranch` returns *the* chain of parents that starts at
a root and ends at the entry, and there is only one. So a sequence of entries shown to
be such a chain, in a fork or a reloaded file, is what the code's walk returns there.

* `StoreInv` holds with crashes and torn lines: types, the leaf is an entry of the
  session, the labels are those its entries would give, files not yet named do not
  exist, and every step leaves what was loadable of each file a prefix of what is
  loadable now. From it `TypeTheorem`, `LabelsTheorem`
  (`LabelsAreRecorded`), `SavedTheorem` (`NothingSavedIsLost`) and, because labels are
  found by id wherever an entry is kept, `ForkLabelsTheorem` (`ForkKeepsLabels`).
* `CleanInv`, until a first crash: memory and every file are `Whole` (a header, then
  entries with ascending ids whose parents come before them or are missing), and the file of
  an answered session is the session. From it `ReloadTheorem`, and each step is one
  of four: nothing happens to the log, an entry is added to it, another session is
  opened, or one starts with answered entries (`Logged`).
* `TiedInv`, also without bookmarks: every parent, and the first entry a
  compaction keeps, is *on the branch* of its entry. That a reference is merely in the
  session is not inductive: a fork copies one branch and leaves the rest
  behind. From it `ReferencesTheorem` and `ForkContextTheorem`. Bookmarks are
  excepted because they falsify it: that is `session_fork_labels`.

The last section takes these over for the scenarios of the run: `FileTheorem`
(`FileIsMemory`), `ResolveTheorem` (`ReferencesResolve`), `ContextTheorem`
(`ForkKeepsContext`) and `LogTheorem`, `ScenarioSpec => LogSpec`: the store refines
`ConversationLog`. `LogStep` maps `Stays`, `Adds`, `Switches` and `Starts` to a
stutter and the abstract `Add`, `Switch` and `Start`. It assumes `ChatAssumption`: the
kinds used beside bookmarks and crashes are among the kinds.

### AgentSession — `AgentSessionProofs`

`RecoveryTheorem`: `OneOverflowRecovery`, for any numbers of prompts and
troubles. `RecoveryInv`: a recovery under way is a compaction under way, of one owner
only, with the flag set and nothing unsaved behind it; whenever the flag is clear, and
also while a recovery runs, every recovery on the branch has progress (a prompt or a
good answer) behind it. `FlowOK` types the messages on their way: an answer the agent
is asked for is an assistant's. The second part holds until `overtaken`, as the property does.

`SessionTypeTheorem`: `TypeOK`. `KindInv` says which kinds of message may be where (a summary
only at the start of the transcript, a compaction's cut point on an entry that is none),
`ControlOK` that the handler and each `prompt()` wait exactly as long as their compaction.

`ContextTheorem`: `TranscriptIsContext`, the agent shows the model what a reload of the saved
branch would. At rest is not enough for an induction; `ConvInv` states it of every moment:

* the transcript shows what the context of the branch shows, followed by the messages that
  still wait to be saved (`Agrees`);
* between an answer that is shown and the next answer something was asked (`Turns`), and while
  a request is under way something was asked since the last answer (`Open`). Without them an
  error taken off the transcript could uncover an answer the branch shows behind it:
  `_checkCompaction` and the retry drop the *last* message, trusting that it is the error.

`Context` and `Shown` walk sequences of any length; what they do with a message that is
appended is proved by induction on naturals (`Induct`, by the pigeonhole principle, because a theorem
with an operator parameter cannot be used) and on sequences (`SequenceInduct`). The theorem
assumes that no answer overflows in silence (`"silent" \notin Outcomes`), as the run does, and
with reason: such an answer is shown, `_checkCompaction` takes it off the transcript all the
same, and when the compaction then fails the session goes on without an answer its branch
has. TLC finds that in a few steps when `Outcomes` is `{"silent"}`.

### Components in one process — `ComponentProofs`

* `InTurnTheorem`, `MapTheorem`, assuming that `None` is not a caller. `ChainInv`:
  tickets tell callers apart; of two callers present with one key the later
  waits for one that is present and came no earlier than the first (`Chained`); the
  map names the last of them (`LastInMap`). Mutual exclusion alone is not inductive,
  because whether a caller may enter depends on who it found in the map and on
  whether that entry was deleted since.
* `DeliveryTheorem`: `StreamSpec => []InOrder`. The strengthening adds that nobody
  waits while something is queued (`WaitingForMore`): otherwise an event handed to
  a waiting consumer would overtake the queue.
* `HeededTheorem`: `RunnerSpec => []HandlersHeeded`. `RunnerInv` says what holds while
  a round is under way: only the last answer can have ended it, the value carries every
  change made so far, each field is as the last handler that set it left it
  (`RoundInv`), and how far a tool call is (`CallInv`). It takes both because what the
  model is told is read from the second round, and whether there is one was decided
  in the first.
* `KeepsStep`, for compaction (see `KeepsTheorem` below).

### Stores shared by processes — `AuthStorageProofs`, `HostServicesProofs`

For any processes, calls, fields, tokens, changes and faults. `Names` and `SettingNames` say
that `None` and the different kinds of name are told apart.

* `SpentOnceTheorem` (`RefreshTokenSpentOnce`): unless a lock was taken over or an
  answer lost (`disturbed`), whoever works on the file owns its lock (`LockInv`);
  then what the file holds, or was read under the lock, is unspent, and the token of
  a login that is not yet saved is nowhere else (`TokenInv`). The last is what a
  login needs to write its token behind a refresh.
* `OtherKeptTheorem` (`OtherCredentialKept`): what a writer has read under the lock is the
  file until it writes (`ReadsAreCurrent`). An attempt at the proof without an exception showed
  that the model allowed more than its property said: `ensureFileExists` looks for the
  file and then writes `{}` without the lock (`auth-storage.ts:63`), so two processes that
  start together can truncate each other's. The history variable `recreated` records it.
* `NoLossTheorem`, `OtherFieldsTheorem` (`NoSilentLoss`, `OtherFieldsKept` of `Settings`):
  `SettingsInv`. The write that runs is the first of the queue, and every field that
  is owed is in a queued write *with the value memory has*; without the values
  an earlier write could pay for a later change.
* `TypeTheorem`, `SettingsTypeTheorem`; both type invariants are part of the induction.

### The services — `HostServicesProofs`, `ServicesProofs`

For `ServicesSpec`, whichever component it moves and however large it is. Replacement, event
files, webhooks, the Slack channel and waiting messages have their invariants in
`HostServicesProofs`, the others in `ServicesProofs`, which has the theorems of this section.

* `TokenTheorem`, `OthersTheorem`, `LossTheorem`: the theorems above, for the two files
  together.
* `ResponseTheorem` (`ResponseIsTheProviders`), under `StreamConstants` (the one consumer is the
  loop, "error" is a final event). `RequestInv`: what the task between the two streams was
  given is what it has passed on and the event it holds (`Passed`); on both streams
  one reader gets all there is, and nothing follows the final event (`AloneInv`).
* `EditTheorem` (`NoLostEdit`). `FilesInv` puts the file system steps of a call inside the
  queue's invariant `ChainInv`: an unanswered body runs while its caller is
  inside (`BodiesInside`), so a body beside it is an answered one's, which is on record
  (`CrowdsNoted`).
* `MatchTheorem` (`AnswersMatched`). Requests of a chain can be ranked so that each follows its
  predecessor and whatever is before one that was sent is settled (`InOrderOf`; the rank
  is a witness in the proof, not a variable). And a request that has not timed out is in one
  place on its way there and back, once, and pending all that time (`OneAnswer`).
* `CommandTheorem` (`CommandReported`), for sizes and limits that are natural numbers (`SizesOK`).
  `OutputInv`: the file begins with the first piece before the buffer drops any; what it
  needs is that a sum of sizes over fewer pieces is smaller (`TotalIsInt`, `TrimmedFrom`).
  `ProcessInv`: the group is killed for a reason, in the step that has it, and nothing
  joins the group afterwards.
* `ReplacementTheorem` (`ReplacementsSettle`), for at least one session
  (`RuntimeAssumption`). `CurrentInv`: while commands overlap, whatever is not yet on the
  current session has a command that will put it there, and no two commands apply
  the same new session. `AloneCommandInv`: one at a time, `Progress` says at each stage
  what of the old and the new session is done.
* `ExecutionTheorem` (`ExecutedOnce`). `WatchInv`: what is armed was not executed
  before, is alone, and no handler works beside it; and a file whose event was
  executed has nothing left to arm (`Spent`), which carries it through a crash between
  the execution and the deletion.

* `EventsTheorem` (`EventsDelivered`), for events that are not called like the outcomes of a
  wait, at least one port and a queue of any bound (`WebhookAssumption`). `QueueInv`: what was
  handed over, followed by the queue, is what was accepted without what was dropped, in
  order, and nobody waits while something is queued; `MessageInv` says which messages on
  their way into `prompt()` may find the agent running; `ServerInv` that, unless the session
  rushed, the one server that binds is known to nobody and the one that is open is known.
* `ChannelTheorem` (`ChannelInStep`), if no event file is a message (`MomAssumption`). `ChannelInv`:
  the flags and the stage say the same, and only events are queued, each once. `ContextInv`
  puts each text of the context down to something of its own that has arrived (an injection, so
  the texts can be counted) and that is not still to be prompted: without the latter a
  prompt could repeat what the log had brought in.
* `WaitingTheorem` (`WaitingKept`), for finitely many messages of the user, none of them an extension's
  (`PendingAssumption`). `SpotInv`: a message that was sent is in exactly one of nine
  places (`InOnePlace`). `ShownInv`: a list holds, text by text, as many entries as messages are shown,
  because `indexOf` takes *a* message with that text off it and not the one that was delivered;
  and no message was cleared whose text was not given back.
* `KeepsTheorem` (`CompactionKeeps`), for any branch and sizes with a bound (`CompactionAssumption`).
  `KeptInv`: what is before the first kept entry is covered or forgotten; a result follows its
  answer, both kept or neither, and between them, or behind an answer whose results are
  to come, there is no entry a cut could fall on. The budget needs lemmas about the
  recursive sum of the estimates: it adds up (`Adds`), it decreases along the branch
  (`AddsDown`), and what a cut keeps is the sum where the walk stopped and at most a message.
* `ServicesTypeTheorem` (`ServicesTypeOK`), under the assumptions of all the components
  (`ServicesAssumption`): each of the invariants above contains its component's type.

### What is only model-checked, and why

Every safety invariant, action property and refinement of the passing runs is stated by a
theorem. Model-checked only are the liveness properties of `services_settle` and
`agent_session_settles`: they need fairness and `ENABLED`, which are out of the prover's
reach. The six violations are counterexamples, which need no proof.

## 6. Where code and documentation disagree

* **agent_orphan_tools** (`agent.ts:294`): with parallel tools a rejected hook ends the
  run while other tools still execute, so `waitForIdle()`, documented at
  `agent.ts:290`, resolves while tools may still write files.
* **session_duplicates** (`session-manager.ts:815`): a session reopened from a file
  without an assistant message (a crash leaves one) is written a second time
  into that file.
* **session_fork_labels** (`session-manager.ts:1186`): forking filters labels out of
  the path without re-linking the entries that hung on them; everything before the
  bookmark disappears from the fork.
* **agent_session_hang** (`agent-session.ts:552`): the promise `prompt()` awaits is
  resolved only when an assistant message follows; a retry that fails before the
  model answers leaves it pending for ever.
* **agent_session_silent_overflow** (`agent-session.ts:2321`): after an answer that
  overflowed the window silently, compaction announces a retry that never happens, because the
  last message is an answer and the agent refuses to continue from one.
* **compaction_forgets** (`compaction.ts:741`): a second compaction that splits a
  turn with nothing to summarise before it drops the first summary.

The following were met while modelling. Each is in the model, and a property
excepts it or is stated in its module without being part of a run.

* *Files* (`FileTools!Serialized`): bodies overlap on one file when an abort answers
  before a file system call returns, or when the file is created behind a symbolic link
  between two calls (two keys).
* *Credentials* (`AuthStorage!NoSilentDrop`): a reload that only timed out on the lock leaves
  `loadError` set, and logins and logouts after it change the memory but not the
  file (`auth-storage.ts:258`). A refresh longer than the lock's stale time loses
  the new token. Processes that start together may overwrite each other's new file
  with `{}`: it is made without the lock (`:51`).
* *Settings*: a file that another process creates between the look and the
  write is overwritten (`settings-manager.ts:187`).
* *RPC* (`Rpc!AllHearTheEnd`): a listener that unsubscribes while the event is
  handed out shifts the rest (`rpc-client.ts:468`), so of several that wait for
  `agent_end` every second times out; `promptAndWait` takes the `agent_end` of an
  earlier run (`:446`).
* *Agent loop*: a loop started through `agentLoop()` whose run rejects never ends
  its stream; `Agent` does not use that path. A message queued after the last poll
  waits for the next run (`agent-loop.ts:222`).
* *AgentSession*: `_retryAttempt` keeps its count after a retried run failed for good
  (`agent-session.ts:546`); next-turn messages are lost when `prompt()` finds the agent
  running at its end (`:1042`); `clearQueue()`, "Clear all queued messages and return them"
  (`:1663`), also returns a message that is being delivered, and neither the images of
  a message nor those an extension queued; a prompt with the text of a queued message takes
  that text off the list (`:487`); what a run announces during `compact()` stays on it; `navigateTree` stays "compacting" after an extension cancels (`:3075`).
* *Mom* (`MomChannel!StopStops`, `EveryMessageInContext`): a stop between the start of the
  handler and of the run aborts nothing (`main.ts:291`); a message that repeats an
  earlier text is taken for known (`context.ts:116`).
* *Mom events*: two changes in a row start overlapping handlers and execute one event
  twice (`events.ts:150`); an execution deletes a file that was rewritten
  meanwhile; a file deleted while it is read is scheduled all the same (`:158`); a delay above
  2^31-1 ms fires at once (`:296`; times are not modelled).
* *Compaction*: a cut moved back to an entry that is no message counts as a split turn
  (`compaction.ts:446`).
* *Session runtime*: overlapping replacements leave a session connected for ever and
  start extensions twice; a failed setup leaves the front end on the old session;
  `new_session` under `--no-session` creates a saved session, though
  `src/cli/args.ts:236` says "Don't save session (ephemeral)".
* *Bash*: the answer of an aborted or timed-out command shows the buffer without
  naming the temporary file that holds the rest.
* *Extensions*: a `tool_result` handler's `isError`, and every patch of a failed
  call, are dropped (`agent-session.ts:398`), though `docs/extensions.md:643` lists
  `isError` among what a handler may return; a later answer to `session_before_*`
  replaces an earlier one whole, so of two custom compactions the first is lost.
* *Webhooks*: two events that find the agent idle both prompt; the second is refused and
  lost although its request was answered with ok (`index.ts:86`). A server that was
  binding when the session shut down, or was started twice, goes on listening
  (`index.ts:127`). A wait whose signal is aborted already takes an event
  (`_registry.ts:68`).

## 7. What is left out

Of modelled parts: migration of old session files and listing them; slash
commands, model and thinking-level switching, `navigateTree` and tool registration of AgentSession; extension loading;
webhook configuration; mom's threads and attachments; what an edit does to a text;
wording and drawing everywhere. `PROJECT.json` says it per component. Entries of
type `bashExecution` are in `Compaction` but not in the run's `Types`, because the
cut treats them as user messages.

Not modelled: network protocols of providers and OAuth, user interfaces, text and
table look-ups, generated and vendored code, other programs. They are by far the
most of the repository's lines: rendering, markup, translation of requests and
tables, whose correctness is about text and not about order or failure.

## 8. Plan

1. More of `AgentSession`: `navigateTree`, the cut of
   `Compaction` in place of "keeps the last message", tools between which bash
   results wait.
2. Smaller stateful parts: the MCP client's pending requests and the auto-continue
   extension, the agent proxy's stream.

----------------------------- MODULE MCServices -----------------------------
(***************************************************************************)
(* The components around the agent, each on its own, in one state graph:   *)
(* subject names the one that moves, the others stay in an initial state.  *)
(* A property of a component therefore speaks of the states in which that  *)
(* component is the subject.                                               *)
(***************************************************************************)
EXTENDS HostServices, EventStream, Compaction, ExtensionRunner, TLC

CONSTANTS
  Subjects,    \* the components to be checked
  AgentMsgs,
  Writers, Editors, FileFaults,
  AuthCalls, AuthTokens, AuthChanges, AuthFaults,
  RpcRequests, RpcKinds, RpcIdlers, RpcFaults,
  OutputSizes, OutputLines, ByteLimit, LineLimit, OutputPieces

VARIABLES
  subject,
  g_messages, g_aborted, g_pendingToolCalls, g_pc, g_context, g_prompts, g_pending,
  g_skipPoll, g_hasMoreToolCalls, g_calls, g_prep, g_runnable, g_executing, g_cur,
  g_results, g_steeringQueue, g_steeringMode, g_followUpQueue, g_followUpMode, g_submitted,
  g_turns, g_toolTurns, g_faults, g_clears, g_wasReset,
  f_exists, f_content, f_aborted, f_step, f_base, f_outcome, f_early, f_crowded, f_faults,
  a_file, a_lock, a_data, a_loadError, a_job, a_phase, a_base, a_fresh, a_compromised,
  a_key, a_live, a_expired, a_issued, a_changes, a_faults, a_crashed, a_reused, a_disturbed,
  a_dropped, a_recreated,
  r_process, r_starts, r_sendChain, r_before, r_chainHead, r_kind, r_state, r_pending,
  r_listeners, r_heard, r_stdin, r_stdout, r_alive, r_streaming, r_bash, r_aborting,
  r_faults, r_strays, r_lateFor,
  i_queue, i_waiting, i_done, i_result, i_at, i_held, i_accepted, i_given,
  loader, provider, forwarder, response,
  b_caller, b_updates, b_timeout, b_aborted, b_child, b_code, b_killed, b_descendants,
  b_open, b_timedOut, b_pieces, b_first, b_file, b_outcome, b_cut

agentVars ==
  <<g_messages, g_aborted, g_pendingToolCalls, g_pc, g_context, g_prompts, g_pending,
    g_skipPoll, g_hasMoreToolCalls, g_calls, g_prep, g_runnable, g_executing, g_cur,
    g_results, g_steeringQueue, g_steeringMode, g_followUpQueue, g_followUpMode,
    g_submitted, g_turns, g_toolTurns, g_faults, g_clears, g_wasReset>>
filesVars ==
  <<fileMutationQueues, currentQueue, key, stage, ticket, tickets,
    f_exists, f_content, f_aborted, f_step, f_base, f_outcome, f_early, f_crowded, f_faults>>
authVars ==
  <<a_file, a_lock, a_data, a_loadError, a_job, a_phase, a_base, a_fresh,
    a_compromised, a_key, a_live, a_expired, a_issued, a_changes, a_faults, a_crashed,
    a_reused, a_disturbed, a_dropped, a_recreated>>
rpcVars ==
  <<r_process, r_starts, r_sendChain, r_before, r_chainHead, r_kind, r_state,
    r_pending, r_listeners, r_heard, r_stdin, r_stdout, r_alive, r_streaming, r_bash,
    r_aborting, r_faults, r_strays, r_lateFor>>
requestVars ==
  <<queue, waiting, done, result, at, held, accepted, given,
    i_queue, i_waiting, i_done, i_result, i_at, i_held, i_accepted, i_given,
    loader, provider, forwarder, response>>
bashVars ==
  <<b_caller, b_updates, b_timeout, b_aborted, b_child, b_code, b_killed, b_descendants, b_open,
    b_timedOut, b_pieces, b_first, b_file, b_outcome, b_cut>>

Loop == INSTANCE Agent WITH
  Msgs <- AgentMsgs, Modes <- {"one-at-a-time"}, ToolExecution <- "sequential",
  MaxBatch <- 1, MaxCalls <- 1, MaxToolTurns <- 1, MaxFaults <- 1, MaxClears <- 0,
  messages <- g_messages, aborted <- g_aborted, pendingToolCalls <- g_pendingToolCalls,
  pc <- g_pc, context <- g_context, prompts <- g_prompts, pending <- g_pending,
  skipPoll <- g_skipPoll, hasMoreToolCalls <- g_hasMoreToolCalls, calls <- g_calls,
  prep <- g_prep, runnable <- g_runnable, executing <- g_executing, cur <- g_cur,
  results <- g_results, steeringQueue <- g_steeringQueue, steeringMode <- g_steeringMode,
  followUpQueue <- g_followUpQueue, followUpMode <- g_followUpMode,
  submitted <- g_submitted, turns <- g_turns, toolTurns <- g_toolTurns,
  faults <- g_faults, clears <- g_clears, wasReset <- g_wasReset

Files == INSTANCE FileTools WITH
  Edits <- Editors, Writes <- Writers,
  RunOf <- [c \in Editors \union Writers |-> IF c = "e1" THEN 1 ELSE 2],
  Names <- {"real", "link"}, RealName <- "real", MaxFaults <- FileFaults,
  exists <- f_exists, content <- f_content, aborted <- f_aborted, step <- f_step,
  base <- f_base, outcome <- f_outcome, early <- f_early, crowded <- f_crowded, faults <- f_faults

Auth == INSTANCE AuthStorage WITH
  Processes <- {"p", "q"}, Callers <- AuthCalls,
  ProcessOf <- [c \in AuthCalls |-> IF c = "a" THEN "p" ELSE "q"],
  MaxTokens <- AuthTokens, MaxChanges <- AuthChanges, MaxFaults <- AuthFaults,
  file <- a_file, lock <- a_lock, data <- a_data, loadError <- a_loadError, job <- a_job,
  phase <- a_phase, base <- a_base, fresh <- a_fresh, compromised <- a_compromised,
  key <- a_key, live <- a_live, expired <- a_expired, issued <- a_issued,
  changes <- a_changes, faults <- a_faults, crashed <- a_crashed, reused <- a_reused,
  disturbed <- a_disturbed, dropped <- a_dropped, recreated <- a_recreated

Client == INSTANCE Rpc WITH
  Requests <- RpcRequests, Kinds <- RpcKinds, Idlers <- RpcIdlers,
  MaxStarts <- 2, MaxFaults <- RpcFaults,
  process <- r_process, starts <- r_starts, sendChain <- r_sendChain, before <- r_before,
  chainHead <- r_chainHead, kind <- r_kind, state <- r_state, pendingRequests <- r_pending,
  eventListeners <- r_listeners, heard <- r_heard, stdin <- r_stdin, stdout <- r_stdout,
  alive <- r_alive, streaming <- r_streaming, bash <- r_bash, aborting <- r_aborting,
  faults <- r_faults, strays <- r_strays, lateFor <- r_lateFor

\* The outer stream is that of EventStream, under the same names.
Request == INSTANCE ProviderStream WITH
  Reader <- "loop", Forwarder <- "forward", MaxEvents <- 3

Bash == INSTANCE BashExecution WITH
  Sizes <- OutputSizes, LineCounts <- OutputLines, MaxBytes <- ByteLimit, MaxLines <- LineLimit,
  MaxPieces <- OutputPieces,
  caller <- b_caller, updates <- b_updates, timeout <- b_timeout, aborted <- b_aborted,
  child <- b_child, code <- b_code, killed <- b_killed, descendants <- b_descendants,
  open <- b_open, timedOut <- b_timedOut, pieces <- b_pieces, first <- b_first, file <- b_file,
  outcome <- b_outcome, cut <- b_cut

AllCalls == Editors \union Writers

ServicesInit ==
  /\ subject \in Subjects
  /\ Loop!Init /\ Files!Init /\ Auth!Init /\ Client!Init /\ Channel!Init
  /\ Request!LazyInit /\ SettingsFile!Init /\ Watcher!Init /\ CompactionInit
  /\ Runtime!Init /\ Bash!Init /\ RunnerInit /\ Webhook!Init /\ Waiting!PendingInit
  /\ p_mode = "one-at-a-time"
  /\ \A u \in Typed : p_text[u] = "a" \/ (u = "t2" /\ subject = "pending")
  /\ (n_saved[1] \/ subject = "runtime")
  /\ ((b_updates /\ ~b_timeout) \/ subject = "bash")
  /\ (f_exists \/ subject = "files") /\ (a_file # None \/ subject = "auth")
  /\ (t_file # None \/ subject = "settings")

\* The components in four groups; one of one group moves.
firstVars == <<agentVars, filesVars, authVars, rpcVars>>
secondVars == <<momVars, requestVars, settingVars, eventVars>>
thirdVars == <<compactionVars, runtimeVars, bashVars>>
fourthVars == <<runnerVars, webhookVars, pendingMessageVars>>

ServicesNext ==
  \/ subject = "agent" /\ Loop!Next
     /\ UNCHANGED <<subject, filesVars, authVars, rpcVars, secondVars, thirdVars, fourthVars>>
  \/ subject = "files" /\ Files!Next
     /\ UNCHANGED <<subject, agentVars, authVars, rpcVars, secondVars, thirdVars, fourthVars>>
  \/ subject = "auth" /\ Auth!Next
     /\ UNCHANGED <<subject, agentVars, filesVars, rpcVars, secondVars, thirdVars, fourthVars>>
  \/ subject = "rpc" /\ Client!Next
     /\ UNCHANGED <<subject, agentVars, filesVars, authVars, secondVars, thirdVars, fourthVars>>
  \/ subject = "mom" /\ Channel!Next
     /\ UNCHANGED <<subject, requestVars, settingVars, eventVars, firstVars, thirdVars,
                    fourthVars>>
  \/ subject = "request" /\ Request!LazyNext
     /\ UNCHANGED <<subject, momVars, settingVars, eventVars, firstVars, thirdVars, fourthVars>>
  \/ subject = "settings" /\ SettingsFile!Next
     /\ UNCHANGED <<subject, momVars, requestVars, eventVars, firstVars, thirdVars, fourthVars>>
  \/ subject = "events" /\ Watcher!Next
     /\ UNCHANGED <<subject, momVars, requestVars, settingVars, firstVars, thirdVars,
                    fourthVars>>
  \/ subject = "compaction" /\ CompactionNext
     /\ UNCHANGED <<subject, runtimeVars, bashVars, fourthVars, firstVars, secondVars>>
  \/ subject = "runtime" /\ Runtime!Next
     /\ UNCHANGED <<subject, compactionVars, bashVars, fourthVars, firstVars, secondVars>>
  \/ subject = "bash" /\ Bash!Next
     /\ UNCHANGED <<subject, compactionVars, runtimeVars, fourthVars, firstVars, secondVars>>
  \/ subject = "extensions" /\ RunnerNext
     /\ UNCHANGED <<subject, webhookVars, pendingMessageVars, thirdVars, firstVars, secondVars>>
  \/ subject = "webhook" /\ Webhook!Next
     /\ UNCHANGED <<subject, runnerVars, pendingMessageVars, thirdVars, firstVars, secondVars>>
  \/ subject = "pending" /\ Waiting!PendingNext
     /\ UNCHANGED <<subject, runnerVars, webhookVars, thirdVars, firstVars, secondVars>>

servicesVars == <<subject, firstVars, secondVars, thirdVars, fourthVars>>

ServicesSpec == ServicesInit /\ [][ServicesNext]_servicesVars

\* The fairness of the component that moves, action by action as in its module.
AgentFairness ==
  /\ WF_agentVars(subject = "agent" /\ Loop!Loop)
  /\ WF_agentVars(subject = "agent" /\ \E c \in g_executing : Loop!ToolSettles(c))
FilesFairness == \A c \in Files!Calls : WF_filesVars(subject = "files" /\ Files!Owed(c))
AuthFairness ==
  /\ \A p \in {"p", "q"} : WF_authVars(subject = "auth" /\ Auth!Synchronous(p))
  /\ \A c \in AuthCalls : WF_authVars(subject = "auth" /\ (Auth!Refreshing(c) \/ Auth!Lose(c)))
  /\ WF_authVars(subject = "auth" /\ Auth!GrowStale /\ ~Auth!OwnerLives)
  /\ WF_authVars(subject = "auth" /\ Auth!GrowDead)
RpcFairness ==
  /\ \A r \in RpcRequests :
       /\ WF_rpcVars(subject = "rpc" /\ Client!SendSequential(r))
       /\ WF_rpcVars(subject = "rpc" /\ Client!Timeout(r))
  /\ \A l \in RpcRequests \union RpcIdlers :
       WF_rpcVars(subject = "rpc" /\ Client!WaitTimesOut(l))
MomFairness == WF_momVars(subject = "mom" /\ Channel!Run)
RequestFairness ==
  /\ WF_requestVars(subject = "request" /\ Request!EventLoop)
  /\ WF_requestVars(subject = "request" /\ Request!Produce /\ provider' = "ended")
SettingFairness ==
  \A p \in SettingProcesses : WF_settingVars(subject = "settings" /\ SettingsFile!Synchronous(p))
BashFairness == WF_bashVars(subject = "bash" /\ Bash!Timers)

ServicesFairSpec ==
  ServicesSpec /\ AgentFairness /\ FilesFairness /\ AuthFairness /\ RpcFairness /\ MomFairness
  /\ RequestFairness /\ SettingFairness /\ BashFairness

ServicesTypeOK ==
  CASE subject = "files" -> Files!TypeOK
    [] subject = "auth" -> Auth!TypeOK
    [] subject = "rpc" -> Client!TypeOK
    [] subject = "mom" -> Channel!TypeOK
    [] subject = "request" -> Request!LazyTypeOK
    [] subject = "settings" -> SettingsFile!TypeOK
    [] subject = "events" -> Watcher!TypeOK
    [] subject = "runtime" -> Runtime!TypeOK
    [] subject = "bash" -> Bash!TypeOK
    [] subject = "extensions" -> RunnerTypeOK
    [] subject = "webhook" -> Webhook!TypeOK
    [] subject = "pending" -> Waiting!PendingTypeOK
    [] OTHER -> TRUE

\* InTurn and MapForgets are those of FileMutationQueue, InOrder that of EventStream,
\* CompactionKeeps that of Compaction, HandlersHeeded that of ExtensionRunner.

\* edit and write: an edit that ran alone replaces the text it has read.
NoLostEdit == subject = "files" => Files!NoLostEdit
\* auth.json: a refresh token is presented once.
RefreshTokenSpentOnce == subject = "auth" => Auth!RefreshTokenSpentOnce
\* auth.json and settings.json: a write changes one credential, or the settings the
\* process has changed, and keeps what others have saved.
SavedByOthersKept == Auth!OtherCredentialKept /\ SettingsFile!OtherFieldsKept
\* RPC client: one request of a chain is pending at a time, and answers reach the
\* listeners only when their request had timed out.
AnswersMatched == subject = "rpc" => Client!SingleFlight /\ Client!StraysExplained
\* Slack channel: the busy flag says whether the queue works, and the context holds every
\* text of the log that was synchronised, once.
ChannelInStep == subject = "mom" => Channel!BusyWhenWorking /\ Channel!ContextMatchesLog
\* The agent loop's answer is the provider's, after every event of it.
ResponseIsTheProviders == subject = "request" => Request!ResponseIsTheProviders
\* No change of a setting is lost without a record.
NoSilentLoss == subject = "settings" => SettingsFile!NoSilentLoss
\* An event file is executed once and what is scheduled is what it says.
ExecutedOnce == subject = "events" => Watcher!ExecutedOnce
\* When replacements of the session are over, everything is on the current session.
ReplacementsSettle == subject = "runtime" => Runtime!ReplacementsSettle
\* A command's output is saved in full, and its answer says how it ended.
CommandReported == subject = "bash" => Bash!CommandReported
\* Webhook events reach a waiting call or the agent, and the receiver its servers.
EventsDelivered == subject = "webhook" => Webhook!EventsDelivered
\* Messages that wait for the agent are in one place, and the session's lists show them.
WaitingKept == subject = "pending" => Waiting!WaitingKept

\* Every run of the agent ends.
RunSettles == Loop!RunSettles
\* An edit or write that was queued returns; getApiKey returns whoever holds the
\* lock; every RPC request settles; every queued event of a channel is worked on; a model's
\* answer arrives; every queued write of the settings is done or fails; a command that has
\* ended, was stopped or has a time-out is answered.
CallsSettle ==
  /\ Files!EveryCallReturns /\ Auth!GetApiKeySettles
  /\ Client!RequestSettles /\ Channel!QueuedRuns
  /\ (subject = "request" => Request!ResponseArrives) /\ SettingsFile!WritesSettle
  /\ Bash!CommandAnswered
=============================================================================

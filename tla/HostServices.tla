---------------------------- MODULE HostServices ----------------------------
(***************************************************************************)
(* Six of the components of MCServices side by side, under the names they  *)
(* have there: those through which a host (a front end, a chat, a web      *)
(* server, another process) reaches the session.  They share no state.     *)
(* None is that of FileMutationQueue.                                      *)
(***************************************************************************)
EXTENDS FileMutationQueue

CONSTANTS
  Mentions, FileEvents,
  SettingProcesses, SettingFields, SettingReloaders, SettingChanges, SettingCrashes,
  Replacements, ReplacedSessions, ReplacementFaults,
  WebhookEvents, WebhookWaits, WebhookPorts, WebhookQueue, WebhookServers,
  EventVersions, EventTouches, EventRetries, EventHandlers, MomStarts,
  Typed, Notices, RunFaults

VARIABLES
  m_queue, m_processing, m_running, m_stopRequested, m_current, m_stage, m_aborted, m_log,
  m_context, m_arrived, m_synced, m_refused,
  t_file, t_lock, t_settings, t_modified, t_loadError, t_errors, t_writes, t_reloading,
  t_job, t_changes, t_crashed, t_owed,
  e_disk, e_versions, e_touches, e_starts, e_ripe, e_up, e_debounced, e_handlers, e_known,
  e_timers, e_crons, e_armed, e_scheduled, e_executions, e_mixed,
  n_current, n_created, n_connected, n_manager, n_branch, n_view, n_saved, n_starts,
  n_stops, n_session, n_heard, n_process, n_job, n_faults, n_torn, n_overlapped,
  w_queue, w_waiters, w_waited, w_cancelled, w_server, w_servers, w_forced, w_session,
  w_mode, w_request, w_followUp, w_streaming, w_accepted, w_handed, w_dropped, w_crowded,
  w_rushed,
  p_text, p_queued, p_lists, p_nextTurn, p_mode, p_running, p_announcing, p_events,
  p_connection, p_prompts, p_taken, p_sent, p_faults, p_announced, p_shown, p_restored,
  p_cleared, p_dropped, p_refused, p_unheard, p_mistaken

momVars ==
  <<m_queue, m_processing, m_running, m_stopRequested, m_current, m_stage, m_aborted,
    m_log, m_context, m_arrived, m_synced, m_refused>>
settingVars ==
  <<t_file, t_lock, t_settings, t_modified, t_loadError, t_errors, t_writes, t_reloading,
    t_job, t_changes, t_crashed, t_owed>>
eventVars ==
  <<e_disk, e_versions, e_touches, e_starts, e_ripe, e_up, e_debounced, e_handlers, e_known,
    e_timers, e_crons, e_armed, e_scheduled, e_executions, e_mixed>>
runtimeVars ==
  <<n_current, n_created, n_connected, n_manager, n_branch, n_view, n_saved, n_starts, n_stops,
    n_session, n_heard, n_process, n_job, n_faults, n_torn, n_overlapped>>
webhookVars ==
  <<w_queue, w_waiters, w_waited, w_cancelled, w_server, w_servers, w_forced, w_session, w_mode,
    w_request, w_followUp, w_streaming, w_accepted, w_handed, w_dropped, w_crowded, w_rushed>>
pendingMessageVars ==
  <<p_text, p_queued, p_lists, p_nextTurn, p_mode, p_running, p_announcing, p_events,
    p_connection, p_prompts, p_taken, p_sent, p_faults, p_announced, p_shown, p_restored,
    p_cleared, p_dropped, p_refused, p_unheard, p_mistaken>>

Channel == INSTANCE MomChannel WITH
  Messages <- Mentions \union {"stop"}, Stops <- {"stop"}, Events <- FileEvents,
  TextOf <- [m \in Mentions \union {"stop"} |-> IF m = "stop" THEN "halt" ELSE "yes"],
  QueueLimit <- 1,
  queue <- m_queue, processing <- m_processing, running <- m_running,
  stopRequested <- m_stopRequested, current <- m_current, stage <- m_stage,
  aborted <- m_aborted, log <- m_log, context <- m_context, arrived <- m_arrived,
  synced <- m_synced, refused <- m_refused


SettingsFile == INSTANCE Settings WITH
  Processes <- SettingProcesses, Fields <- SettingFields, Reloaders <- SettingReloaders,
  MaxChanges <- SettingChanges, MaxCrashes <- SettingCrashes,
  file <- t_file, lock <- t_lock, globalSettings <- t_settings, modifiedFields <- t_modified,
  globalSettingsLoadError <- t_loadError, errors <- t_errors, writeQueue <- t_writes,
  reloading <- t_reloading, job <- t_job, changes <- t_changes, crashed <- t_crashed,
  owed <- t_owed


Watcher == INSTANCE MomEvents WITH
  Types <- {"immediate", "one-shot", "periodic", "unschedulable", "malformed"},
  MaxRetries <- EventRetries, MaxVersions <- EventVersions, MaxTouches <- EventTouches,
  MaxStarts <- MomStarts, Handlers <- EventHandlers,
  disk <- e_disk, versions <- e_versions, touches <- e_touches, starts <- e_starts,
  ripe <- e_ripe, up <- e_up, debounced <- e_debounced, handlers <- e_handlers,
  known <- e_known, timers <- e_timers, crons <- e_crons, armed <- e_armed,
  scheduled <- e_scheduled, executions <- e_executions, mixed <- e_mixed


Runtime == INSTANCE SessionRuntime WITH
  Commands <- Replacements, MaxSessions <- ReplacedSessions, MaxFaults <- ReplacementFaults,
  current <- n_current, created <- n_created, connected <- n_connected, manager <- n_manager,
  branch <- n_branch, view <- n_view, saved <- n_saved, starts <- n_starts, stops <- n_stops,
  session <- n_session, heard <- n_heard, process <- n_process, job <- n_job,
  faults <- n_faults, torn <- n_torn, overlapped <- n_overlapped


Webhook == INSTANCE WebhookReceiver WITH
  Events <- WebhookEvents, Waits <- WebhookWaits, Ports <- WebhookPorts, MaxQueue <- WebhookQueue,
  MaxInstances <- WebhookServers,
  queue <- w_queue, waiters <- w_waiters, waited <- w_waited, cancelled <- w_cancelled,
  server <- w_server, servers <- w_servers, forced <- w_forced, session <- w_session,
  mode <- w_mode, request <- w_request, followUp <- w_followUp, streaming <- w_streaming,
  accepted <- w_accepted, handed <- w_handed, dropped <- w_dropped, crowded <- w_crowded,
  rushed <- w_rushed


Waiting == INSTANCE PendingMessages WITH
  Users <- Typed, Customs <- Notices, Texts <- {"a", "b", ""}, NoText <- "", MaxFaults <- RunFaults,
  text <- p_text, queued <- p_queued, lists <- p_lists, nextTurn <- p_nextTurn, mode <- p_mode,
  running <- p_running, announcing <- p_announcing, events <- p_events,
  connection <- p_connection, prompts <- p_prompts, taken <- p_taken, sent <- p_sent,
  faults <- p_faults, announced <- p_announced, shown <- p_shown, restored <- p_restored,
  cleared <- p_cleared, dropped <- p_dropped, refused <- p_refused, unheard <- p_unheard,
  mistaken <- p_mistaken
=============================================================================

SPECIFICATION ServicesSpec
CONSTANTS
  Subjects = {"files", "auth", "rpc", "mom", "request", "settings", "events", "compaction", "runtime", "bash", "extensions", "webhook", "pending"}
  None = None
  Callers <- AllCalls
  Keys = {"real", "link"}
  AgentMsgs = {"m", "n"}
  Editors = {"e1", "e2"}
  Writers = {"w1"}
  FileFaults = 0
  AuthCalls = {"a", "b"}
  AuthTokens = 3
  AuthChanges = 1
  AuthFaults = 1
  RpcRequests = {"r1", "r2"}
  RpcKinds = {"prompt", "bash", "abort", "quick"}
  RpcIdlers = {"w"}
  RpcFaults = 0
  Mentions = {"m1", "m2"}
  FileEvents = {"v1", "v2"}
  StreamEvents = {"start", "delta", "done", "error"}
  FinalEvents = {"done", "error"}
  Consumers = {"loop"}
  Unresolved = Unresolved
  SettingProcesses = {"p", "q"}
  SettingFields = {"x", "y"}
  SettingReloaders = {"q"}
  SettingChanges = 3
  SettingCrashes = 0
  EventVersions = 2
  EventTouches = 1
  EventRetries = 2
  EventHandlers = {1, 2}
  MomStarts = 2
  Types = {"user", "assistant", "toolResult", "custom_message", "note"}
  Sizes = {1}
  keepRecentTokens = 2
  CallCounts = {0, 2}
  MaxLength = 6
  Replacements = {"n1", "n2"}
  ReplacedSessions = 3
  ReplacementFaults = 1
  OutputSizes = {1, 3}
  OutputLines = {0, 1}
  ByteLimit = 2
  LineLimit = 1
  OutputPieces = 3
  MaxHandlers = 3
  WebhookEvents = {"h1", "h2"}
  WebhookWaits = {"y"}
  WebhookPorts = 2
  WebhookQueue = 1
  WebhookServers = 2
  Typed = {"t1", "t2"}
  Notices = {"n"}
  RunFaults = 1
CHECK_DEADLOCK FALSE
INVARIANTS
  ServicesTypeOK
  InTurn
  MapForgets
  NoLostEdit
  RefreshTokenSpentOnce
  AnswersMatched
  
  InOrder
  ResponseIsTheProviders
  ExecutedOnce
  NoSilentLoss
  CompactionKeeps
  ReplacementsSettle
  CommandReported
  HandlersHeeded
  EventsDelivered
  WaitingKept
PROPERTIES
  SavedByOthersKept

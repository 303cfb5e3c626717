SPECIFICATION ServicesFairSpec
CONSTANTS
  Subjects = {"agent", "files", "auth", "rpc", "mom", "request", "settings", "bash"}
  None = None
  Callers <- AllCalls
  Keys = {"real", "link"}
  AgentMsgs = {"m", "n"}
  Editors = {"e1"}
  Writers = {"w1"}
  FileFaults = 1
  AuthCalls = {"a", "b"}
  AuthTokens = 2
  AuthChanges = 0
  AuthFaults = 1
  RpcRequests = {"r1", "r2"}
  RpcKinds = {"bash", "abort"}
  RpcIdlers = {}
  RpcFaults = 1
  Mentions = {"m1"}
  FileEvents = {"v1", "v2"}
  StreamEvents = {"start", "delta", "done", "error"}
  FinalEvents = {"done", "error"}
  Consumers = {"loop"}
  Unresolved = Unresolved
  SettingProcesses = {"p", "q"}
  SettingFields = {"x", "y"}
  SettingReloaders = {"q"}
  SettingChanges = 2
  SettingCrashes = 1
  EventVersions = 1
  EventTouches = 1
  EventRetries = 2
  EventHandlers = {1, 2}
  MomStarts = 1
  Types = {"user", "assistant", "toolResult", "custom_message", "note"}
  Sizes = {1}
  keepRecentTokens = 2
  CallCounts = {0, 2}
  MaxLength = 1
  Replacements = {"n1"}
  ReplacedSessions = 3
  ReplacementFaults = 1
  OutputSizes = {1, 3}
  OutputLines = {0, 1}
  ByteLimit = 2
  LineLimit = 1
  OutputPieces = 1
  MaxHandlers = 1
  WebhookEvents = {"h1"}
  WebhookWaits = {"y"}
  WebhookPorts = 2
  WebhookQueue = 1
  WebhookServers = 2
  Typed = {"t1"}
  Notices = {"n"}
  RunFaults = 1
CHECK_DEADLOCK FALSE
PROPERTIES
  RunSettles
  CallsSettle

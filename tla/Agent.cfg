SPECIFICATION ScenarioSpec
CONSTANTS
  ToolMsgs = {p1, p2}
  QueueMsgs = {q1, q2, q3}
  Msgs <- AllMsgs
  Modes <- BothModes
  ToolExecution = "parallel"
  MaxBatch = 2
  MaxCalls = 2
  MaxToolTurns = 2
  MaxFaults = 1
  MaxClears = 1
SYMMETRY MsgSymmetry
CHECK_DEADLOCK FALSE
INVARIANTS
  TypeOK
  RequestShowsTranscript
  ToolCallsAnswered
  PendingCoversExecuting
  ContextInv
  NothingOverlaps
PROPERTY DeliverySpec

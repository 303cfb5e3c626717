SPECIFICATION Spec
CONSTANTS
  Msgs = {m1}
  Modes <- OneAtATime
  ToolExecution = "parallel"
  MaxBatch = 1
  MaxCalls = 2
  MaxToolTurns = 1
  MaxFaults = 1
  MaxClears = 0

CHECK_DEADLOCK FALSE
INVARIANT ToolsSettledWhenIdle

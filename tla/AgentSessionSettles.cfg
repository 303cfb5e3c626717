SPECIFICATION FairSpec
CONSTANTS
  MaxPrompts = 1
  Outcomes = {"error", "overflow", "fatal"}
  Throws = {"error", "fatal"}
  Interventions = {"queue", "bash", "abort", "compact"}
  MaxRetries = 1
  MaxTroubles = 3
CHECK_DEADLOCK FALSE
PROPERTIES
  PromptSettles
  UndisturbedOverflowIsRetried

SPECIFICATION Spec
CONSTANTS
  MaxPrompts = 2
  Outcomes = {"error", "overflow", "fatal"}
  Throws = {"error", "fatal"}
  Interventions = {"queue", "bash", "abort", "compact"}
  MaxRetries = 1
  MaxTroubles = 2
CHECK_DEADLOCK FALSE
INVARIANTS
  TypeOK
  TranscriptIsContext
  OneOverflowRecovery

SPECIFICATION FairSpec
CONSTANTS
  MaxPrompts = 1
  Outcomes = {"silent"}
  Throws = {}
  Interventions = {}
  MaxRetries = 1
  MaxTroubles = 1
CHECK_DEADLOCK FALSE
PROPERTY OverflowIsRetried

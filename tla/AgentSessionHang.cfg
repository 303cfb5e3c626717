SPECIFICATION FairSpec
CONSTANTS
  MaxPrompts = 1
  Outcomes = {"error"}
  Throws = {"fatal"}
  Interventions = {}
  MaxRetries = 1
  MaxTroubles = 2
CHECK_DEADLOCK FALSE
PROPERTY PromptAlwaysSettles

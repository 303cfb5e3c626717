SPECIFICATION CompactionSpec
CONSTANTS
  Types = {"user", "assistant", "toolResult", "custom_message", "note"}
  Sizes = {1, 2}
  keepRecentTokens = 2
  CallCounts = {0, 1}
  MaxLength = 6
CHECK_DEADLOCK FALSE
INVARIANT NothingForgotten

SPECIFICATION Spec
CONSTANTS
  bookmark = bookmark
  NoLabel = NoLabel
  Absent = Absent
  Kinds <- Chat
  LabelNames <- Bookmarks
  Persists <- Saved
  MaxEntries = 5
  MaxFiles = 2
  MaxCrashes = 0
PROPERTY AnsweredForkKeepsContext

SPECIFICATION Spec
CONSTANTS
  bookmark = bookmark
  NoLabel = NoLabel
  Absent = Absent
  Kinds <- Chat
  LabelNames <- NoBookmarks
  Persists <- Saved
  MaxEntries = 4
  MaxFiles = 2
  MaxCrashes = 1
INVARIANT OneHeaderNoDuplicates

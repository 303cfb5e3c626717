SPECIFICATION ScenarioSpec
CONSTANTS
  bookmark = bookmark
  NoLabel = NoLabel
  Absent = Absent
  Kinds <- ChatAndMore
  LabelNames <- Bookmarks
  Persists <- Either
  MaxEntries = 4
  MaxFiles = 2
  MaxCrashes = 1
INVARIANTS
  TypeOK
  FileIsMemory
  ReferencesResolve
  LabelsAreRecorded
PROPERTIES
  LogSpec
  ForkKeepsContext
  ForkKeepsLabels
  

SPECIFICATION Spec
CONSTANTS
  None = None  Live = Live  Gone = Gone
  SuffixOrder <- AsNumbers
  Cap = 1
  Retention = 1
  Commands = {"logs", "follow", "tail"}
  LastDay = 3
  LastTime = 1
  MaxLines = 3
  MaxRuns = 2
INVARIANTS TypeOK NothingLost PrintsTheHistory
PROPERTY TailCatchesUp
CHECK_DEADLOCK FALSE

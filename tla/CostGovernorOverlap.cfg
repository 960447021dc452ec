SPECIFICATION FairSpec
CONSTANTS
  k1 = k1
  None = None  Unlimited = Unlimited  Charger = Charger  Empty = Empty  Torn = Torn
  Calls <- OneCall
  Requests = {"start", "stop", "show"}
  DayLength = 2
  WeekLength = 4
  CapDay = 1
  CapWeek = 2
  Ceilings <- LiftOnly
  Notify = FALSE
  Overlap = {"stop", "show", "charge"}
  MaxTime = 4
  MaxMessages = 2
  MaxCrashes = 1
 
PROPERTIES PauseEnds
CHECK_DEADLOCK FALSE

SPECIFICATION Spec
CONSTANTS
  k1 = k1
  None = None  Unlimited = Unlimited  Charger = Charger  Empty = Empty  Torn = Torn
  Calls <- OneCall
  Requests = {"start", "stop", "show", "reset", "override", "resetOverride"}
  DayLength = 2
  WeekLength = 4
  CapDay = 1
  CapWeek = 2
  Ceilings <- LiftOnly
  Notify = FALSE
  Overlap = {"stop"}
  MaxTime = 4
  MaxMessages = 3
  MaxCrashes = 1
INVARIANTS TypeOK HeldAcrossCrash PausedMeansHeld
PROPERTIES BootHolds
CHECK_DEADLOCK FALSE

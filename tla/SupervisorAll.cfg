SPECIFICATION Spec
CONSTANTS
  k1 = k1  k2 = k2  k3 = k3  c1 = c1  c2 = c2
  NoCall = NoCall  NoChild = NoChild
  Calls <- TwoCalls
  Children <- TwoChildren
  Requests = {"start", "stop", "restart", "run", "fire", "quarantine", "unquarantine", "override", "charge", "failure", "shutdown"}
  Policy = "always"
  MaxConsecutive = 1
  Threshold = 2
  Overlap <- OneRunAtATime
  LogMayFail = FALSE
  MayOutlive = FALSE
INVARIANTS TypeOK StateHasProcess WaitsOnLiveProcess  ShutdownSilencesRelaunch StartingIsInProgress RunCanBeAnswered
  
SYMMETRY Symmetry
CHECK_DEADLOCK FALSE

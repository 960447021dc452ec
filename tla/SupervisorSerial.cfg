SPECIFICATION Spec
CONSTANTS
  k1 = k1  k2 = k2  k3 = k3  c1 = c1  c2 = c2
  NoCall = NoCall  NoChild = NoChild
  Calls <- TwoCalls
  Children <- TwoChildren
  Requests = {"start", "stop", "restart", "run", "fire", "quarantine", "unquarantine", "failure", "shutdown"}
  Policy = "on-failure"
  MaxConsecutive = 2
  Threshold = 2
  Overlap <- Serially
  LogMayFail = TRUE
  MayOutlive = TRUE
INVARIANTS OneProcess
PROPERTIES QuarantineIsTerminal ImplementsLifecycle
SYMMETRY Symmetry
CHECK_DEADLOCK FALSE

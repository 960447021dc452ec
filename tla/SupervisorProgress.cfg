SPECIFICATION FairSpec
CONSTANTS
  k1 = k1  k2 = k2  k3 = k3  c1 = c1  c2 = c2
  NoCall = NoCall  NoChild = NoChild
  Calls <- TwoCalls
  Children <- TwoChildren
  Requests = {"start", "stop", "shutdown"}
  Policy = "always"
  MaxConsecutive = 2
  Threshold = 2
  Overlap <- Freely
  LogMayFail = TRUE
  MayOutlive = FALSE
PROPERTIES StopCompletes 
CHECK_DEADLOCK FALSE

SPECIFICATION Spec
CONSTANTS
  bash = bash  edit = edit  code1 = code1
  Tools <- TwoTools
  Signals <- OneSignal
  Threshold = 2
  Window = 1
  LastTime = 2
  MaxFailures = 3
  MaxBoxes = 2
INVARIANT TripsOnALoop
SYMMETRY Symmetry
CHECK_DEADLOCK FALSE

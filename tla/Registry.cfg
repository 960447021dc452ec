SPECIFICATION Spec
CONSTANTS
  s1 = s1  k1 = k1  k2 = k2
  capped = capped  watching = watching
  path = path  entry = entry
  None = None  Broken = Broken
  Service <- OneService
  Definition <- Definitions
  Budgeted <- CappedOnly
  Path <- OnePath
  Entry <- OneEntry
  TriggerOf <- Triggers
  Calls <- TwoCalls
  Requests = {"start", "stop", "restart", "enable", "disable", "unquarantine", "reload"}
  Overlap = {"reload"}
  MaxChanges = 1
  MaxEvents = 2
INVARIANTS TypeOK AcknowledgedIsDurable RunsItsRecord NextStartUsesTheFile TimersHaveDefinitions RunsWithinItsBudget DisableIsAKillSwitch 
SYMMETRY Symmetry
CHECK_DEADLOCK FALSE

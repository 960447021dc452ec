SPECIFICATION Spec
CONSTANTS
  s1 = s1  k1 = k1  k2 = k2
  capped = capped  watching = watching
  path = path  entry = entry
  None = None  Broken = Broken
  Service <- OneService
  Definition <- Definitions
  Budgeted <- CappedOnly
  Path <- OnePath
  Entry <- OneEntry
  TriggerOf <- Triggers
  Calls <- TwoCalls
  Requests = {"start", "reload"}
  Overlap = {}
  MaxChanges = 0
  MaxEvents = 2
INVARIANT QuarantineOutlivesReload
SYMMETRY Symmetry
CHECK_DEADLOCK FALSE

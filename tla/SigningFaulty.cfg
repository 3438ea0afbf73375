SPECIFICATION Spec
CONSTANTS
  ShareCount = 2
  Threshold = 2
  Slot = {a, b}
  WellFormedId = {"dkg", "refresh", "i1", "i2"}
  Requests <- FaultyRequests
  Keyrings <- FaultyKeyrings
  Faulty = {2}
  AllowRetry = FALSE
  MaxDelivery = 2
  MaxFaults = 1
  None = None
INVARIANTS BansAreDeserved
PROPERTIES OneShot
SYMMETRY Slots
CHECK_DEADLOCK FALSE

SPECIFICATION Spec
CONSTANTS
  ShareCount = 2
  Threshold = 2
  Slot = {1, 2}
  WellFormedId = {"dkg", "refresh", "i1", "i2"}
  Requests <- FaultyRequests
  Keyrings <- RootOnly
  Faulty = {}
  AllowRetry = TRUE
  MaxDelivery = 1
  MaxFaults = 0
  None = None
INVARIANTS BansAreDeserved
CHECK_DEADLOCK FALSE

SPECIFICATION Spec
CONSTANTS
  ShareCount = 4
  Threshold = 3
  Slot = {1}
  WellFormedId = {"dkg", "refresh", "i1", "i2"}
  Requests <- InputRequests
  Keyrings <- InputKeyrings
  Faulty = {}
  AllowRetry = FALSE
  MaxDelivery = 3
  MaxFaults = 0
  None = None
INVARIANTS TypeOK GroupAgrees
PROPERTIES SignsByConsent
CHECK_DEADLOCK FALSE

SPECIFICATION Spec
CONSTANTS
  ShareCount = 2
  Threshold = 2
  Slot = {a, b}
  WellFormedId = {"dkg", "refresh", "i1", "i2"}
  Requests <- PairRequests
  Keyrings <- PairKeyrings
  Faulty = {}
  AllowRetry = FALSE
  MaxDelivery = 2
  MaxFaults = 0
  None = None
INVARIANTS BansAreDeserved GroupAgrees
PROPERTIES SignsByConsent
SYMMETRY Slots
CHECK_DEADLOCK FALSE

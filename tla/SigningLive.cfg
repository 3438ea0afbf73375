SPECIFICATION FairSpec
CONSTANTS
  ShareCount = 3
  Threshold = 3
  Slot = {1}
  WellFormedId = {"dkg", "refresh", "i1", "i2"}
  Requests <- TrioRequests
  Keyrings <- TrioKeyrings
  Faulty = {}
  AllowRetry = FALSE
  MaxDelivery = 0
  MaxFaults = 0
  None = None
PROPERTIES AgreeingSignersSign DivergenceEndsRecoverably
CHECK_DEADLOCK FALSE

SPECIFICATION LifeSpec
CONSTANTS
  ShareCount = 2
  Threshold = 2
  Slot = {1}
  WellFormedId = {"dkg", "r1", "r2", "i1"}
  Requests <- OneRequest
  AllowRetry = FALSE
  MaxDelivery = 1
  MaxFaults = 0
  Faulty = {}
  Attempt = {"r1", "r2"}
  Fast = {"r2"}
  FirstKey <- Root
  Coordinated = FALSE
  Routed = TRUE
  TrivialShare <- TrivialAfterFast
  None = None
INVARIANTS BansAreDeserved
CHECK_DEADLOCK FALSE

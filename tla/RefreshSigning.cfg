SPECIFICATION LifeSpec
CONSTANTS
  ShareCount = 2
  Threshold = 2
  Slot = {1}
  WellFormedId = {"dkg", "r1", "r2", "i1"}
  Requests <- OneRequest
  AllowRetry = FALSE
  MaxDelivery = 2
  MaxFaults = 0
  Faulty = {}
  Attempt = {"r1", "r2"}
  Fast = {"r2"}
  FirstKey <- Root
  Coordinated = TRUE
  Routed = TRUE
  TrivialShare <- TrivialAfterFast
  None = None
INVARIANTS TypeOK EpochsMatch HalfDoneCanFinish BansAreDeserved
PROPERTIES SignsByConsent
CHECK_DEADLOCK FALSE

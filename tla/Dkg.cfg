SPECIFICATION Spec
CONSTANTS
  ShareCount = 3
  Threshold = 2
  Prime = 5
  IndexWidth = 8
  Faulty = {1}
  Dealings <- TwoLines
  MaxDeals = 2
  ForeignCodes <- FaultyCodes
  None = None
INVARIANTS TypeOK ViewsMatch KeyAgreement AnyThresholdSigns
CHECK_DEADLOCK FALSE

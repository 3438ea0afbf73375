SPECIFICATION FairSpec
CONSTANTS
  ShareCount = 3
  Threshold = 2
  Prime = 11
  IndexWidth = 2
  Faulty = {}
  Dealings <- SafeLines
  MaxDeals = 1
  ForeignCodes = {}
  None = None
PROPERTIES EverybodyFinishes
CHECK_DEADLOCK FALSE

SPECIFICATION Spec
CONSTANTS
  Q = 10007
  Hash <- Oracle
  Pairs = 2
  Challenge = {1, 2, 5}
  W = 4
  T = 2
  OT_SECURITY = 7
  LowExponents = {0, 1}
  KAPPA = 2
  L = 2
  Tape = {1, 2, 3, 4}
  RunId = {1, 2}
  MaxMasks = 2
  SmallOrder = 5
  None = None
  Aborted = Aborted
INVARIANTS CorrelationHolds BlameNeedsACause AcceptedRowsAreCorrelated AcceptedMeansProduct FieldMulIsProduct EncProofSound
CHECK_DEADLOCK FALSE

SPECIFICATION Spec
CONSTANTS
  ShareCount = 3
  Threshold = 2
  Prime = 11
  IndexWidth = 8
  MAX_DEPTH = 2
  MAX_CHILD_NUMBER = 1
  HashRange = 13
  Hash <- Oracle
  XCoordinate <- X
  SecretPolynomial <- Secrets
  ZeroPolynomial <- Zeros
  MaxRefreshes = 1
  ChildNumber = {0, 1, 2}
  Path <- Paths
  Message = {6}
  Draw <- Draws
  None = None
INVARIANTS SamePathSameKey PackageFollowsParty RecoveryFindsTheKey OneKeySigns
CHECK_DEADLOCK FALSE

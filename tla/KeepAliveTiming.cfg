SPECIFICATION Spec
CONSTANTS
  ExpectedRate = 3
  MaxLateness = 3
  MaxStaleness = 13
  ReleaseAfter = 6
  Jitter = 8
  MaxNet = 3
INVARIANTS
  HeldThroughJitter
  SilenceBounded

SPECIFICATION BlocksSpec
CONSTANTS
  Bodies <- MCBodies
  MaxBlocks = 2
  HeaderLen = 2
  BlockHead = 2
INVARIANT TruncationTells
CHECK_DEADLOCK FALSE

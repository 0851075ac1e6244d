SPECIFICATION FairSpec
CONSTANTS
  Lines = {a, b, c, d}
  Bytes <- MCBytes
  Hash <- MCHash
  MaxCopies = 2
  MaxBlank = 1
  TargetBucketBytes = 2
  SafeLoadBytes = 2
  MinBuckets = 2
  MaxDepth = 2
  Faults = {"io"}
  a = a
  b = b
  c = c
  d = d
INVARIANTS TypeOK LinesTogether MemoryBounded
PROPERTIES UniqueSpec Ends
CHECK_DEADLOCK FALSE

SPECIFICATION Spec
CONSTANTS
  Keys = {k1, k2, k3, k4, k5}
  Values = {a, b}
  NoValue = NoValue
  Hash <- MCHash
  WordSize = 32
  InitialBucketCount = 2
  MaxEntries = 4
  LoadNum = 3
  LoadDen = 4
  k1 = k1
  k2 = k2
  k3 = k3
  k4 = k4
  k5 = k5
INVARIANTS TypeOK EntriesFindable LoadBounded
PROPERTY MapSpec

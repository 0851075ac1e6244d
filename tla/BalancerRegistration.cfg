SPECIFICATION FairSpec
CONSTANTS
  Nodes = {n1, n2, n3}
  Dests = {d1, d2}
  DestOf <- MCDestOf
  Invalid = {n3}
  Blobs = {}
  HashOf <- MCHashOf
  MaxAttempts <- MCMaxAttempts2
  MaxId = 3
  Events = {"attemptFails", "crash"}
  n1 = n1
  n2 = n2
  n3 = n3
  d1 = d1
  d2 = d2
  b1 = b1
  b2 = b2
INVARIANT TypeOK
PROPERTY EveryNodeSettles
CHECK_DEADLOCK FALSE

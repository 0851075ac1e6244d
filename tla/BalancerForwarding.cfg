SPECIFICATION Spec
CONSTANTS
  Nodes = {n1, n2, n3}
  Dests = {d1, d2}
  DestOf <- MCDestOf
  Invalid = {}
  Blobs = {b2}
  HashOf <- MCHashOf
  MaxAttempts <- MCMaxAttempts
  MaxId = 2
  Events = {"attemptFails", "upstreamFails", "refused"}
  n1 = n1
  n2 = n2
  n3 = n3
  d1 = d1
  d2 = d2
  b1 = b1
  b2 = b2
INVARIANTS OutcomeMatchesRegistry FoundWhereStored
PROPERTY RoutingFrozen
CHECK_DEADLOCK FALSE

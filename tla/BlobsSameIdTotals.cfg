SPECIFICATION Spec
CONSTANTS
  Clients = {c1, c2}
  Ids = {i1}
  Envelopes = {small}
  Malformed = {}
  Kinds = {"put", "delete"}
  Faults = {}
  MaxDiskQuota = 3
  MaxBlobsTotal = 3
  MaxPayloadLength = 3
  HeaderLen <- MCHeaderLen
  PayloadLen <- MCPayloadLen
  c1 = c1
  c2 = c2
  i1 = i1
  None = None
  Partial = Partial
  small = small
  other = other
  large = large
  bad = bad
  huge = huge
INVARIANTS QuiescentTotals

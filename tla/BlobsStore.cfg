SPECIFICATION FairExclusiveSpec
CONSTANTS
  Clients = {c1, c2}
  Ids = {i1, i2}
  Envelopes = {small, other, bad, huge}
  Malformed = {bad}
  Kinds = {"put", "get", "delete"}
  Faults = {"mkdirTmp", "stream", "mkdirShard", "rename", "rmTemp", "open", "read", "rm", "crash"}
  MaxDiskQuota = 2
  MaxBlobsTotal = 1
  MaxPayloadLength = 3
  HeaderLen <- MCHeaderLen
  PayloadLen <- MCPayloadLen
  c1 = c1
  c2 = c2
  i1 = i1
  i2 = i2
  None = None
  Partial = Partial
  small = small
  other = other
  large = large
  bad = bad
  huge = huge
PROPERTIES StoreSpec EveryRequestEnds

SPECIFICATION QuotaSpec
CONSTANTS
  Clients = {c1, c2, c3}
  Ids = {i1, i2, i3}
  Envelopes = {small, large}
  Malformed = {}
  Kinds = {"put", "delete"}
  Faults = {"mkdirTmp", "stream", "rmTemp", "rm", "crash"}
  MaxKept = 1
  MaxDiskQuota = 5
  MaxBlobsTotal = 2
  MaxPayloadLength = 3
  HeaderLen <- MCHeaderLen
  PayloadLen <- MCPayloadLen
  c1 = c1
  c2 = c2
  c3 = c3
  i1 = i1
  i2 = i2
  i3 = i3
  None = None
  Partial = Partial
  small = small
  other = other
  large = large
  bad = bad
  huge = huge
SYMMETRY Symmetry
INVARIANTS TypeOK TotalsAccounted BlobLimit TempFilesOwned QuotaKeptUntilFailure

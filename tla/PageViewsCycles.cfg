SPECIFICATION FairCyclesSpec
CONSTANTS
  Views = {v1, v2}
  Multis = {m1, m2}
  Buckets = {noon, midnight}
  HourKeys = {k00, k24, k12}
  BucketOf <- MCBucketOf
  HourBucket <- MCHourBucket
  Payload <- MCPayload
  Grace = 3
  MaxLatency = 1
  MaxSkew = 1
  BatchSize = 1
  Horizon = 5
  Events = {"insertFails", "aggregateFails", "aggregateAckLost", "deleteFails", "deleteAckLost", "crash", "sigterm"}
  MaxAbandoned = 2
  v1 = v1
  v2 = v2
  m1 = m1
  m2 = m2
  noon = noon
  midnight = midnight
  k00 = k00
  k24 = k24
  k12 = k12
INVARIANTS TypeOK NoLateRow
PROPERTIES CounterSpec EveryViewCounted StopsOnSigterm

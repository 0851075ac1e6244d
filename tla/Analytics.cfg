SPECIFICATION AnalyticsSpec
CONSTANTS
  Views = {v1, v2}
  Multis = {m1}
  HourKeys = {k5}
  Buckets <- MCBuckets
  BucketOf <- MCBucketOf
  HourBucket <- MCHourBucket
  Payload <- MCPayload
  Grace = 1
  MaxLatency = 0
  MaxSkew = 0
  BatchSize = 1
  Horizon = 2
  Events = {"aggregateFails", "aggregateAckLost", "deleteFails", "deleteAckLost", "crash", "sigterm"}
  Procs = {"api", "cleaner"}
  Sessions = {1, 2}
  Files = 1
  Failures = {"migration", "kill"}
  HoursInWindow = 3
  HoursPerDay = 3
  UnitsPerHour = 2
  MaxTake = 3
  Times <- MCTimes
  Takes <- MCTakes
  MaxSpoiled = 1
  v1 = v1
  v2 = v2
  m1 = m1
  k4 = k4
  k5 = k5
  page = page
INVARIANTS MigratedFirst LockGivenBack CountsExplained ReportShows
CHECK_DEADLOCK FALSE

\* One replica over Redis, tasks of any length, replies lost, batches of two.
SPECIFICATION FairSpec
CONSTANTS
  d1 = d1
  d2 = d2
  r1 = r1
  r2 = r2
  MaxAttempts = 1
  BaseDelay = 1
  BackoffFactor = 2
  MaxDelay = 1
  JitterPct = 0
  Replicas = {r1}
  Deliveries = {d1, d2}
  BatchSize = 2
  LeaseTtl = 1
  MaxUnhandled = 2
  HistoryLimit = 2
  Retention = 1
  Reasons <- SomeReasons
  HoldBound <- Unbounded
  LostReplies = TRUE
  MaxFaults = 1
  MaxStops = 0
INVARIANTS LostOnlyByCuts
PROPERTIES EventuallySettled

\* A crash between the two commands that move a delivery back to the ready set.
SPECIFICATION Spec
CONSTANTS
  d1 = d1
  d2 = d2
  r1 = r1
  r2 = r2
  MaxAttempts = 2
  BaseDelay = 1
  BackoffFactor = 2
  MaxDelay = 1
  JitterPct = 0
  Replicas = {r1}
  Deliveries = {d1}
  BatchSize = 1
  LeaseTtl = 2
  MaxUnhandled = 2
  HistoryLimit = 2
  Retention = 1
  Reasons <- SomeReasons
  HoldBound = 1
  LostReplies = FALSE
  MaxFaults = 0
  MaxStops = 1
INVARIANTS NothingLost

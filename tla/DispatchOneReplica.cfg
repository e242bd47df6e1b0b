\* One replica, tasks of any length, replies lost: every delivery still settles.
SPECIFICATION FairSpec
CONSTANTS
  d1 = d1
  d2 = d2
  r1 = r1
  r2 = r2
  slow = slow
  MaxAttempts = 3
  BaseDelay = 1
  BackoffFactor = 2
  MaxDelay = 1
  JitterPct = 0
  Backend = "pg"
  LeaseTtl = 1
  Replicas = {r1}
  Deliveries = {d1}
  Hosts = {slow}
  HostOf <- OneHost
  BatchSize = 1
  WorkerConcurrency = 1
  PerHost = 1
  MaxUnhandled = 2
  Answers <- AllAnswers
  HoldBound <- Unbounded
  LostReplies = TRUE
  MaxFaults = 3
  MaxStops = 1
INVARIANTS QuarantineEnds
PROPERTIES EventuallySettled

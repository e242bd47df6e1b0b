\* Batches of two on MongoDB, whose claim can fail half-way.
SPECIFICATION FairSpec
CONSTANTS
  d1 = d1
  d2 = d2
  r1 = r1
  r2 = r2
  slow = slow
  MaxAttempts = 1
  BaseDelay = 1
  BackoffFactor = 2
  MaxDelay = 1
  JitterPct = 0
  Backend = "mongo"
  LeaseTtl = 1
  Replicas = {r1}
  Deliveries = {d1, d2}
  Hosts = {slow}
  HostOf <- OneHost
  BatchSize = 2
  WorkerConcurrency = 2
  PerHost = 1
  MaxUnhandled = 2
  Answers <- TwoAnswers
  HoldBound <- Unbounded
  LostReplies = FALSE
  MaxFaults = 1
  MaxStops = 0
INVARIANTS ExclusiveLease
PROPERTIES EventuallySettled KeepsPromise

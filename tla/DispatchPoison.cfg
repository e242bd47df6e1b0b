\* A delivery whose dispatch keeps raising, on the memory store.
SPECIFICATION Spec
CONSTANTS
  d1 = d1
  d2 = d2
  r1 = r1
  r2 = r2
  slow = slow
  MaxAttempts = 3
  BaseDelay = 1
  BackoffFactor = 2
  MaxDelay = 1
  JitterPct = 0
  Backend = "memory"
  LeaseTtl = 1
  Replicas = {r1}
  Deliveries = {d1}
  Hosts = {slow}
  HostOf <- OneHost
  BatchSize = 1
  WorkerConcurrency = 1
  PerHost = 1
  MaxUnhandled = 2
  Answers <- AllAnswers
  HoldBound <- Unbounded
  LostReplies = FALSE
  MaxFaults = 3
  MaxStops = 0
INVARIANTS QuarantineEnds

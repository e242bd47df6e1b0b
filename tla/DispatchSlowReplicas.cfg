\* Two replicas whose tasks may outlast the lease.
SPECIFICATION Spec
CONSTANTS
  d1 = d1
  d2 = d2
  r1 = r1
  r2 = r2
  slow = slow
  MaxAttempts = 2
  BaseDelay = 1
  BackoffFactor = 2
  MaxDelay = 1
  JitterPct = 0
  Backend = "pg"
  LeaseTtl = 1
  Replicas = {r1, r2}
  Deliveries = {d1}
  Hosts = {slow}
  HostOf <- OneHost
  BatchSize = 1
  WorkerConcurrency = 1
  PerHost = 1
  MaxUnhandled = 2
  Answers <- AllAnswers
  HoldBound <- Unbounded
  LostReplies = FALSE
  MaxFaults = 0
  MaxStops = 0
SYMMETRY Interchangeable
INVARIANTS NoDoublePost

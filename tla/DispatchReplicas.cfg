\* Two timely replicas over one Postgres store, a receiver that names the time of the retry.
SPECIFICATION Spec
CONSTANTS
  d1 = d1
  d2 = d2
  r1 = r1
  r2 = r2
  slow = slow
  MaxAttempts = 3
  BaseDelay = 1
  BackoffFactor = 2
  MaxDelay = 3
  JitterPct = 50
  Backend = "pg"
  LeaseTtl = 2
  Replicas = {r1, r2}
  Deliveries = {d1}
  Hosts = {slow}
  HostOf <- OneHost
  BatchSize = 1
  WorkerConcurrency = 1
  PerHost = 1
  MaxUnhandled = 2
  Answers <- WithDate
  HoldBound = 2
  LostReplies = FALSE
  MaxFaults = 1
  MaxStops = 1
SYMMETRY Interchangeable
INVARIANTS TypeOK ExclusiveLease SnapshotIsCurrent BackoffRespected ReceiverLoadBounded AttemptLogComplete
PROPERTIES TerminalIsFinal KeepsPromise RetryAfterHonoured

\* Two timely replicas over one Redis server.
SPECIFICATION Spec
CONSTANTS
  d1 = d1
  d2 = d2
  r1 = r1
  r2 = r2
  MaxAttempts = 2
  BaseDelay = 1
  BackoffFactor = 2
  MaxDelay = 1
  JitterPct = 0
  Replicas = {r1, r2}
  Deliveries = {d1}
  BatchSize = 1
  LeaseTtl = 2
  MaxUnhandled = 2
  HistoryLimit = 1
  Retention = 2
  Reasons <- SomeReasons
  HoldBound = 1
  LostReplies = FALSE
  MaxFaults = 2
  MaxStops = 1
SYMMETRY Interchangeable
INVARIANTS TypeOK Disjoint ExclusiveLease SnapshotIsCurrent LostOnlyByCuts NoOrphans LogLeads BackoffRespected ReceiverLoadBounded
PROPERTIES TerminalIsFinal

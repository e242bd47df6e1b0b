SPECIFICATION Spec
SYMMETRY Symmetry
CONSTANTS
  broken = broken
  e1 = e1
  e2 = e2
  s1 = s1
  refused = refused
  r1 = r1
  r2 = r2
  Replicas = {r1, r2}
  Events = {broken, e1, e2}
  Created <- Dates
  Subscriptions = {s1, refused}
  Blocked = {refused}
  Backend = "mongo"
  Unserialisable = {e2}
  Undecodable = {broken}
  LeaseTtl = 1
  BatchSize = 2
  HoldBound = 1
  LostReplies = TRUE
  MaxFaults = 1
  MaxStops = 1
  MaxPauses = 1
INVARIANTS TypeOK ExclusiveClaim DoneMeansEnqueued DuplicatesBounded FailureParksOne
PROPERTY SettledIsFinal

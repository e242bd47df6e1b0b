\* Every kind of store, two callers, one send, a patient receiver.
SPECIFICATION Spec
CONSTANTS
  c1 = c1
  c2 = c2
  s1 = s1
  Kinds = {"redis", "pg", "mongo"}
  Callers = {c1, c2}
  Senders = {s1}
  Graces = {4}
  Window = 1
  CallBound = 1
  Patient = TRUE
  MaxSecret = 3
  MaxClock = 8
SYMMETRY Interchangeable
INVARIANTS TypeOK OldSecretSigns ReceiverVerifies FanOutRuns DeletedIsQuiet
PROPERTIES SecretsHandOver DeletedIsGone
CHECK_DEADLOCK FALSE

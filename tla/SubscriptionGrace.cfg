\* Two rotations, one after the other, the second within the window of the first.
SPECIFICATION Spec
CONSTANTS
  c1 = c1
  c2 = c2
  s1 = s1
  Kinds = {"pg"}
  Callers = {c1}
  Senders = {s1}
  Graces = {4}
  Window = 1
  CallBound = 1
  Patient = TRUE
  MaxSecret = 3
  MaxClock = 8
INVARIANTS GraceKept
CHECK_DEADLOCK FALSE

SPECIFICATION Spec
CONSTANTS
  s1 = s1
  s2 = s2
  b1 = b1
  b2 = b2
  b3 = b3
  None = None
  Calls = {s1, s2}
  Buckets = {b1, b2, b3}
  PerMinute = 1
  PerDay = 2
  Minute = 1
  Day = 7
  Period = 4
  MaxTime = 8
  MaxAdmitted = 5
SYMMETRY Symm
CHECK_DEADLOCK FALSE
INVARIANTS
  WindowBounds
  SentIsDelivered
PROPERTIES
  RefusedOnlyWhenFull

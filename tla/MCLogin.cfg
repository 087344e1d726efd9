SPECIFICATION Spec
CONSTANTS
  q1 = q1
  q2 = q2
  Requests = {q1, q2}
  TTL = 2
  StateTTL = 1
  GrantTTL = 1
  MaxTime = 3
  Real = Real
  None = None
SYMMETRY Symm
CHECK_DEADLOCK FALSE
INVARIANTS
  NoEarlyExpiry
  ClockHome
PROPERTIES
  SoleVerdictRight

SPECIFICATION Spec
CONSTANTS
  c1 = c1
  c2 = c2
  f1 = f1
  f2 = f2
  x1 = x1
  x2 = x2
  p1 = p1
  p2 = p2
  a1 = a1
  a2 = a2
  None = None
  Chats = {c1, c2}
  Confirms = {f1, f2}
  Cancellers = {x1, x2}
  Props = {p1, p2}
  Articles = {a1, a2}
  Strangers = {x1}
  MaxOpened = 3
SYMMETRY Symm
CONSTRAINT FewOpened
CHECK_DEADLOCK FALSE
INVARIANTS
  HumanGate
  LateConfirmRefused
  ResultToItsInterrupt
  RunCancellable
  ResetClean

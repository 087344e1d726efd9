SYMMETRY Symm
SPECIFICATION Spec
CONSTANTS
  r1 = r1
  r2 = r2
  j = j
  a1 = a1
  a2 = a2
  m1 = m1
  m2 = m2
  m3 = m3
  None = None
  Corrupt = Corrupt
  Torn = Torn
  Junk = Junk
  Requests = {r1, r2}
  Cleaner = j
  Articles = {a1, a2}
  Mutexes = {m1, m2, m3}
  TTL = 0
  MaxTime = 1
  MaxFaults = 1
CHECK_DEADLOCK FALSE
INVARIANTS
  LockDiscipline
  TurnsWhole
  CacheMatchesDisk
  WaitersServed

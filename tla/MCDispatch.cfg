CONSTANTS
  c1 = c1
  c2 = c2
  r1 = r1
  r2 = r2
  Conns = {c1, c2}
  Reqs = {r1, r2}
  SyncReqs = {r2}
  MaxRetry = 3
  NoConn = NoConn
  NoReq = NoReq
SYMMETRY Symmetry
SPECIFICATION Spec
INVARIANTS
  SingleCustodian
  SettledNotResent
  InflightExact
  RegistriesAgree
  ExitedRunUnusable
PROPERTY ImplementsRequestLife
CHECK_DEADLOCK FALSE

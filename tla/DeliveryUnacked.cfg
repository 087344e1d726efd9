CONSTANTS
  c1 = c1
  c2 = c2
  r1 = r1
  r2 = r2
  Conns = {c1, c2}
  Reqs = {r1}
  SyncReqs = {}
  MaxRetry = 3
  NoConn = NoConn
  NoReq = NoReq
SPECIFICATION DSpec
INVARIANT UnackedRedeliverable
CHECK_DEADLOCK FALSE

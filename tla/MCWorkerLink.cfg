CONSTANTS
  MaxConns = 4
  InitialBackoff = 3
  MaxBackoff = 30
  BackoffFactor = 2
  CallbackRetries = 3
  MaxBacklog = 2
SPECIFICATION FairSpec
INVARIANTS
  NoDoubleClose
  OneHeartbeat
  NoSocketLeak
PROPERTIES
  CloseStops
  LinkHeals
CHECK_DEADLOCK FALSE

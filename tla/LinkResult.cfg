CONSTANTS
  MaxConns = 4
  InitialBackoff = 3
  MaxBackoff = 30
  BackoffFactor = 2
  CallbackRetries = 3
  MaxBacklog = 2
SPECIFICATION Spec
INVARIANT ResultSurvivesDisconnect
CHECK_DEADLOCK FALSE

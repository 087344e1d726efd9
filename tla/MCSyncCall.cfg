CONSTANTS
  k1 = k1
  k2 = k2
  k3 = k3
  i1 = i1
  i2 = i2
  Calls <- MCCalls
  Ids <- MCIds
  IdOf <- MCIdOf
  NoCall = NoCall
SPECIFICATION FairSpec
INVARIANTS
  OwnResult
  NoLeftover
  ResultRouted
PROPERTIES
  CallReturns
  ReaderFree
CHECK_DEADLOCK FALSE

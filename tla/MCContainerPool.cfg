CONSTANTS
  go = go
  py = py
  s1 = s1
  s2 = s2
  s3 = s3
  Langs <- MCLangs
  Slots <- MCSlots
  LangOf <- MCLangOf
  Runners = {w1, w2}
  MaxRestart = 2
  NoSlot = NoSlot
  NoLang = NoLang
SPECIFICATION FairSpec
INVARIANTS
  SlotConserved
  PutNeverBlocks
  ShrinksOnlyByRestarts
  OverdueRestarted
PROPERTIES
  RunCodeReturns
  ReplenishEnds
CHECK_DEADLOCK FALSE

SPECIFICATION FairSpec
CONSTANTS
  r1 = r1
  r2 = r2
  NoRun = NoRun
  Requests = {r1, r2}
  EarlierTurns = 1
  MaxRestarts = 1
INVARIANTS
  OneRun
  RepliesOwned
  TurnsAlternate
  ClosedTruthfully
  StopsAreStored
PROPERTIES
  CancelTakesEffect
CHECK_DEADLOCK FALSE

SPECIFICATION FairSpec
CONSTANTS
  a = a
  b = b
  Home = Home
  Conversations = {a}
  MaxEvents = 3
  MaxOthers = 0
  MaxFlows = 2
  MaxFaults = 1
  ReconcileAttempts = 1
  MaxMoves = 1
PROPERTIES
  GenerationEnds
CHECK_DEADLOCK FALSE

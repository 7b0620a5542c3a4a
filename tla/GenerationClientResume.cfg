SPECIFICATION Spec
CONSTANTS
  a = a
  b = b
  Home = Home
  Conversations = {a}
  MaxEvents = 3
  MaxOthers = 1
  MaxFlows = 2
  MaxFaults = 0
  ReconcileAttempts = 1
  MaxMoves = 2
INVARIANTS
  InOrder
  StopOffered
CHECK_DEADLOCK FALSE

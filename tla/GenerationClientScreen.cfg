SPECIFICATION Spec
CONSTANTS
  a = a
  b = b
  Home = Home
  Conversations = {a, b}
  MaxEvents = 4
  MaxOthers = 0
  MaxFlows = 1
  MaxFaults = 1
  ReconcileAttempts = 2
  MaxMoves = 4
INVARIANTS
  TypeOK
  OnlyActive
  FailureKept
  LiveTextComplete
  ViewMatchesStored
SYMMETRY Symmetry
CHECK_DEADLOCK FALSE

SPECIFICATION Spec
CONSTANTS
  a = a
  b = b
  Home = Home
  Conversations = {a, b}
  MaxEvents = 3
  MaxOthers = 0
  MaxFlows = 1
  MaxFaults = 0
  ReconcileAttempts = 1
  MaxMoves = 4
INVARIANTS
  ReturnShowsReply
SYMMETRY Symmetry
CHECK_DEADLOCK FALSE

CONSTANTS
  MaxId = 3
  MaxGeneration = 2
SPECIFICATION FairSpec
INVARIANTS
  DecisionGenuine
  CancellationWins
  NoMissedWake
PROPERTIES
  InterruptedStaysClosed
  RequestReturns
CHECK_DEADLOCK FALSE

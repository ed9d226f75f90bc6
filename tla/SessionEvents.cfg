CONSTANTS
  Capacity = 3
  MaxSequence = 10
  MaxOperationId = 3
  MaxGeneration = 2
  MaxNotifiers = 2
SPECIFICATION FairSpec
INVARIANTS
  StampsAdvance
  ExactlyOneCompletion
  NoLostWakeup
PROPERTIES
  ReliableKept
  ImplementsLedger
CHECK_DEADLOCK FALSE

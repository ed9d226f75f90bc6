CONSTANTS
  MaxPeers = 2
  PendingCapacity = 1
  EventCapacity = 4
  MaxSequence = 8
  Hosts = {h1}
  Closers = {c1}
  Jobs = {1, 2}
  RuntimeCapacity = 1
SPECIFICATION Spec
INVARIANTS
  OwnedOnce
  TerminalDelivered
  DrainedMeansJoined
PROPERTY NobodyStuck
CHECK_DEADLOCK FALSE

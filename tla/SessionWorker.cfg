SPECIFICATION Spec
CONSTANTS
  Hosts = {h1, h2}
  CommandKinds = {}
  CommandCapacity = 1
  MaxGeneration = 2
  MaxOperation = 3
  MaxRevision = 1
  MayOverflow = FALSE
SYMMETRY HostSymmetry
INVARIANTS
  IdleIsSettled
  DisconnectMeansDrained
  CancelHitsItsAttempt
  ConfirmedCancelHolds

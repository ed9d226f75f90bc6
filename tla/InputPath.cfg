SPECIFICATION Spec
CONSTANTS
  Keys = {k1, k2}
  Symbols = {a, b}
  Masks = {{}, {1}, {1, 3}}
  Capacity = 1
  HeldKeys = 1
  Throttled = TRUE
  MayEmulate = TRUE
  Hosts = 1
  MaxPosition = 2
  MaxRevision = 2
  MaxGeneration = 2
SYMMETRY InputSymmetry
INVARIANTS ReleaseIsBarrier InputArrives NoStuckInput
PROPERTY SentAsAccepted
CHECK_DEADLOCK FALSE

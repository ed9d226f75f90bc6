SPECIFICATION Spec
CONSTANTS
  Hosts = {h1}
  CommandKinds = {"Refresh", "DesktopLayout"}
  CommandCapacity = 2
  MaxGeneration = 1
  MaxOperation = 3
  MaxRevision = 1
  MayOverflow = TRUE
INVARIANTS
  CancelledNeverRan
  SlotsAccounted
  WorkNotStranded
  TerminalMeansRetry

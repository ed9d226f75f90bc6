SPECIFICATION FairSpec
CONSTANTS
  Hosts = {h1}
  CommandKinds = {"Refresh"}
  CommandCapacity = 1
  MaxGeneration = 1
  MaxOperation = 3
  MaxRevision = 2
  MayOverflow = FALSE
PROPERTIES
  CloseDrains
  DisconnectCompletes

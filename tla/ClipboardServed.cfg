SPECIFICATION Spec
CONSTANTS
  Peers = {"notify"}
  MaxChanges = 1
  MaxPolicy = 2
INVARIANT AnnouncedIsServed

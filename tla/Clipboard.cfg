SPECIFICATION Spec
CONSTANTS
  Peers = {"legacy", "notify", "unsolicited"}
  MaxChanges = 1
  MaxPolicy = 2
INVARIANTS
  TakenAllowed
  SentAllowed
  OneOwner

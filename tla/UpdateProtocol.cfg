SPECIFICATION Spec
CONSTANTS
  Formats = {f1, f2}
  Native = f1
  Sizes = {1, 2}
  MaxChanges = 1
  MaxResizes = 1
  MaxSelects = 2
  MaxRefreshes = 1
INVARIANTS
  DecodedInOwnFormat
  SingleUpdateInFlight
PROPERTY ViewerCatchesUp
CHECK_DEADLOCK FALSE

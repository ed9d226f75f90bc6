SPECIFICATION Spec
CONSTANTS
  Threads = {1}
  BufferCount = 1
  Kinds <- Plain
  Views = {v1}
  Budget = 5
  Widths = {1, 2}
  CursorChanges = 1
  MaxRects = 1
  MaxUpdates = 3
  MaxGeneration = 2
INVARIANTS DamageComplete
PROPERTIES PublishedWhole ViewsCatchUp
CHECK_DEADLOCK FALSE

SPECIFICATION Spec
CONSTANTS
  Threads = {1, 2}
  BufferCount = 3
  Kinds <- Ordered
  Views = {}
  Budget = 6
  Widths = {1, 2}
  CursorChanges = 0
  MaxRects = 4
  MaxUpdates = 1
  MaxGeneration = 2
INVARIANTS SequentialResult WorkersSuffice FramebufferOutlivesDecoders
CHECK_DEADLOCK FALSE

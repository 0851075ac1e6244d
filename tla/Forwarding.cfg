SPECIFICATION FairSpec
CONSTANTS
  MaxChunks = 3
  BufferSize = 2
  Faults = {"leave", "break", "stop"}
INVARIANTS NothingCutLooksWhole OneLogLine
PROPERTIES NothingTakenBack Settles
CHECK_DEADLOCK FALSE

SPECIFICATION FairSpec
CONSTANTS
  MaxSize = 7
  Numbers = {1, 2, 9}
  NumWorkers = 3
  ChunksPerCore = 2
  Faults = {"read"}
INVARIANTS TypeOK CountCorrect NoIdleWorker ChunksAreWholeLines
PROPERTY Resolves
CHECK_DEADLOCK FALSE

SPECIFICATION Spec
CONSTANTS
  Files <- MCFiles
  ChunkSizes = {2}
  kTargetBufferSize = 3
  kThreadDone = 4
INVARIANTS TypeOK CleanReturn BuffersExclusive DataReady ResultCorrect
PROPERTIES PublishedStable Implements ShutdownCompletes
CHECK_DEADLOCK FALSE

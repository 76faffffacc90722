SPECIFICATION Spec
CONSTANTS
  Files <- MCFiles
  ChunkSizes = {4}
  kTargetBufferSize = 3
  kThreadDone = 4
INVARIANT ResultCorrect
CHECK_DEADLOCK FALSE

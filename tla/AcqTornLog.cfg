CONSTANTS
  SourceCells = 3
  ChunkSizes = {2}
  MaxReadErrorChunks = 1
  IsNetworkSource = FALSE
  MaxRuns = 3
  MaxSourceChanges = 2
SPECIFICATION Spec
INVARIANT LogSurvives
CHECK_DEADLOCK FALSE

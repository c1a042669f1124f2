CONSTANTS
  SourceCells = 4
  ChunkSizes = {1, 2}
  MaxReadErrorChunks = 1
  IsNetworkSource = FALSE
  MaxRuns = 3
  MaxSourceChanges = 1
SPECIFICATION Spec
INVARIANTS TypeOK CompletedImageHasDigest EveryGapIsListed CellsInPlace
  NothingOutdated ShortOnlyIfSourceShrank ErrorBudget
PROPERTY ResumedPrefixIsKept
CHECK_DEADLOCK FALSE

\* The custody log, the refinement, and that every call ends.
CONSTANTS
  SourceCells = 3
  ChunkSizes = {2}
  MaxReadErrorChunks = 1
  IsNetworkSource = TRUE
  MaxRuns = 2
  MaxSourceChanges = 0
SPECIFICATION FairSpec
INVARIANTS CustodyHasNoGap CustodyAgreesWithLog
PROPERTIES KeepsPromise AcquisitionEnds
CHECK_DEADLOCK FALSE

CONSTANTS
  SourceCells = 1
  ChunkSizes = {1}
  MaxReadErrorChunks = 1
  IsNetworkSource = TRUE
  MaxRuns = 2
  MaxSourceChanges = 0
  MaxAttempts = 3
  MaxRequests = 2
SPECIFICATION RemoteSpec
INVARIANT WorksOnAgreement
PROPERTY HandshakeEnds
CHECK_DEADLOCK FALSE

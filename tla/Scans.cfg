\* Sources are read, probed, listed and carved.
SPECIFICATION Spec
CONSTANTS
  ProbeVolumes <- MCProbeVolumes
  FatVolumes <- MCFatVolumes
  QuickVolumes <- MCQuickVolumes
  EndVolumes <- MCEndVolumes
  Records <- MCRecords
  Garbage <- MCGarbage
  Inputs <- MCInputs
  CarveSources <- MCCarveSources
  DefaultPrefix = 32768
  MaxPrefix = 49152
  Reserved = 7
  EOC = 9
  MaxClusters = 3
  MaxEntries = 5
  NameKey <- LowerCase
  EmptyLimit = 2
  MaxSegments = 4
  MaxNumber = 8
  EndSegments = 2
  LongBytes = 2
  DefaultScan = 5
  MaxScan = 7
  Chunk = 4
  Overlap = 2
  Fallback = 3
  ScanDefault = 4
  Smallest = 1
INVARIANTS
  VolumesAreListed WholeTree NothingPassedOver PathsAgree RecordsAreGenuine
  ReadsTheRange CarvedIsReal
PROPERTY Returned
CHECK_DEADLOCK FALSE

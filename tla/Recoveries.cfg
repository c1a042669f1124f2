\* Deleted files of every file system are recovered.
SPECIFICATION Spec
CONSTANTS
  ExtFiles <- MCExtFiles
  FatFiles <- MCFatFiles
  NtfsVolumes <- MCNtfsVolumes
  Images <- MCImages
  Direct = 2
  Fan = 2
  Flag = 4
  EOC = 8
  MaxRecords = 4
  MaxEmpty = 2
  MaxExponent = 4
INVARIANTS MarksAreRight InPlace NothingForeign NothingDenied
PROPERTIES KeepsContract Returned
CHECK_DEADLOCK FALSE

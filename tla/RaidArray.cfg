CONSTANTS
  MinStripe = 1
  MaxStripe = 4
  DefaultStripe = 2
  MaxChunk = 2
  Limit = 8
  Requests <- MCRequests
  SampleCounts = {2, 4}
SPECIFICATION Spec
INVARIANTS TypeOK ImageMatchesMap EachBlockOnce ArrayIsWhole FullMarksMeanWhole
CHECK_DEADLOCK FALSE

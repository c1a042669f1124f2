CONSTANTS
  MinStripe = 1
  MaxStripe = 4
  DefaultStripe = 2
  MaxChunk = 2
  Limit = 8
  Requests <- SwappedRequests
  SampleCounts = {2, 4}
SPECIFICATION Spec
INVARIANT OrderIsDetected
CHECK_DEADLOCK FALSE

CONSTANTS
  c1 = c1
  c2 = c2
  c3 = c3
  Callers <- ThreeCallers
  MemberLists <- Lists
  MaxSessions = 5
  MaxArtifacts = 2
  NoArtifact = NoArtifact
SYMMETRY CallerSymmetry
SPECIFICATION Spec
INVARIANTS TypeOK OpenIsBacked NothingLeaks ClosedOnce
PROPERTY NeverReopened
CHECK_DEADLOCK FALSE

SPECIFICATION Spec
CONSTANTS
  Work <- TwoTurns
  Claude <- OnClaude
  Ceiling = 1
  MaxSpend = 1
  MaxAttempts = 3
  MaxResumes = 2
  MaxFaults = 1
INVARIANTS
  NothingChargedTwice
PROPERTIES
  NothingObservedIsLost
  NoTurnOverTheCeiling
CHECK_DEADLOCK FALSE

SPECIFICATION Spec
CONSTANTS
  NumTasks <- MCNumTasks
  Limit <- MCLimit
  MaxTurns <- MCMaxTurns
\* The group returns once and is over.
CHECK_DEADLOCK FALSE
INVARIANTS
  StopReachesEverything
  NothingOutlivesTheGroup
  CancelledIsAPersons
PROPERTIES
  OnlyAChildHoldsTheRound

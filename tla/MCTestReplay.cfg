SPECIFICATION FairSpec
CONSTANTS
  f1 = f1
  f2 = f2
  Files <- MCFiles
  MaxVersion = 2
\* The run may have no version left to write.
CHECK_DEADLOCK FALSE
INVARIANTS
  NoTurnReadsSwapped
  RestoreIsPossible
PROPERTIES
  ReplayEnds
  ReplayIsInvisible

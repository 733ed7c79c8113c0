SPECIFICATION Spec
CONSTANTS
  p1 = p1
  p2 = p2
  p3 = p3
  r1 = r1
  r2 = r2
  here = here
  there = there
  Procs <- MCProcs
  Runs <- MCRuns
  Hosts <- MCHosts
  host <- TwoHosts
  Worktrees <- MCWorktrees
  Existing <- MCExisting
  Forcers <- MCForcers
\* Every command ends.
CHECK_DEADLOCK FALSE
INVARIANTS
  OneRunPerCheckout
  ALockMeansLiveOrKilled
  EndingsAreTold

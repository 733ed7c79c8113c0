SPECIFICATION HostSpec
CONSTANTS
    MaxRequests = 6
    MaxWire = 3
    MaxSteps = 3
INVARIANTS StaleAnswersDecideNothing PauseIsOfThisRun
PROPERTY LeavesWhenTold
\* A host that has left does nothing more.
CHECK_DEADLOCK FALSE

SPECIFICATION Spec
CONSTANTS
    ra = ra
    rb = rb
    rc = rc
    main = main
    reviewClaude = reviewClaude
    judge = judge
    Runs <- MCThree
    Root = ra
    ClientSlots <- MCMainOnly
    ProviderSlots <- MCJudge
    Main = main
    Persisting <- MCAll
    MaxIds = 5
    MaxTurns = 2
    MaxFaults = 1
    MaxAlive = 1
INVARIANT OwedForksAreKept
\* Ids and turns are bounded.
CHECK_DEADLOCK FALSE

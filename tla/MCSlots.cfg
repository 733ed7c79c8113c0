SPECIFICATION Spec
CONSTANTS
    ra = ra
    rb = rb
    rc = rc
    main = main
    reviewClaude = reviewClaude
    judge = judge
    Runs <- MCTwo
    Root = ra
    ClientSlots <- MCClient
    ProviderSlots <- MCJudge
    Main = main
    Persisting <- MCAll
    MaxIds = 4
    MaxTurns = 2
    MaxFaults = 2
    MaxAlive = 1
INVARIANTS NoIdIsSpentTwice ConversationsAreNotShared TurnsAreBriefed
\* Ids and turns are bounded.
CHECK_DEADLOCK FALSE

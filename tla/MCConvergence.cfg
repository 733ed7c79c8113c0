SPECIFICATION HistorySpec
CONSTANTS
    Claims <- MCClaims
    Alike <- MCAlike
    Rounds <- MCRounds
    OlderHistories <- MCOlder
    OscillationThreshold = 3
    ConvergenceWindow = 2
    Caps = {4, 5}
    TrendFloor = 4
    StallAfter = 2
    MaxRecords = 5
INVARIANTS GreedyPairsOff TrendIsStuck StallIsNews
\* The history is bounded.
CHECK_DEADLOCK FALSE

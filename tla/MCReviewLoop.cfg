CONSTANTS
    PlanRounds = 1
    MaxReviewRounds = 2
    MaxVerifyRounds = 2
    TrendNeeds = 2
    Holds <- MCHolds
    PersonEdits = TRUE
    MaxRestarts = 3
SPECIFICATION FairSpec
INVARIANTS DoneIsVerified DoneIsApproved RoundsAreBounded FixAnswersItsReview
PROPERTIES ReviewEnds KeepsThePhases
CHECK_DEADLOCK FALSE

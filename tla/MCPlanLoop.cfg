CONSTANTS
    qBlocking = qBlocking
    qAdvisory = qAdvisory
    qStall = qStall
    Questions <- MCQuestions
    Blocking <- MCBlocking
    StallQuestion = qStall
    Settings <- MCSettings
    AnswerNonBlocking = TRUE
    MaxQuestionRounds = 1
    Holds = {"plan-round", "question-round", "plan-approved"}
    MaxRestarts = 2
SPECIFICATION FairSpec
INVARIANTS AnswersAreDelivered DeclinedReachesAPerson ApprovalIsOfThisDraft SteppedBackBeforeAsking
PROPERTIES FindingsAreConsumed PlanningEnds
CHECK_DEADLOCK FALSE

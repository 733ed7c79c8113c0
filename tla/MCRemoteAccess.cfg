CONSTANTS
    p1 = p1
    p2 = p2
    Phones = {p1, p2}
    Nobody = Nobody
    Relays = {"n0", "own"}
    FirstRelay = "n0"
    Endpoints <- MCEndpoints
    Budgets <- MCBudgets
SPECIFICATION Spec
INVARIANTS
    RemovedIsShutOut
    EndpointMatchesSwitch
    AnswerReachesItsPhone
PROPERTIES
    AskerHearsFirst
    SwitchSettles
CHECK_DEADLOCK FALSE

---------------------------- MODULE MCPlanLoop ----------------------------
(* Small instances of PlanLoop: few rounds and a blocking and an advisory  *)
(* question, or enough rounds for two stalls and no other question.        *)
EXTENDS PlanLoop
CONSTANTS qBlocking, qAdvisory, qStall
MCQuestions == {qBlocking, qAdvisory}
MCBlocking == {qBlocking}
Asking(on, only) == [answerer |-> on, planOnly |-> only, drafts |-> MCQuestions,
                     maxPlanRounds |-> 2, trendNeeds |-> 2, stallAfter |-> 0]
Stalling == [answerer |-> TRUE, planOnly |-> FALSE, drafts |-> {},
             maxPlanRounds |-> 6, trendNeeds |-> 6, stallAfter |-> 2]
MCSettings == {Asking(TRUE, TRUE), Asking(TRUE, FALSE), Asking(FALSE, TRUE), Stalling}
============================================================================

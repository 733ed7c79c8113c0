---------------------------- MODULE Rounds_proofs ----------------------------
(***************************************************************************)
(* Proofs about the rounds of a loop: the review loop that takes them, for *)
(* every value of the caps, the boundaries that may stop a run and the     *)
(* number of restarts, and the judgement of one round after another, for   *)
(* histories of any length over any claims and any likeness of wordings.   *)
(***************************************************************************)
EXTENDS ReviewLoop, Convergence, FiniteSetTheorems, WellFoundedInduction, TLAPS

-----------------------------------------------------------------------------
(* The review loop.  The invariant that is inductive adds to the           *)
(* properties where the process must be for them to stay true: what a fix  *)
(* in flight says of the pending findings, what the review's verdict says  *)
(* of the final round, and how many rounds a resume may still take.        *)


\* A round in flight owes findings, and answers the review that made them;
\* findings nobody has begun to fix were made at the current round.
FlightMatchesFindings ==
    /\ run.fixInFlight # NoFix =>
          /\ Owed(run)
          /\ run.fixInFlight.round = run.reviewRound
          /\ run.reviewRound = run.pending.at + 1
    /\ run.fixInFlight = NoFix /\ Owed(run) => run.pending.at = run.reviewRound
    /\ pc \in {"fix", "final-fix"} => Owed(run) /\ run.fixInFlight # NoFix
    /\ pc \in {"gate", "review", "commit", "hold", "confirm", "verify-fix"} => ~Owed(run)
    /\ pc = "judge" => job = run.pending.verdict /\ run.fixInFlight = NoFix

\* Only a review the gate passed leads to the final round or to the end.
VerdictDecides ==
    /\ pc = "judge" => job = seen.verdict
    /\ pc \in {"review", "judge"} => ~run.finalFixDone
    /\ run.finalFixDone => Passes(seen.verdict)
    /\ pc = "confirm" => run.finalFixDone
    /\ pc = "finished" => Passes(seen.verdict)
    /\ run.phase = "complete" => pc = "done" /\ Passes(seen.verdict)

\* Nothing touches the tree between a gate pass and what relies on it.
GateCovers == pc \in {"review", "judge", "confirm", "finished", "done"} => seen.gated

Budget == MaxReviewRounds - 1 + (IF run.finalFixDone THEN 1 ELSE 0) + seen.restarts

\* Findings a process found waiting leave room for the one round they take.
RoundsFit ==
    /\ run.verifyRound < MaxVerifyRounds
    /\ run.reviewRound <= Budget
    /\ pc \in {"start", "retire", "loop"} /\ Owed(run) /\ run.fixInFlight = NoFix =>
          run.reviewRound + 1 <= Budget

\* Findings belong to the reviewing phase, and so does everything after the commit.
InPhase ==
    /\ run.phase = "implementing" =>
          ~Owed(run) /\ pc \in {"start", "implement", "escalated", "retire", "off"}
    /\ pc = "implement" => run.phase = "implementing"

IInv == TypeOK /\ InPhase /\ FlightMatchesFindings /\ VerdictDecides /\ GateCovers /\ RoundsFit

\* A round marked in flight, its number and the final round's flag.
LEMMA FlightTypes ==
    ASSUME NEW r \in RunRecord, NEW n \in Nat, NEW f \in [round : Nat, final : BOOLEAN],
           NEW b \in BOOLEAN
    PROVE  /\ [r EXCEPT !.reviewRound = n, !.fixInFlight = f] \in RunRecord
           /\ [r EXCEPT !.reviewRound = n, !.finalFixDone = b, !.fixInFlight = f] \in RunRecord
BY DEF RunRecord

\* What the updates of the record keep.
LEMMA UpdatesKeepTypes ==
    ASSUME NEW r \in RunRecord
    PROVE  /\ WithRecord(r) \in RunRecord
           /\ WithVerifyRecord(r) \in RunRecord
           /\ VerifyStarted(r) \in RunRecord
           /\ FixStarted(r) \in RunRecord
           /\ FinalStarted(r) \in RunRecord
           /\ \A v \in Verdicts : Recorded(r, v) \in RunRecord
<1> USE CapAssumption DEF RunRecord, More
<1>1. WithRecord(r) \in RunRecord BY DEF WithRecord
<1>2. WithVerifyRecord(r) \in RunRecord BY DEF WithVerifyRecord
<1>3. VerifyStarted(r) \in RunRecord BY <1>2 DEF VerifyStarted
<1>4. FixStarted(r) \in RunRecord
    <2> DEFINE again == r.fixInFlight # NoFix /\ ~r.fixInFlight.final /\ r.fixInFlight.round = r.reviewRound
               next == IF again THEN r.reviewRound ELSE r.reviewRound + 1
    <2>1. next \in Nat OBVIOUS
    <2> HIDE DEF next
    <2>2. [r EXCEPT !.reviewRound = next, !.fixInFlight = [round |-> next, final |-> FALSE]] \in RunRecord
        BY <2>1, FlightTypes
    <2> QED BY <2>2 DEF FixStarted, next
<1>5. FinalStarted(r) \in RunRecord
    <2>1. r.reviewRound + 1 \in Nat OBVIOUS
    <2> QED BY <2>1, FlightTypes DEF FinalStarted
<1>6. ASSUME NEW v \in Verdicts PROVE Recorded(r, v) \in RunRecord
    <2> DEFINE p == IF v = "none" THEN NoFindings ELSE [verdict |-> v, at |-> r.reviewRound]
    <2>1. p \in [verdict : Verdicts, at : Nat] BY DEF NoFindings, Verdicts
    <2> HIDE DEF p
    <2>2. [r EXCEPT !.pending = p] \in RunRecord BY <2>1
    <2> QED BY <2>2 DEF Recorded, p
<1> QED BY <1>1, <1>2, <1>3, <1>4, <1>5, <1>6

\* Types are kept by every step on their own.
LEMMA StepTypeOK == TypeOK /\ [Next]_vars => TypeOK'
<1> SUFFICES ASSUME TypeOK, [Next]_vars PROVE TypeOK'
    OBVIOUS
<1> USE DEF TypeOK, Boundaries, Pcs, Turns, WriteTurns, Throw, Stop, Touched, Restarted
<1>1. CASE WriteNeedsInput BY <1>1 DEF WriteNeedsInput, RunRecord, Memory, Verdicts, Phases, NoFindings, NoFix
<1>2. CASE RetireFile BY <1>2 DEF RetireFile, RunRecord, Memory, Verdicts, Phases, NoFindings, NoFix
<1>3. CASE StartImplement BY <1>3 DEF StartImplement, RunRecord, Memory, Verdicts, Phases, NoFindings, NoFix
<1>4. CASE Implement BY <1>4 DEF Implement, RunRecord, Memory, Verdicts, Phases, NoFindings, NoFix
<1>5. CASE CommitFails BY <1>5 DEF CommitFails, RunRecord, Memory, Verdicts, Phases, NoFindings, NoFix
<1>6. CASE Commit BY <1>6 DEF Commit, FreshHistories, RunRecord, Memory, Verdicts, Phases, NoFindings, NoFix
<1>7. CASE HoldPasses BY <1>7 DEF HoldPasses, RunRecord, Memory, Verdicts, Phases, NoFindings, NoFix
<1>8. CASE HoldStops BY <1>8 DEF HoldStops, RunRecord, Memory, Verdicts, Phases, NoFindings, NoFix
<1>9. CASE StartReviewing BY <1>9 DEF StartReviewing, RunRecord, Memory, Verdicts, Phases, NoFindings, NoFix
<1>10. CASE FixCarried
    <2>1. run' \in RunRecord BY <1>10, UpdatesKeepTypes DEF FixCarried, FinalInFlight
    <2>2. seen' \in Memory /\ job' \in Verdicts \cup Boundaries BY <1>10 DEF FixCarried, FinalInFlight, Memory, Verdicts
    <2> QED BY <1>10, <2>1, <2>2 DEF FixCarried, FinalInFlight
<1>11. CASE FinishCarried BY <1>11 DEF FinishCarried, FinalInFlight, RunRecord, Memory, Verdicts, Phases, NoFindings, NoFix
<1>12. CASE NothingCarried BY <1>12 DEF NothingCarried, AfterFindings, RunRecord, Memory, Verdicts, Phases, NoFindings, NoFix
<1>13. CASE GatePasses BY <1>13 DEF GatePasses, RunRecord, Memory, Verdicts, Phases, NoFindings, NoFix
<1>14. CASE GateUnlaunchable BY <1>14 DEF GateUnlaunchable, RunRecord, Memory, Verdicts, Phases, NoFindings, NoFix
<1>15. CASE GateFailsForGood
    <2>1. run' \in RunRecord BY <1>15, UpdatesKeepTypes DEF GateFailsForGood
    <2>2. seen' \in Memory /\ job' \in Verdicts \cup Boundaries BY <1>15 DEF GateFailsForGood, Memory, Verdicts
    <2> QED BY <1>15, <2>1, <2>2 DEF GateFailsForGood
<1>16. CASE GateFails
    <2>1. run' \in RunRecord BY <1>16, UpdatesKeepTypes DEF GateFails, VerifyAtCap
    <2>2. seen' \in Memory /\ job' \in Verdicts \cup Boundaries BY <1>16 DEF GateFails, VerifyAtCap, Memory, Verdicts
    <2> QED BY <1>16, <2>1, <2>2 DEF GateFails, VerifyAtCap
<1>17. CASE VerifyFix BY <1>17 DEF VerifyFix, RunRecord, Memory, Verdicts, Phases, NoFindings, NoFix
<1>18. CASE Review
    <2>1. run' \in RunRecord BY <1>18, UpdatesKeepTypes DEF Review
    <2>2. seen' \in Memory /\ job' \in Verdicts \cup Boundaries BY <1>18 DEF Review, Memory, Verdicts
    <2> QED BY <1>18, <2>1, <2>2 DEF Review
<1>19. CASE ReviewHalts BY <1>19 DEF ReviewHalts, RunRecord, Memory, Verdicts, Phases, NoFindings, NoFix
<1>20. CASE ReviewApproved BY <1>20 DEF ReviewApproved, RunRecord, Memory, Verdicts, Phases, NoFindings, NoFix
<1>21. CASE StartFinalFix
    <2>1. run' \in RunRecord BY <1>21, UpdatesKeepTypes DEF StartFinalFix, TakesFinalFix
    <2>2. seen' \in Memory /\ job' \in Verdicts \cup Boundaries BY <1>21 DEF StartFinalFix, TakesFinalFix, Memory, Verdicts
    <2> QED BY <1>21, <2>1, <2>2 DEF StartFinalFix, TakesFinalFix
<1>22. CASE GuardStops
    <2>1. run' \in RunRecord BY <1>22, UpdatesKeepTypes DEF GuardStops
    <2>2. seen' \in Memory /\ job' \in Verdicts \cup Boundaries BY <1>22 DEF GuardStops, Memory, Verdicts
    <2> QED BY <1>22, <2>1, <2>2 DEF GuardStops
<1>23. CASE GuardPasses
    <2>1. run' \in RunRecord BY <1>23, UpdatesKeepTypes DEF GuardPasses, AtCap
    <2>2. seen' \in Memory /\ job' \in Verdicts \cup Boundaries BY <1>23 DEF GuardPasses, AtCap, Memory, Verdicts
    <2> QED BY <1>23, <2>1, <2>2 DEF GuardPasses, AtCap
<1>24. CASE FixTurn BY <1>24 DEF FixTurn, Consumed, RunRecord, Memory, Verdicts, Phases, NoFindings, NoFix
<1>25. CASE Confirm BY <1>25 DEF Confirm, RunRecord, Memory, Verdicts, Phases, NoFindings, NoFix
<1>26. CASE Complete BY <1>26 DEF Complete, RunRecord, Memory, Verdicts, Phases, NoFindings, NoFix
<1>27. CASE TurnFails BY <1>27 DEF TurnFails, RunRecord, Memory, Verdicts, Phases, NoFindings, NoFix
<1>28. CASE TurnEscalates BY <1>28 DEF TurnEscalates, RunRecord, Memory, Verdicts, Phases, NoFindings, NoFix
<1>29. CASE Killed BY <1>29 DEF Killed, RunRecord, Memory, Verdicts, Phases, NoFindings, NoFix
<1>30. CASE TreeEdited BY <1>30 DEF TreeEdited, RunRecord, Memory, Verdicts, Phases, NoFindings, NoFix
<1>31. CASE ResumePlain BY <1>31 DEF ResumePlain, RunRecord, Memory, Verdicts, Phases, NoFindings, NoFix
<1>32. CASE ResumeWithEdits BY <1>32 DEF ResumeWithEdits, Moved, Raised, RunRecord, Memory, Verdicts, Phases, NoFindings, NoFix
<1>33. CASE UNCHANGED vars BY <1>33 DEF vars, RunRecord, Memory, Verdicts, Phases, NoFindings, NoFix
<1> QED BY <1>1, <1>2, <1>3, <1>4, <1>5, <1>6, <1>7, <1>8, <1>9, <1>10, <1>11, <1>12, <1>13, <1>14,
         <1>15, <1>16, <1>17, <1>18, <1>19, <1>20, <1>21, <1>22, <1>23, <1>24, <1>25, <1>26, <1>27,
         <1>28, <1>29, <1>30, <1>31, <1>32, <1>33 DEF Next, Step

LEMMA InitIInv == Init => IInv
BY CapAssumption
   DEF Init, IInv, TypeOK, RunRecord, Memory, Phases, Verdicts, Boundaries, Pcs, Turns, WriteTurns,
       InPhase, FlightMatchesFindings, VerdictDecides, GateCovers, RoundsFit, Budget, Owed, Passes,
       NoFix, NoFindings

LEMMA StepIInv == IInv /\ [Next]_vars => IInv'
<1> SUFFICES ASSUME IInv, [Next]_vars PROVE IInv'
    OBVIOUS
<1>0. TypeOK' BY StepTypeOK DEF IInv
<1> USE <1>0, CapAssumption
    DEF IInv, TypeOK, RunRecord, Memory, Phases, Verdicts, Boundaries, Pcs, Turns, WriteTurns,
       InPhase, FlightMatchesFindings, VerdictDecides, GateCovers, RoundsFit, Budget, Owed, Passes,
       NoFix, NoFindings, Throw, Stop, Touched, CanRestart, Restarted
<1>1. CASE WriteNeedsInput BY <1>1 DEF WriteNeedsInput
<1>2. CASE RetireFile BY <1>2 DEF RetireFile
<1>3. CASE StartImplement BY <1>3 DEF StartImplement
<1>4. CASE Implement
    <2>1. InPhase' BY <1>4 DEF Implement
    <2>2. FlightMatchesFindings' BY <1>4 DEF Implement
    <2>3. VerdictDecides' BY <1>4 DEF Implement
    <2>4. GateCovers' BY <1>4 DEF Implement
    <2>5. RoundsFit' BY <1>4 DEF Implement
    <2> QED BY <2>1, <2>2, <2>3, <2>4, <2>5
<1>5. CASE CommitFails BY <1>5 DEF CommitFails
<1>6. CASE Commit
    <2>1. InPhase' BY <1>6 DEF Commit, FreshHistories
    <2>2. FlightMatchesFindings' BY <1>6 DEF Commit, FreshHistories
    <2>3. VerdictDecides' BY <1>6 DEF Commit, FreshHistories
    <2>4. GateCovers' BY <1>6 DEF Commit, FreshHistories
    <2>5. RoundsFit' BY <1>6 DEF Commit, FreshHistories
    <2> QED BY <2>1, <2>2, <2>3, <2>4, <2>5
<1>7. CASE HoldPasses BY <1>7 DEF HoldPasses
<1>8. CASE HoldStops BY <1>8 DEF HoldStops
<1>9. CASE StartReviewing BY <1>9 DEF StartReviewing
<1>10. CASE FixCarried
    <2>1. InPhase' BY <1>10 DEF FixCarried, FixStarted, FinalInFlight
    <2>2. FlightMatchesFindings' BY <1>10 DEF FixCarried, FixStarted, FinalInFlight
    <2>3. VerdictDecides' BY <1>10 DEF FixCarried, FixStarted, FinalInFlight
    <2>4. GateCovers' BY <1>10 DEF FixCarried, FixStarted, FinalInFlight
    <2>5. RoundsFit' BY <1>10 DEF FixCarried, FixStarted, FinalInFlight
    <2> QED BY <2>1, <2>2, <2>3, <2>4, <2>5
<1>11. CASE FinishCarried BY <1>11 DEF FinishCarried, FinalInFlight
<1>12. CASE NothingCarried BY <1>12 DEF NothingCarried, AfterFindings
<1>13. CASE GatePasses BY <1>13 DEF GatePasses
<1>14. CASE GateUnlaunchable BY <1>14 DEF GateUnlaunchable
<1>15. CASE GateFailsForGood BY <1>15 DEF GateFailsForGood, WithVerifyRecord, More
<1>16. CASE GateFails
    <2>1. InPhase' BY <1>16 DEF GateFails, VerifyAtCap, VerifyStarted, WithVerifyRecord, More
    <2>2. FlightMatchesFindings' BY <1>16 DEF GateFails, VerifyAtCap, VerifyStarted, WithVerifyRecord, More
    <2>3. VerdictDecides' BY <1>16 DEF GateFails, VerifyAtCap, VerifyStarted, WithVerifyRecord, More
    <2>4. GateCovers' BY <1>16 DEF GateFails, VerifyAtCap, VerifyStarted, WithVerifyRecord, More
    <2>5. RoundsFit' BY <1>16 DEF GateFails, VerifyAtCap, VerifyStarted, WithVerifyRecord, More
    <2> QED BY <2>1, <2>2, <2>3, <2>4, <2>5
<1>17. CASE VerifyFix BY <1>17 DEF VerifyFix
<1>18. CASE Review
    <2>1. InPhase' BY <1>18 DEF Review, Recorded
    <2>2. FlightMatchesFindings' BY <1>18 DEF Review, Recorded
    <2>3. VerdictDecides' BY <1>18 DEF Review, Recorded
    <2>4. GateCovers' BY <1>18 DEF Review, Recorded
    <2>5. RoundsFit' BY <1>18 DEF Review, Recorded
    <2> QED BY <2>1, <2>2, <2>3, <2>4, <2>5
<1>19. CASE ReviewHalts BY <1>19 DEF ReviewHalts
<1>20. CASE ReviewApproved BY <1>20 DEF ReviewApproved
<1>21. CASE StartFinalFix
    <2>1. InPhase' BY <1>21 DEF StartFinalFix, TakesFinalFix, FinalStarted
    <2>2. FlightMatchesFindings' BY <1>21 DEF StartFinalFix, TakesFinalFix, FinalStarted
    <2>3. VerdictDecides' BY <1>21 DEF StartFinalFix, TakesFinalFix, FinalStarted
    <2>4. GateCovers' BY <1>21 DEF StartFinalFix, TakesFinalFix, FinalStarted
    <2>5. RoundsFit' BY <1>21 DEF StartFinalFix, TakesFinalFix, FinalStarted
    <2> QED BY <2>1, <2>2, <2>3, <2>4, <2>5
<1>22. CASE GuardStops BY <1>22 DEF GuardStops, WithRecord, More
<1>23. CASE GuardPasses
    <2>1. InPhase' BY <1>23 DEF GuardPasses, AtCap, FixStarted, WithRecord, More
    <2>2. FlightMatchesFindings' BY <1>23 DEF GuardPasses, AtCap, FixStarted, WithRecord, More
    <2>3. VerdictDecides' BY <1>23 DEF GuardPasses, AtCap, FixStarted, WithRecord, More
    <2>4. GateCovers' BY <1>23 DEF GuardPasses, AtCap, FixStarted, WithRecord, More
    <2>5. RoundsFit' BY <1>23 DEF GuardPasses, AtCap, FixStarted, WithRecord, More
    <2> QED BY <2>1, <2>2, <2>3, <2>4, <2>5
<1>24. CASE FixTurn
    <2>1. InPhase' BY <1>24 DEF FixTurn, Consumed
    <2>2. FlightMatchesFindings' BY <1>24 DEF FixTurn, Consumed
    <2>3. VerdictDecides' BY <1>24 DEF FixTurn, Consumed
    <2>4. GateCovers' BY <1>24 DEF FixTurn, Consumed
    <2>5. RoundsFit' BY <1>24 DEF FixTurn, Consumed
    <2> QED BY <2>1, <2>2, <2>3, <2>4, <2>5
<1>25. CASE Confirm BY <1>25 DEF Confirm
<1>26. CASE Complete BY <1>26 DEF Complete
<1>27. CASE TurnFails
    <2>1. InPhase' BY <1>27 DEF TurnFails
    <2>2. FlightMatchesFindings' BY <1>27 DEF TurnFails
    <2>3. VerdictDecides' BY <1>27 DEF TurnFails
    <2>4. GateCovers' BY <1>27 DEF TurnFails
    <2>5. RoundsFit' BY <1>27 DEF TurnFails
    <2> QED BY <2>1, <2>2, <2>3, <2>4, <2>5
<1>28. CASE TurnEscalates
    <2>1. InPhase' BY <1>28 DEF TurnEscalates
    <2>2. FlightMatchesFindings' BY <1>28 DEF TurnEscalates
    <2>3. VerdictDecides' BY <1>28 DEF TurnEscalates
    <2>4. GateCovers' BY <1>28 DEF TurnEscalates
    <2>5. RoundsFit' BY <1>28 DEF TurnEscalates
    <2> QED BY <2>1, <2>2, <2>3, <2>4, <2>5
<1>29. CASE Killed
    <2>1. InPhase' BY <1>29 DEF Killed
    <2>2. FlightMatchesFindings' BY <1>29 DEF Killed
    <2>3. VerdictDecides' BY <1>29 DEF Killed
    <2>4. GateCovers' BY <1>29 DEF Killed
    <2>5. RoundsFit' BY <1>29 DEF Killed
    <2> QED BY <2>1, <2>2, <2>3, <2>4, <2>5
<1>30. CASE TreeEdited
    <2>1. InPhase' BY <1>30 DEF TreeEdited
    <2>2. FlightMatchesFindings' BY <1>30 DEF TreeEdited
    <2>3. VerdictDecides' BY <1>30 DEF TreeEdited
    <2>4. GateCovers' BY <1>30 DEF TreeEdited
    <2>5. RoundsFit' BY <1>30 DEF TreeEdited
    <2> QED BY <2>1, <2>2, <2>3, <2>4, <2>5
<1>31. CASE ResumePlain BY <1>31 DEF ResumePlain
<1>32. CASE ResumeWithEdits BY <1>32 DEF ResumeWithEdits, Moved, Raised
<1>33. CASE UNCHANGED vars BY <1>33 DEF vars
<1> QED BY <1>1, <1>2, <1>3, <1>4, <1>5, <1>6, <1>7, <1>8, <1>9, <1>10, <1>11, <1>12, <1>13, <1>14,
         <1>15, <1>16, <1>17, <1>18, <1>19, <1>20, <1>21, <1>22, <1>23, <1>24, <1>25, <1>26, <1>27,
         <1>28, <1>29, <1>30, <1>31, <1>32, <1>33 DEF Next, Step

\* The invariant holds of every behaviour.
LEMMA Invariance == Spec => []IInv
BY InitIInv, StepIInv, PTL DEF Spec

\* Every field of the run keeps its shape, whatever is moved, raised or killed.
THEOREM TypeCorrect == Spec => []TypeOK
<1>1. IInv => TypeOK BY DEF IInv
<1> QED BY <1>1, Invariance, PTL

\* No run completes on a tree that changed since its gates last passed, for any
\* caps and any number of kills, edits and resumes (reviewPhase, runGate).
THEOREM CompletionIsVerified == Spec => []DoneIsVerified
<1>1. IInv => DoneIsVerified BY DEF IInv, VerdictDecides, GateCovers, DoneIsVerified
<1> QED BY <1>1, Invariance, PTL

\* No run completes on a review its gate did not pass (reviewPhase, runFinalFix).
THEOREM CompletionIsApproved == Spec => []DoneIsApproved
<1>1. IInv => DoneIsApproved BY DEF IInv, VerdictDecides, DoneIsApproved
<1> QED BY <1>1, Invariance, PTL

\* loop.maxVerifyRounds and loop.maxReviewRounds bound the rounds of a run and of
\* all its resumes (guardProgress, runFixRound).
THEOREM CapsHold == Spec => []RoundsAreBounded
<1>1. IInv => RoundsAreBounded
      BY CapAssumption DEF IInv, RoundsFit, Budget, RoundsAreBounded, TypeOK, RunRecord, Memory
<1> QED BY <1>1, Invariance, PTL

\* A fix turn carries the number of the review it answers, however often it was
\* begun (fixInFlight, runFixRound, runFinalFix).
THEOREM RetriesKeepTheirRound == Spec => []FixAnswersItsReview
<1>1. IInv => FixAnswersItsReview
      BY DEF IInv, FlightMatchesFindings, FixAnswersItsReview
<1> QED BY <1>1, Invariance, PTL

\* Every step of the review loop is a step of the abstract run or leaves it alone.
LEMMA StepSimulates ==
    ASSUME IInv, [Next]_vars
    PROVE  Abstract!Next \/ UNCHANGED <<run.phase, FALSE, pc # "off">>
<1> USE DEF IInv, InPhase, VerdictDecides, TypeOK, RunRecord, Phases
<1>1. CASE Implement \/ Complete
    <2>1. (pc # "off") /\ (pc' # "off")
        BY <1>1 DEF Implement, Complete
    <2>2. \/ run.phase = "implementing" /\ run'.phase = "reviewing"
          \/ run.phase = "reviewing" /\ run'.phase = "complete"
        BY <1>1 DEF Implement, Complete
    <2>3. Abstract!Advance
        BY <2>1, <2>2 DEF Abstract!Advance, Abstract!Following
    <2> QED BY <2>3 DEF Abstract!Next
<1>2. CASE WriteNeedsInput \/ CommitFails \/ TurnFails \/ Killed
    <2>1. (pc # "off") /\ pc' = "off" /\ run' = run
        BY <1>2 DEF WriteNeedsInput, CommitFails, TurnFails, Killed, Stop, Turns, WriteTurns
    <2>2. Abstract!Stop
        BY <2>1 DEF Abstract!Stop
    <2> QED BY <2>2 DEF Abstract!Next
<1>3. CASE ResumePlain \/ ResumeWithEdits
    <2>1. pc = "off" /\ pc' # "off" /\ run.phase # "complete" /\ run'.phase = run.phase
        BY <1>3 DEF ResumePlain, ResumeWithEdits, CanRestart
    <2>2. Abstract!Resume
        BY <2>1 DEF Abstract!Resume, Abstract!Following
    <2> QED BY <2>2 DEF Abstract!Next
<1>4. CASE RetireFile \/ StartImplement \/ Commit \/ HoldPasses \/ HoldStops \/ StartReviewing
    BY <1>4 DEF RetireFile, StartImplement, Commit, FreshHistories, HoldPasses, HoldStops,
       StartReviewing, Throw
<1>5. CASE FixCarried \/ FinishCarried \/ NothingCarried \/ FixTurn \/ Confirm
    BY <1>5 DEF FixCarried, FixStarted, FinishCarried, NothingCarried, AfterFindings, FixTurn,
       Consumed, Confirm
<1>6. CASE GatePasses \/ GateUnlaunchable \/ GateFailsForGood \/ GateFails \/ VerifyFix
    BY <1>6 DEF GatePasses, GateUnlaunchable, GateFailsForGood, GateFails, VerifyFix,
       VerifyStarted, WithVerifyRecord, Throw
<1>7. CASE Review \/ ReviewHalts \/ ReviewApproved \/ StartFinalFix
    BY <1>7 DEF Review, Recorded, ReviewHalts, ReviewApproved, StartFinalFix, FinalStarted,
       Throw
<1>8. CASE GuardStops \/ GuardPasses
    BY <1>8 DEF GuardStops, GuardPasses, FixStarted, WithRecord, Throw
<1>9. CASE TurnEscalates \/ TreeEdited \/ UNCHANGED vars
    BY <1>9 DEF TurnEscalates, Turns, WriteTurns, TreeEdited, Throw, vars
<1> QED BY <1>1, <1>2, <1>3, <1>4, <1>5, <1>6, <1>7, <1>8, <1>9 DEF Next, Step

\* The loop implements the abstract run: the phase only goes forward, a process
\* that has the run is the one that moves it, and no kill, failed commit or
\* resume takes it back (runPhases, resumePhase).
THEOREM ImplementsRunPhases == Spec => KeepsThePhases
<1>1. Init => Abstract!Init
    BY DEF Init, Abstract!Init
<1>2. IInv /\ [Next]_vars => [Abstract!Next]_<<run.phase, FALSE, pc # "off">>
    BY StepSimulates
<1> QED BY <1>1, <1>2, Invariance, PTL DEF Spec, KeepsThePhases, Abstract!Spec

-----------------------------------------------------------------------------
(* Why the loop ends, short of fairness: a count of steps that every step   *)
(* of a process spends, though review rounds and verify fixes alternate.   *)

\* How far a process is from its end when no more rounds begin.
Position ==
    CASE pc \in {"off", "done"} -> 0
      [] pc \in {"escalated", "finished"} -> 1
      [] pc \in {"confirm", "judge"} -> 2
      [] pc = "review" -> 3
      [] pc = "gate" -> 4
      [] pc = "loop" -> IF Owed(run) THEN 9 ELSE 5
      [] pc = "hold" -> 6
      [] pc = "commit" -> 7
      [] pc \in WriteTurns -> 8
      [] pc = "start" -> 10
      [] pc = "retire" -> 11

\* The rounds of both kinds that are left, twelve steps to each.
RoundsLeft == (MaxVerifyRounds - run.verifyRound) + (MaxReviewRounds + seen.restarts - run.reviewRound)

StepsLeft == 12 * RoundsLeft + Position

\* A process that has the run takes boundedly many steps, whatever the gates,
\* the reviews and the turns make of them (reviewPhase, guardProgress).
EveryStepSpends == [][pc # "off" => StepsLeft' < StepsLeft]_vars

\* What is left is a number: it cannot fall for ever.
LEMMA LeftIsNatural ==
    ASSUME IInv
    PROVE  RoundsLeft \in Nat /\ Position \in 0..11 /\ StepsLeft \in Nat
<1> USE DEF IInv, TypeOK
<1>1. /\ run.verifyRound \in Nat /\ run.reviewRound \in Nat /\ seen.restarts \in Nat
      /\ MaxVerifyRounds \in Nat /\ MaxReviewRounds \in Nat /\ run.finalFixDone \in BOOLEAN
    BY CapAssumption DEF RunRecord, Memory
<1>2. run.verifyRound < MaxVerifyRounds /\ run.reviewRound <= MaxReviewRounds + seen.restarts
    BY <1>1 DEF RoundsFit, Budget
<1>3. RoundsLeft \in Nat
    BY <1>1, <1>2 DEF RoundsLeft
<1>4. Position \in 0..11
    BY DEF Position, Pcs, Turns, WriteTurns
<1> QED BY <1>3, <1>4 DEF StepsLeft

\* A step goes on towards the end, or begins a round.
LEMMA StepGoesOn ==
    ASSUME IInv, Next, pc # "off"
    PROVE  \/ RoundsLeft' = RoundsLeft /\ Position' < Position
           \/ RoundsLeft' = RoundsLeft - 1
<1> USE DEF RoundsLeft, Position, WriteTurns
<1>1. /\ run \in RunRecord /\ seen \in Memory /\ pc \in Pcs
      /\ pc \in {"commit", "hold"} => ~Owed(run)
      /\ pc \in {"fix", "final-fix"} => Owed(run)
      /\ pc = "judge" => run.fixInFlight = NoFix
    BY DEF IInv, TypeOK, FlightMatchesFindings
<1>2. /\ run.verifyRound \in Nat /\ run.reviewRound \in Nat /\ seen.restarts \in Nat
      /\ MaxVerifyRounds \in Nat /\ MaxReviewRounds \in Nat
    BY <1>1, CapAssumption DEF RunRecord, Memory
<1>3. CASE WriteNeedsInput BY <1>2, <1>3 DEF WriteNeedsInput, Stop
<1>4. CASE RetireFile BY <1>2, <1>4 DEF RetireFile
<1>5. CASE StartImplement BY <1>2, <1>5 DEF StartImplement
<1>6. CASE Implement BY <1>1, <1>2, <1>6 DEF Implement, RunRecord, Memory
<1>7. CASE CommitFails BY <1>2, <1>7 DEF CommitFails, Stop
<1>8. CASE Commit BY <1>1, <1>2, <1>8 DEF Commit, FreshHistories, RunRecord, Owed
<1>9. CASE HoldPasses BY <1>1, <1>2, <1>9 DEF HoldPasses, Owed
<1>10. CASE HoldStops BY <1>2, <1>10 DEF HoldStops, Throw
<1>11. CASE StartReviewing BY <1>2, <1>11 DEF StartReviewing
<1>12. CASE FixCarried BY <1>1, <1>2, <1>12 DEF FixCarried, FixStarted, RunRecord
<1>13. CASE FinishCarried BY <1>2, <1>13 DEF FinishCarried
<1>14. CASE NothingCarried BY <1>2, <1>14 DEF NothingCarried, AfterFindings
<1>15. CASE GatePasses BY <1>1, <1>2, <1>15 DEF GatePasses, Memory
<1>16. CASE GateUnlaunchable BY <1>2, <1>16 DEF GateUnlaunchable, Throw
<1>17. CASE GateFailsForGood
    BY <1>1, <1>2, <1>17 DEF GateFailsForGood, WithVerifyRecord, RunRecord, Throw
<1>18. CASE GateFails
    BY <1>1, <1>2, <1>18 DEF GateFails, VerifyStarted, WithVerifyRecord, RunRecord
<1>19. CASE VerifyFix BY <1>1, <1>2, <1>19 DEF VerifyFix, Memory
<1>20. CASE Review BY <1>1, <1>2, <1>20 DEF Review, Recorded, RunRecord, Memory
<1>21. CASE ReviewHalts BY <1>2, <1>21 DEF ReviewHalts, Throw
<1>22. CASE ReviewApproved BY <1>1, <1>2, <1>22 DEF ReviewApproved, RunRecord
<1>23. CASE StartFinalFix BY <1>1, <1>2, <1>23 DEF StartFinalFix, FinalStarted, RunRecord
<1>24. CASE GuardStops BY <1>1, <1>2, <1>24 DEF GuardStops, WithRecord, RunRecord, Throw
<1>25. CASE GuardPasses
    <2>1. run'.reviewRound = run.reviewRound + 1 /\ run'.verifyRound = run.verifyRound
        BY <1>1, <1>25 DEF GuardPasses, FixStarted, WithRecord, RunRecord
    <2> QED BY <1>2, <1>25, <2>1 DEF GuardPasses
<1>26. CASE FixTurn BY <1>1, <1>2, <1>26 DEF FixTurn, Consumed, RunRecord, Memory
<1>27. CASE Confirm BY <1>2, <1>27 DEF Confirm
<1>28. CASE Complete BY <1>1, <1>2, <1>28 DEF Complete, RunRecord
<1>29. CASE TurnFails \/ TurnEscalates
    BY <1>1, <1>2, <1>29 DEF TurnFails, TurnEscalates, Turns, Touched, Stop, Throw, Memory
<1>30. CASE Killed BY <1>1, <1>2, <1>30 DEF Killed, Touched, Stop, Memory, Pcs, Turns
<1>31. CASE TreeEdited \/ ResumePlain \/ ResumeWithEdits
    BY <1>31 DEF TreeEdited, ResumePlain, ResumeWithEdits, CanRestart
<1> QED BY <1>3, <1>4, <1>5, <1>6, <1>7, <1>8, <1>9, <1>10, <1>11, <1>12, <1>13, <1>14, <1>15,
        <1>16, <1>17, <1>18, <1>19, <1>20, <1>21, <1>22, <1>23, <1>24, <1>25, <1>26, <1>27,
        <1>28, <1>29, <1>30, <1>31 DEF Next, Step

\* The count is a natural number that every step of a live process lowers, so
\* between two resumes the loop ends or stands still: the part of ReviewEnds that
\* is not fairness, for every cap and any number of restarts.
THEOREM RoundsRunOut == Spec => [](StepsLeft \in Nat) /\ EveryStepSpends
<1> DEFINE Left == RoundsLeft \in Nat /\ Position \in 0..11 /\ StepsLeft \in Nat
<1>1. IInv => Left
    BY LeftIsNatural
<1>2. IInv /\ Left /\ Left' /\ [Next]_vars => [pc # "off" => StepsLeft' < StepsLeft]_vars
    <2> SUFFICES ASSUME IInv, Left, Left', Next, pc # "off" PROVE StepsLeft' < StepsLeft
        OBVIOUS
    <2>1. \/ RoundsLeft' = RoundsLeft /\ Position' < Position
          \/ RoundsLeft' = RoundsLeft - 1
        BY StepGoesOn
    <2>2. StepsLeft = 12 * RoundsLeft + Position /\ StepsLeft' = 12 * RoundsLeft' + Position'
        BY DEF StepsLeft
    <2>3. \A r, s \in Nat, p, q \in 0..11 :
              (s = r /\ q < p) \/ s = r - 1 => 12 * s + q < 12 * r + p
        OBVIOUS
    <2>4. RoundsLeft \in Nat /\ RoundsLeft' \in Nat /\ Position \in 0..11 /\ Position' \in 0..11
        OBVIOUS
    <2> QED BY <2>1, <2>2, <2>3, <2>4, Zenon
<1>3. Left => StepsLeft \in Nat
    OBVIOUS
<1> HIDE DEF Left
<1> QED BY <1>1, <1>2, <1>3, Invariance, PTL DEF EveryStepSpends, Spec

-----------------------------------------------------------------------------
(* The judgement of a round.  Sameness and counts are lemmas about claims  *)
(* and histories; the invariant is the properties and where stalls lie.    *)

\* Facts about natural numbers and sets of them.
LEMMA LeastExists ==
  ASSUME NEW S \in SUBSET Nat, S # {}
  PROVE  \E x \in S : \A y \in S : x <= y
<1>1. PICK x \in S : \A y \in S : ~ (<<y, x>> \in OpToRel(<, Nat))
  BY NatLessThanWellFounded, WFMin, Zenon
<1>2. \A y \in S : ~(y < x)
  BY <1>1 DEF OpToRel
<1> QED BY <1>2

LEMMA MaxIsGreatest ==
  ASSUME NEW S \in SUBSET Nat, S # {}, NEW n \in Nat, \A x \in S : x <= n
  PROVE  Max(S) \in S /\ \A y \in S : y <= Max(S)
<1> DEFINE T == {k \in Nat : n - k \in S}
<1>1. T # {}
  <2>1. PICK x \in S : TRUE
    OBVIOUS
  <2>2. n - x \in Nat /\ n - (n - x) = x
    BY <2>1
  <2> QED BY <2>1, <2>2
<1>2. PICK k \in T : \A j \in T : k <= j
  BY <1>1, LeastExists
<1>3. \A y \in S : n - k >= y
  <2> TAKE y \in S
  <2>1. n - y \in Nat /\ n - (n - y) = y
    OBVIOUS
  <2> QED BY <1>2, <2>1
<1> QED BY <1>2, <1>3 DEF Max

-----------------------------------------------------------------------------
(* Pairing claims off. *)

Distinct(s) == \A i, j \in DOMAIN s : s[i].id = s[j].id => i = j

\* As many ids as claims: no id stands twice.
LEMMA CountedIdsAreDistinct ==
  ASSUME NEW s \in Seq(Claims), NoIdTwice(s)
  PROVE  Distinct(s)
<1> DEFINE D == DOMAIN s
           I == {c.id : c \in Range(s)}
           f == [i \in D |-> s[i].id]
<1>1. D = 1..Len(s) /\ Len(s) \in Nat
  OBVIOUS
<1>2. IsFiniteSet(D) /\ Cardinality(D) = Len(s)
  BY <1>1, FS_Interval
<1>3. f \in Surjection(D, I)
  BY DEF Surjection, Range
<1>4. Cardinality(D) = Cardinality(I)
  BY <1>2 DEF NoIdTwice
<1>5. f \in Injection(D, I)
  BY <1>2, <1>3, <1>4, FS_SurjSameCardinalityImpliesInj
<1>6. \A i, j \in D : f[i] = f[j] => i = j
  BY <1>5 DEF Injection, IsInjective
<1> QED BY <1>6 DEF Distinct

\* Between rounds of one length a pairing leaves no claim out.
LEMMA PairingIsOnto ==
  ASSUME NEW a \in Seq(Claims), NEW b \in Seq(Claims), Len(a) = Len(b),
         NEW f \in [DOMAIN a -> DOMAIN b], IsInjective(f)
  PROVE  \A j \in DOMAIN b : \E i \in DOMAIN a : f[i] = j
<1>1. IsFiniteSet(DOMAIN b) /\ DOMAIN a = DOMAIN b
  BY FS_Interval
<1>2. f \in Injection(DOMAIN a, DOMAIN b)
  BY DEF Injection
<1>3. f \in Surjection(DOMAIN a, DOMAIN b)
  BY <1>1, <1>2, FS_Injection
<1> QED BY <1>3 DEF Surjection

Pairs(a, b, f) == IsInjective(f) /\ \A i \in DOMAIN a : SameClaim(a[i], b[f[i]])

\* What the greedy match takes is a pairing, whatever the claims are.
LEMMA GreedyIsAPairing ==
  ASSUME NEW a \in Seq(Claims), NEW b \in Seq(Claims),
         NEW f \in [DOMAIN a -> DOMAIN b], Greedy(a, b, f)
  PROVE  Pairs(a, b, f)
<1>1. \A i \in DOMAIN a : SameClaim(a[i], b[f[i]]) /\ \A k \in 1..(i - 1) : f[i] # f[k]
  BY DEF Greedy
<1>2. \A i, j \in DOMAIN a : i < j => i \in 1..(j - 1)
  OBVIOUS
<1>3. \A i, j \in DOMAIN a : f[i] = f[j] => i = j
  <2> TAKE i, j \in DOMAIN a
  <2>1. i \in Int /\ j \in Int
    OBVIOUS
  <2>2. i < j \/ j < i \/ i = j
    BY <2>1
  <2> QED BY <1>1, <1>2, <2>2
<1> QED BY <1>1, <1>3 DEF Pairs, IsInjective

\* A pairing is what the greedy match takes, if no id stands twice among the
\* claims it takes from: there is one candidate for each claim.
LEMMA PairingIsGreedy ==
  ASSUME NEW a \in Seq(Claims), NEW b \in Seq(Claims), Distinct(b),
         NEW f \in [DOMAIN a -> DOMAIN b], Pairs(a, b, f)
  PROVE  Greedy(a, b, f)
<1> SUFFICES ASSUME NEW i \in DOMAIN a
             PROVE  LET pool == {j \in DOMAIN b : SameClaim(a[i], b[j])} \ {f[k] : k \in 1..(i - 1)}
                    IN f[i] \in pool /\ \A j \in pool : f[i] <= j
  BY DEF Greedy
<1> DEFINE same == {j \in DOMAIN b : SameClaim(a[i], b[j])}
<1>1. f[i] \in same
  BY DEF Pairs
<1>2. \A j \in same : j = f[i]
  <2> TAKE j \in same
  <2>1. b[j].id = a[i].id /\ b[f[i]].id = a[i].id
    BY <1>1 DEF SameClaim
  <2> QED BY <1>1, <2>1 DEF Distinct
<1>3. f[i] \notin {f[k] : k \in 1..(i - 1)}
  <2> SUFFICES ASSUME NEW k \in 1..(i - 1) PROVE f[k] # f[i]
    OBVIOUS
  <2>1. k \in DOMAIN a /\ k # i
    OBVIOUS
  <2> QED BY <2>1 DEF Pairs, IsInjective
<1>4. f[i] \in Int
  OBVIOUS
<1> QED BY <1>1, <1>2, <1>3, <1>4

\* If one round of a pairing names no id twice the other does not either.
LEMMA DistinctCarriesOver ==
  ASSUME NEW a \in Seq(Claims), NEW b \in Seq(Claims), Len(a) = Len(b), Distinct(a),
         NEW f \in [DOMAIN a -> DOMAIN b], Pairs(a, b, f)
  PROVE  Distinct(b)
<1> SUFFICES ASSUME NEW i \in DOMAIN b, NEW j \in DOMAIN b, b[i].id = b[j].id PROVE i = j
  BY DEF Distinct
<1>1. PICK k \in DOMAIN a, l \in DOMAIN a : f[k] = i /\ f[l] = j
  BY PairingIsOnto DEF Pairs
<1>2. a[k].id = b[i].id /\ a[l].id = b[j].id
  BY <1>1 DEF Pairs, SameClaim
<1> QED BY <1>1, <1>2 DEF Distinct

\* The greedy match of claimsMatch is exact whenever one of the rounds names no
\* id twice, for any rounds and any likeness of wordings.
THEOREM GreedyIsExact ==
  ASSUME NEW a \in Seq(Claims), NEW b \in Seq(Claims), NoIdTwice(a) \/ NoIdTwice(b)
  PROVE  ClaimsMatch(a, b) <=>
            Len(a) = Len(b) /\ \E f \in [DOMAIN a -> DOMAIN b] : Pairs(a, b, f)
<1>1. ASSUME ClaimsMatch(a, b) PROVE Len(a) = Len(b) /\ \E f \in [DOMAIN a -> DOMAIN b] : Pairs(a, b, f)
  BY <1>1, GreedyIsAPairing DEF ClaimsMatch
<1>2. ASSUME Len(a) = Len(b), NEW f \in [DOMAIN a -> DOMAIN b], Pairs(a, b, f)
      PROVE  ClaimsMatch(a, b)
  <2>1. Distinct(b)
    BY <1>2, CountedIdsAreDistinct, DistinctCarriesOver
  <2> QED BY <1>2, <2>1, PairingIsGreedy DEF ClaimsMatch
<1> QED BY <1>1, <1>2

-----------------------------------------------------------------------------
(* The trend. *)

\* The last window of a history, by its positions.
LEMMA LatestIsTheEnd ==
  ASSUME NEW h \in Seq(Records), NEW n \in 1..Len(h)
  PROVE  /\ Len(Latest(h, n)) = n
         /\ \A i \in 1..n : Latest(h, n)[i] = h[Len(h) - n + i]
BY DEF Latest

LEMMA CountsAreNatural ==
  ASSUME NEW h \in Seq(Records), NEW i \in 1..Len(h)
  PROVE  Count(h[i]) \in Nat
BY DEF Count, Records

\* A count that has not improved over the window rises or stands still in it.
LEMMA UnimprovedNeverFalls ==
  ASSUME NEW h \in Seq(Records), NEW w \in 1..Len(h), ~Improved(Latest(h, w)),
         NEW i \in (Len(h) - w + 2)..Len(h)
  PROVE  Count(h[i]) >= Count(h[i - 1])
<1> DEFINE k == i - (Len(h) - w)
<1>1. /\ Len(h) \in Nat /\ k \in 2..w /\ k \in 1..w /\ k - 1 \in 1..w
      /\ Len(h) - w + k = i /\ Len(h) - w + (k - 1) = i - 1
  OBVIOUS
<1>2. Latest(h, w)[k] = h[i] /\ Latest(h, w)[k - 1] = h[i - 1] /\ Len(Latest(h, w)) = w
  BY <1>1, LatestIsTheEnd
<1>3. ~(Count(h[i]) < Count(h[i - 1]))
  BY <1>1, <1>2 DEF Improved
<1>4. i \in 1..Len(h) /\ i - 1 \in 1..Len(h)
  OBVIOUS
<1>5. Count(h[i]) \in Nat /\ Count(h[i - 1]) \in Nat
  BY <1>4, CountsAreNatural
<1> QED BY <1>3, <1>5

\* One that has improved changed at some round of the window.
LEMMA ImprovedHasFallen ==
  ASSUME NEW h \in Seq(Records), NEW w \in 1..Len(h), Improved(Latest(h, w))
  PROVE  \E i \in (Len(h) - w + 2)..Len(h) : Count(h[i]) < Count(h[i - 1])
<1>1. PICK k \in 2..w : Count(Latest(h, w)[k]) < Count(Latest(h, w)[k - 1])
  BY LatestIsTheEnd DEF Improved
<1> DEFINE i == Len(h) - w + k
<1>2. /\ i \in (Len(h) - w + 2)..Len(h) /\ i \in 1..Len(h) /\ i - 1 \in 1..Len(h)
      /\ k \in 1..w /\ k - 1 \in 1..w /\ Len(h) - w + (k - 1) = i - 1
  OBVIOUS
<1>3. Latest(h, w)[k] = h[i] /\ Latest(h, w)[k - 1] = h[i - 1]
  BY <1>2, LatestIsTheEnd
<1>4. Count(h[i]) \in Nat /\ Count(h[i - 1]) \in Nat
  BY <1>2, CountsAreNatural
<1> QED BY <1>1, <1>2, <1>3, <1>4

\* The counts of a run of equal counts are equal, and one that is shorter than
\* the history began with a change.
LEMMA FlatRunIsFlat ==
  ASSUME NEW h \in Seq(Records), NEW w \in Nat \ {0}, Len(h) >= w, FlatRun(h) = w
  PROVE  /\ \A i \in (Len(h) - w + 1)..Len(h) : Count(h[i]) = Count(h[Len(h)])
         /\ Len(h) > w => Count(h[Len(h) - w + 1]) # Count(h[Len(h) - w])
<1> DEFINE n == Len(h)
           other == {i \in DOMAIN h : Count(h[i]) # Count(h[n])}
           S == {0} \cup other
<1>1. n \in Nat /\ S \in SUBSET Nat /\ S # {} /\ \A x \in S : x <= n
  OBVIOUS
<1>2. Max(S) \in S /\ \A y \in S : y <= Max(S)
  <2> HIDE DEF S, n
  <2> QED BY <1>1, MaxIsGreatest
<1>3. n - Max(S) = w
  BY DEF FlatRun
<1> HIDE DEF S
<1>4. Max(S) \in Nat
  BY <1>1, <1>2
<1>5. Max(S) = n - w
  BY <1>1, <1>3, <1>4
<1>6. n > w => n - w \in other
  BY <1>1, <1>2, <1>5 DEF S
<1>7. ASSUME NEW i \in (n - w + 1)..n PROVE i \notin other /\ i \in DOMAIN h
  BY <1>1, <1>2, <1>5 DEF S
<1>8. \A i \in (n - w + 1)..n : Count(h[i]) = Count(h[n])
  BY <1>7
<1>9. n - w + 1 \in (n - w + 1)..n
  BY <1>1
<1> QED BY <1>6, <1>8, <1>9

-----------------------------------------------------------------------------
(* The stall. *)

\* The ids of a recorded round can be counted.
LEMMA IdsAreFinite ==
  ASSUME NEW r \in Records
  PROVE  IsFiniteSet(Ids(r))
<1> DEFINE D == DOMAIN r.claims
           f == [i \in D |-> r.claims[i].id]
<1>1. r.claims \in Seq(Claims) /\ D = 1..Len(r.claims)
  BY DEF Records
<1>2. IsFiniteSet(D)
  BY <1>1, FS_Interval
<1>3. f \in Surjection(D, Ids(r))
  BY DEF Surjection, Ids, Range
<1> QED BY <1>2, <1>3, FS_Surjection

\* Claims that pair off have the same ids.
LEMMA MatchedClaimsShareIds ==
  ASSUME NEW a \in Seq(Claims), NEW b \in Seq(Claims), ClaimsMatch(a, b)
  PROVE  {a[i].id : i \in DOMAIN a} = {b[j].id : j \in DOMAIN b}
<1>1. Len(a) = Len(b)
  BY DEF ClaimsMatch
<1>2. PICK f \in [DOMAIN a -> DOMAIN b] : Greedy(a, b, f)
  BY DEF ClaimsMatch
<1>3. Pairs(a, b, f)
  BY <1>2, GreedyIsAPairing
<1>4. IsInjective(f)
  BY <1>3 DEF Pairs
<1>5. \A j \in DOMAIN b : \E i \in DOMAIN a : f[i] = j
  BY <1>1, <1>4, PairingIsOnto
<1>6. \A i \in DOMAIN a : a[i].id = b[f[i]].id
  BY <1>3 DEF Pairs, SameClaim
<1>7. ASSUME NEW i \in DOMAIN a PROVE a[i].id \in {b[j].id : j \in DOMAIN b}
  <2>1. f[i] \in DOMAIN b
    OBVIOUS
  <2> QED BY <1>6, <2>1
<1>8. ASSUME NEW j \in DOMAIN b PROVE b[j].id \in {a[i].id : i \in DOMAIN a}
  <2>1. PICK i \in DOMAIN a : f[i] = j
    BY <1>5
  <2> QED BY <1>6, <2>1
<1> QED BY <1>7, <1>8

\* Rounds that repeat each other have the same ids.
LEMMA RepeatedIds ==
  ASSUME NEW r \in Records, NEW s \in Records, RoundRepeated(r, s)
  PROVE  Ids(r) = Ids(s)
<1>1. r.claims \in Seq(Claims) /\ s.claims \in Seq(Claims)
  BY DEF Records
<1>2. CASE HasClaims(r) /\ HasClaims(s)
  <2>1. ClaimsMatch(r.claims, s.claims)
    BY <1>2 DEF RoundRepeated
  <2>2. {r.claims[i].id : i \in DOMAIN r.claims} = {s.claims[j].id : j \in DOMAIN s.claims}
    BY <1>1, <2>1, MatchedClaimsShareIds
  <2> QED BY <2>2 DEF Ids, Range
<1>3. CASE ~(HasClaims(r) /\ HasClaims(s))
  <2>1. Signature(r) = Signature(s)
    BY <1>3 DEF RoundRepeated
  <2>2. DOMAIN Signature(r) = Ids(r) /\ DOMAIN Signature(s) = Ids(s)
    BY DEF Signature
  <2> QED BY <2>1, <2>2
<1> QED BY <1>2, <1>3

\* A stalled history ends with a round that is not the one before it.
LEMMA StallIsNoRepeat ==
  ASSUME NEW h \in Seq(Records), PlanStall(h)
  PROVE  Len(h) > 2 /\ ~RoundRepeated(h[Len(h) - 1], h[Len(h)])
<1> DEFINE n == Len(h)
           last == Ids(h[n])
           before == Ids(h[n - 1])
<1>1. n \in Nat /\ n > 2 /\ MostlyNew(h, n)
  BY DEF PlanStall
<1> SUFFICES ASSUME RoundRepeated(h[n - 1], h[n]) PROVE FALSE
  BY <1>1
<1>2. h[n] \in Records /\ h[n - 1] \in Records
  BY <1>1
<1>3. last = before
  BY <1>2, RepeatedIds
<1>4. IsFiniteSet(before) /\ Cardinality(before) \in Nat
  BY <1>2, IdsAreFinite, FS_CardinalityType
<1>5. Blocking(h, n) = Cardinality(before) /\ Blocking(h, n - 1) = Cardinality(before)
  BY <1>3 DEF Blocking
<1>6. Fresh(h, n) = 0
  <2>1. n - 1 \in 1..(n - 1)
    BY <1>1
  <2>2. last \ UNION {Ids(h[k]) : k \in 1..(n - 1)} = {}
    BY <1>3, <2>1
  <2> QED BY <2>2, FS_EmptySet DEF Fresh
<1>7. Fresh(h, n - 1) \in Nat /\ Fresh(h, n - 1) <= Cardinality(before)
  <2> DEFINE new == before \ UNION {Ids(h[k]) : k \in 1..((n - 1) - 1)}
  <2>1. IsFiniteSet(new) /\ Cardinality(new) <= Cardinality(before)
    BY <1>4, FS_Subset
  <2> QED BY <2>1, FS_CardinalityType DEF Fresh
<1> QED BY <1>1, <1>4, <1>5, <1>6, <1>7 DEF MostlyNew

-----------------------------------------------------------------------------
(* The invariant: what was decided of the last round, and the stalls that   *)
(* were recorded, stay where they were in a history that only grows.        *)

StallsAreRecorded == stalls # <<>> => Last(stalls).position + 1 \in 2..Len(history)

HistoryInv == HistoryTypeOK /\ TrendIsStuck /\ StallIsNews /\ StallsAreRecorded

LEMMA InitHistory == ASSUME HistoryInit PROVE HistoryInv
<1> USE ConvergenceAssumption DEF HistoryInit
<1>1. HistoryTypeOK
  BY DEF HistoryTypeOK, Outcomes, Going
<1> QED BY <1>1 DEF HistoryInv, TrendIsStuck, StallIsNews, StallsAreRecorded

\* The verdicts of the trend, on the history that the judged round ends.
LEMMA TrendStep ==
  ASSUME HistoryInv, NEW claims \in Rounds, Judge(claims), history' \in Seq(Records)
  PROVE  TrendIsStuck'
<1> DEFINE h == Append(history, Record(claims))
           n == Len(h)
           w == ConvergenceWindow
<1>1. history' = h /\ w \in Nat \ {0} /\ cap' = cap /\ round' = round + 1
  BY ConvergenceAssumption DEF Judge
<1>2. h \in Seq(Records) /\ n \in Nat
  BY <1>1
<1>3. \A i \in 1..n : Counts'[i] = Count(h[i])
  BY <1>1, <1>2 DEF Counts
<1>4. verdict' = "trend" => TrendIsOff(h)
  BY DEF Judge, StallAction
<1>5. verdict' = "going" => ~(Late(round + 1) /\ TrendIsOff(h))
  BY DEF Judge, StallAction
<1>6. Late(round') = Late(round + 1) /\ Late(round)' = Late(round + 1)
  BY <1>1 DEF Late
<1> HIDE DEF h
<1>7. ASSUME verdict' = "trend", NEW i \in (n - w + 2)..n
      PROVE  Counts'[i] >= Counts'[i - 1]
  <2>1. w \in 1..n /\ ~Improved(Latest(h, w))
    BY <1>1, <1>2, <1>4, <1>7 DEF TrendIsOff
  <2>2. i \in 1..n /\ i - 1 \in 1..n
    BY <1>2, <2>1
  <2> QED BY <1>2, <1>3, <2>1, <2>2, UnimprovedNeverFalls
<1>8. ASSUME verdict' = "going", Late(round + 1), n - w + 1 >= 1
      PROVE  \/ \E i \in (n - w + 2)..n : Counts'[i] < Counts'[i - 1]
             \/ /\ \A i \in (n - w + 2)..n : Counts'[i] = Counts'[i - 1]
                /\ n - w + 1 > 1 => Counts'[n - w + 1] # Counts'[n - w]
  <2>1. w \in 1..n /\ (Improved(Latest(h, w)) \/ Excused(h))
    BY <1>1, <1>2, <1>5, <1>8 DEF TrendIsOff
  <2>2. \A i \in (n - w + 2)..n : i \in 1..n /\ i - 1 \in 1..n /\ i \in (n - w + 1)..n
                                  /\ i - 1 \in (n - w + 1)..n
    BY <1>1, <1>2, <1>8
  <2>3. CASE Improved(Latest(h, w))
    <3>1. PICK i \in (n - w + 2)..n : Count(h[i]) < Count(h[i - 1])
      BY <1>2, <2>1, <2>3, ImprovedHasFallen
    <3> QED BY <1>3, <2>2, <3>1
  <2>4. CASE Excused(h)
    <3>1. /\ \A i \in (n - w + 1)..n : Count(h[i]) = Count(h[n])
          /\ n > w => Count(h[n - w + 1]) # Count(h[n - w])
      BY <1>1, <1>2, <2>1, <2>4, FlatRunIsFlat DEF Excused
    <3>2. \A i \in (n - w + 2)..n : Counts'[i] = Counts'[i - 1]
      BY <1>3, <2>2, <3>1
    <3>3. n - w + 1 > 1 => n > w /\ n - w + 1 \in 1..n /\ n - w \in 1..n
      BY <1>1, <1>2
    <3> QED BY <1>3, <3>1, <3>2, <3>3
  <2> QED BY <2>1, <2>3, <2>4
<1>9. \A i \in ((n - w + 1) + 1)..n : i \in (n - w + 2)..n
  BY <1>1, <1>2
<1>10. (n - w + 1) - 1 = n - w /\ (n - w + 1) + 1 = n - w + 2
  BY <1>1, <1>2
<1> QED BY <1>1, <1>6, <1>7, <1>8, <1>9, <1>10 DEF TrendIsStuck

\* A stall is recorded at the position of the round that was judged.
LEMMA StallStep ==
  ASSUME HistoryInv, NEW claims \in Rounds, Judge(claims), history' \in Seq(Records)
  PROVE  StallIsNews' /\ StallsAreRecorded'
<1> DEFINE h == Append(history, Record(claims))
           n == Len(h)
<1>1. history' = h /\ history \in Seq(Records)
  BY DEF Judge, HistoryInv, HistoryTypeOK
<1>2. /\ h \in Seq(Records) /\ n = Len(history) + 1 /\ Len(history) \in Nat
      /\ \A i \in 1..Len(history) : h[i] = history[i]
  BY <1>1
<1>3. stalls \in Seq([position : Nat, action : {"step-back", "escalated"}])
  BY DEF HistoryInv, HistoryTypeOK
<1>4. CASE PlanStall(h)
  <2> DEFINE stall == [position |-> Len(history), action |-> StallAction]
  <2>1. stalls' = Append(stalls, stall)
    BY <1>4 DEF Judge
  <2>2. stalls' # <<>> /\ Last(stalls') = stall
    BY <1>3, <2>1 DEF Last
  <2>3. n > 2 /\ ~RoundRepeated(h[n - 1], h[n])
    BY <1>2, <1>4, StallIsNoRepeat
  <2> QED BY <1>1, <1>2, <2>2, <2>3 DEF StallIsNews, StallsAreRecorded
<1>5. CASE ~PlanStall(h)
  <2>1. stalls' = stalls
    BY <1>5 DEF Judge
  <2>2. CASE stalls # <<>>
    <3> DEFINE m == Last(stalls).position + 1
    <3>1. m \in 2..Len(history) /\ ~RoundRepeated(history[m - 1], history[m])
      BY <2>2 DEF HistoryInv, StallIsNews, StallsAreRecorded
    <3>2. h[m] = history[m] /\ h[m - 1] = history[m - 1] /\ m \in 2..n
      BY <1>2, <3>1
    <3> QED BY <1>1, <2>1, <3>1, <3>2 DEF StallIsNews, StallsAreRecorded
  <2>3. CASE stalls = <<>>
    BY <2>1, <2>3 DEF StallIsNews, StallsAreRecorded
  <2> QED BY <2>2, <2>3
<1> QED BY <1>4, <1>5

LEMMA HistoryStep == ASSUME HistoryInv, [HistoryNext]_historyVars PROVE HistoryInv'
<1>1. ASSUME NEW claims \in Rounds, Judge(claims) PROVE HistoryInv'
  <2>1. Record(claims) \in Records
    BY <1>1, ConvergenceAssumption DEF Record, Records
  <2>2. history' \in Seq(Records)
    BY <1>1, <2>1 DEF Judge, HistoryInv, HistoryTypeOK
  <2>3. HistoryTypeOK'
    <3>1. StallAction \in {"step-back", "escalated"}
      BY DEF StallAction
    <3> DEFINE Stall == [position : Nat, action : {"step-back", "escalated"}]
               stall == [position |-> Len(history), action |-> StallAction]
    <3>2. stall \in Stall /\ stalls \in Seq(Stall)
      BY <3>1 DEF HistoryInv, HistoryTypeOK
    <3>3. stalls' \in Seq(Stall)
      <4>1. stalls' = Append(stalls, stall) \/ stalls' = stalls
        BY <1>1 DEF Judge
      <4> HIDE DEF stall, Stall
      <4> QED BY <3>2, <4>1
    <3>4. verdict' \in Outcomes
      BY <1>1, <3>1, Zenon DEF Judge, Outcomes, Going
    <3>5. round' \in Nat /\ cap' \in Caps
      BY <1>1 DEF Judge, HistoryInv, HistoryTypeOK
    <3> QED BY <2>2, <3>3, <3>4, <3>5 DEF HistoryTypeOK
  <2> QED BY <1>1, <2>2, <2>3, TrendStep, StallStep DEF HistoryInv
<1>2. CASE Unjudged
  <2>1. HistoryTypeOK'
    BY <1>2 DEF Unjudged, HistoryInv, HistoryTypeOK, Outcomes, Going
  <2> QED BY <1>2, <2>1 DEF Unjudged, HistoryInv, TrendIsStuck, StallIsNews, StallsAreRecorded
<1>3. CASE Resume
  <2>1. HistoryTypeOK'
    BY <1>3 DEF Resume, HistoryInv, HistoryTypeOK, Outcomes, Going
  <2> QED BY <1>3, <2>1 DEF Resume, HistoryInv, TrendIsStuck, StallIsNews, StallsAreRecorded
<1>4. CASE UNCHANGED historyVars
  BY <1>4 DEF historyVars, HistoryInv, HistoryTypeOK, TrendIsStuck, StallIsNews, StallsAreRecorded,
     Counts, Late
<1> QED BY <1>1, <1>2, <1>3, <1>4 DEF HistoryNext

\* The invariant holds of every history, of any length and over any claims.
THEOREM HistoryIsJudged == HistorySpec => []HistoryInv
<1>1. HistoryInit => HistoryInv
  BY InitHistory
<1>2. HistoryInv /\ [HistoryNext]_historyVars => HistoryInv'
  BY HistoryStep
<1> QED BY <1>1, <1>2, PTL DEF HistorySpec

\* The greedy match of two rounds of any history is exact whenever one of them
\* names no id twice (claimsMatch).
THEOREM ClaimsPairOff == HistorySpec => []GreedyPairsOff
<1>1. ASSUME HistoryInv PROVE GreedyPairsOff
  <2>1. history \in Seq(Records)
    BY <1>1 DEF HistoryInv, HistoryTypeOK
  <2> SUFFICES ASSUME NEW r \in Range(history)
               PROVE  LET a == r.claims
                          b == Last(history).claims
                          Pairings == {f \in [DOMAIN a -> DOMAIN b] : IsInjective(f)}
                      IN NoIdTwice(a) \/ NoIdTwice(b) =>
                           (ClaimsMatch(a, b) <=>
                              Len(a) = Len(b) /\ \E f \in Pairings : \A i \in DOMAIN a : SameClaim(a[i], b[f[i]]))
    BY DEF GreedyPairsOff
  <2> DEFINE a == r.claims
             b == Last(history).claims
  <2>2. r \in Records /\ Last(history) \in Records
    BY <2>1 DEF Range, Last
  <2>3. a \in Seq(Claims) /\ b \in Seq(Claims)
    BY <2>2 DEF Records
  <2>4. (\E f \in {g \in [DOMAIN a -> DOMAIN b] : IsInjective(g)} : \A i \in DOMAIN a : SameClaim(a[i], b[f[i]]))
           <=> \E f \in [DOMAIN a -> DOMAIN b] : Pairs(a, b, f)
    BY DEF Pairs
  <2> QED BY <2>3, <2>4, GreedyIsExact
<1> QED BY <1>1, HistoryIsJudged, PTL

\* No falling count is ever stopped as off its trend, no flat one is excused for
\* more than one window, and no rising one at all, whatever the thresholds
\* (assessConvergence).
THEOREM TrendStopsOnlyTheStuck == HistorySpec => []TrendIsStuck
<1>1. HistoryInv => TrendIsStuck
  BY DEF HistoryInv
<1> QED BY <1>1, HistoryIsJudged, PTL

\* No stall is recorded of a round that repeats the one before (planStall).
THEOREM StallsAreNews == HistorySpec => []StallIsNews
<1>1. HistoryInv => StallIsNews
  BY DEF HistoryInv
<1> QED BY <1>1, HistoryIsJudged, PTL

-----------------------------------------------------------------------------
(* What the loops rely on: PlanLoop and ReviewLoop leave the judgement of a  *)
(* round open within bounds, and the judgement keeps to them.              *)

\* A loop is stopped as going round only when OscillationThreshold rounds in a
\* row named one and the same set of ids (assessConvergence).
RepeatIsOfOneSet ==
    verdict = "repeat" =>
        LET n == Len(history)
        IN /\ n >= OscillationThreshold
           /\ \A i \in (n - OscillationThreshold + 1)..n : Ids(history[i]) = Ids(history[n])

\* Stalls are judged as PlanLoop says they may be: late enough, two rounds apart
\* at least, the first a step back and each one then what the last was not.
StallsKeepApart ==
    \A i \in DOMAIN stalls :
        LET this == stalls[i]
        IN /\ this.position >= StallAfter /\ this.position >= 2
           /\ this.position < Len(history)
           /\ IF i = 1 THEN this.action = "step-back"
              ELSE /\ this.action # stalls[i - 1].action
                   /\ this.position >= stalls[i - 1].position + 2

\* Rounds that repeat have the ids of the first of them, and so of the last.
LEMMA RepeatedRounds ==
  ASSUME NEW h \in Seq(Records), Repeats(h)
  PROVE  LET n == Len(h)
         IN /\ n >= OscillationThreshold
            /\ \A i \in (n - OscillationThreshold + 1)..n : Ids(h[i]) = Ids(h[n])
<1> DEFINE n == Len(h)
           m == OscillationThreshold
           recent == Latest(h, m)
<1>1. n \in Nat /\ m \in 1..n
  BY ConvergenceAssumption DEF Repeats
<1>2. Len(recent) = m /\ \A k \in 1..m : recent[k] = h[n - m + k]
  BY <1>1, LatestIsTheEnd
<1>3. recent \in Seq(Records)
  BY <1>1 DEF Latest
<1>4. \A k \in 1..m : RoundRepeated(recent[1], recent[k])
  BY <1>2, <1>3 DEF Repeats
<1> HIDE DEF recent
<1>5. \A k \in 1..m : Ids(recent[1]) = Ids(recent[k])
  <2> TAKE k \in 1..m
  <2>1. recent[1] \in Records /\ recent[k] \in Records
    BY <1>1, <1>2, <1>3
  <2> QED BY <1>4, <2>1, RepeatedIds
<1>6. ASSUME NEW i \in (n - m + 1)..n PROVE Ids(h[i]) = Ids(h[n])
  <2>1. i - (n - m) \in 1..m /\ n - m + (i - (n - m)) = i /\ m \in 1..m /\ n - m + m = n
    BY <1>1
  <2>2. recent[i - (n - m)] = h[i] /\ recent[m] = h[n]
    BY <1>2, <2>1
  <2> QED BY <1>5, <2>1, <2>2
<1> QED BY <1>1, <1>6

\* Whatever the thresholds and the likeness of wordings, a repeat is of one set.
THEOREM RepeatsAreOfOneSet == HistorySpec => []RepeatIsOfOneSet
<1>1. HistoryInit => RepeatIsOfOneSet
  BY DEF HistoryInit, RepeatIsOfOneSet
<1>2. ASSUME HistoryInv, RepeatIsOfOneSet, [HistoryNext]_historyVars PROVE RepeatIsOfOneSet'
  <2>1. ASSUME NEW claims \in Rounds, Judge(claims) PROVE RepeatIsOfOneSet'
    <3>1. Record(claims) \in Records /\ history \in Seq(Records)
      BY <1>2, ConvergenceAssumption DEF Record, Records, HistoryInv, HistoryTypeOK
    <3>2. history' \in Seq(Records) /\ (verdict' = "repeat" => Repeats(history'))
      BY <2>1, <3>1 DEF Judge, StallAction
    <3> QED BY <3>2, RepeatedRounds DEF RepeatIsOfOneSet
  <2>2. CASE Unjudged \/ Resume
    BY <2>2 DEF Unjudged, Resume, RepeatIsOfOneSet
  <2>3. CASE UNCHANGED historyVars
    BY <1>2, <2>3 DEF historyVars, RepeatIsOfOneSet
  <2> QED BY <1>2, <2>1, <2>2, <2>3 DEF HistoryNext
<1> QED BY <1>1, <1>2, HistoryIsJudged, PTL DEF HistorySpec

\* A stall recorded of the round judged keeps its distance from the last one.
LEMMA StallsStepApart ==
  ASSUME HistoryInv, StallsKeepApart, NEW claims \in Rounds, Judge(claims)
  PROVE  StallsKeepApart'
<1> DEFINE h == Append(history, Record(claims))
           stall == [position |-> Len(history), action |-> StallAction]
<1>1. history \in Seq(Records) /\ Len(h) = Len(history) + 1 /\ Len(history) \in Nat
  BY DEF HistoryInv, HistoryTypeOK
<1>2. stalls \in Seq([position : Nat, action : {"step-back", "escalated"}])
  BY DEF HistoryInv, HistoryTypeOK
<1>3. Len(history') = Len(history) + 1
  BY <1>1 DEF Judge
<1> DEFINE Stall == [position : Nat, action : {"step-back", "escalated"}]
<1>6. \A i \in DOMAIN stalls : stalls[i].position \in Nat
  <2> SUFFICES ASSUME NEW i \in DOMAIN stalls PROVE stalls[i].position \in Nat
    OBVIOUS
  <2>1. stalls[i] \in Stall
    <3>1. stalls \in Seq(Stall)
      BY <1>2
    <3> HIDE DEF Stall
    <3> QED BY <3>1
  <2> QED BY <2>1
<1>4. CASE PlanStall(h)
  <2> DEFINE k == Len(stalls)
  <2>1. stalls' = Append(stalls, stall) /\ k \in Nat
    BY <1>2, <1>4 DEF Judge
  <2>2. /\ DOMAIN stalls' = 1..(k + 1) /\ DOMAIN stalls = 1..k /\ stalls'[k + 1] = stall
        /\ \A i \in 1..k : stalls'[i] = stalls[i]
    BY <1>2, <2>1
  <2>3. /\ Len(history) >= StallAfter /\ Len(history) >= 2
        /\ stalls # <<>> => Len(history) >= Last(stalls).position + 2
    BY <1>1, <1>4, ConvergenceAssumption DEF PlanStall
  <2>4. k = 0 => StallAction = "step-back"
    BY <1>2 DEF StallAction
  <2>5. k > 0 => stalls # <<>> /\ Last(stalls) = stalls[k] /\ StallAction # stalls[k].action
    BY <1>2 DEF StallAction, Last
  <2>6. stall.position = Len(history) /\ stall.action = StallAction
    OBVIOUS
  <2> HIDE DEF stall
  <2>7. ASSUME NEW i \in 1..k
        PROVE  LET this == stalls'[i]
               IN /\ this.position >= StallAfter /\ this.position >= 2
                  /\ this.position < Len(history')
                  /\ IF i = 1 THEN this.action = "step-back"
                     ELSE /\ this.action # stalls'[i - 1].action
                          /\ this.position >= stalls'[i - 1].position + 2
    <3>1. i # 1 => i - 1 \in 1..k
      BY <2>1
    <3>2. stalls[i].position \in Nat
      BY <1>6, <2>2
    <3> QED BY <1>1, <1>3, <2>2, <3>1, <3>2 DEF StallsKeepApart
  <2>8. /\ stall.position >= StallAfter /\ stall.position >= 2 /\ stall.position < Len(history')
        /\ IF k + 1 = 1 THEN stall.action = "step-back"
           ELSE /\ stall.action # stalls[k].action
                /\ stall.position >= stalls[k].position + 2
    BY <1>1, <1>3, <2>1, <2>3, <2>4, <2>5, <2>6
  <2>9. \A i \in 1..(k + 1) : i \in 1..k \/ i = k + 1
    BY <2>1
  <2>10. k + 1 # 1 => stalls'[(k + 1) - 1] = stalls[k]
    <3>1. k + 1 # 1 => (k + 1) - 1 = k /\ k \in 1..k
      BY <2>1
    <3> QED BY <2>2, <3>1
  <2>11. LET this == stalls'[k + 1]
         IN /\ this.position >= StallAfter /\ this.position >= 2
            /\ this.position < Len(history')
            /\ IF k + 1 = 1 THEN this.action = "step-back"
               ELSE /\ this.action # stalls'[(k + 1) - 1].action
                    /\ this.position >= stalls'[(k + 1) - 1].position + 2
    BY <2>2, <2>8, <2>10
  <2> HIDE DEF k
  <2> QED BY <2>2, <2>7, <2>9, <2>11 DEF StallsKeepApart
<1>5. CASE ~PlanStall(h)
  <2>1. stalls' = stalls
    BY <1>5 DEF Judge
  <2> QED BY <1>1, <1>3, <1>6, <2>1 DEF StallsKeepApart
<1> QED BY <1>4, <1>5

\* However a history goes on, is stopped and is resumed, the person is asked
\* about a stall only by every second one (planStall, stallAction).
THEOREM StallsAlternateApart == HistorySpec => []StallsKeepApart
<1>1. HistoryInit => StallsKeepApart
  BY DEF HistoryInit, StallsKeepApart
<1>2. HistoryInv /\ StallsKeepApart /\ [HistoryNext]_historyVars => StallsKeepApart'
  <2> SUFFICES ASSUME HistoryInv, StallsKeepApart, [HistoryNext]_historyVars
               PROVE  StallsKeepApart'
    OBVIOUS
  <2>1. CASE Unjudged \/ Resume \/ UNCHANGED historyVars
    BY <2>1 DEF Unjudged, Resume, historyVars, StallsKeepApart
  <2> QED BY <2>1, StallsStepApart DEF HistoryNext
<1> QED BY <1>1, <1>2, HistoryIsJudged, PTL DEF HistorySpec

\* The review loop at the guard, with the history it keeps: its rounds are the
\* rounds judged, and its counts of records are true until they reach TrendNeeds.
AtOneRound ==
    /\ round = run.reviewRound /\ cap = MaxReviewRounds
    /\ LET kept == run.planRecords + run.p1Records
       IN IF kept < TrendNeeds THEN Len(history) = kept ELSE Len(history) >= TrendNeeds

\* ReviewLoop leaves the guard's verdict open; the bounds it puts on the choice
\* are those of the judgement made, when TrendNeeds is a lower bound of both
\* windows: the loop may go on whenever the judgement does, still at one round
\* with the history, and may stop whenever it stops (guardProgress).
THEOREM LoopTakesEveryVerdict ==
  ASSUME IInv, HistoryInv, AtOneRound, pc = "judge", ~Passes(job),
         StallAfter = 0, TrendNeeds <= OscillationThreshold, TrendNeeds <= ConvergenceWindow,
         NEW claims \in Rounds, Judge(claims)
  PROVE  IF verdict' = "going"
         THEN ~AtCap(run) /\ (GuardPasses => AtOneRound')
         ELSE run.planRecords + run.p1Records + 1 >= TrendNeeds \/ AtCap(run)
<1> DEFINE h == Append(history, Record(claims))
           kept == run.planRecords + run.p1Records
<1>1. /\ history \in Seq(Records) /\ Len(history) \in Nat /\ round \in Nat
      /\ OscillationThreshold \in Nat /\ ConvergenceWindow \in Nat
  BY ConvergenceAssumption DEF HistoryInv, HistoryTypeOK
<1>2. h = history' /\ Len(h) = Len(history) + 1 /\ round' = round + 1 /\ cap' = cap
  BY <1>1 DEF Judge
<1>3. /\ run.planRecords \in Nat /\ run.p1Records \in Nat /\ run.reviewRound \in Nat
      /\ TrendNeeds \in Nat /\ MaxReviewRounds \in Nat
  BY CapAssumption DEF IInv, TypeOK, RunRecord
<1>4. ~PlanStall(h)
  BY DEF PlanStall
<1>5. /\ verdict' = "going" => ~(round' >= cap)
      /\ verdict' # "going" => Repeats(h) \/ TrendIsOff(h) \/ round' >= cap
  BY <1>4 DEF Judge
<1>6. Repeats(h) \/ TrendIsOff(h) => Len(h) >= TrendNeeds
  BY <1>1, <1>2, <1>3 DEF Repeats, TrendIsOff
<1>7. round' >= cap <=> AtCap(run)
  BY <1>2, <1>3 DEF AtOneRound, AtCap
<1>8. Len(h) >= TrendNeeds => kept + 1 >= TrendNeeds
  BY <1>1, <1>2, <1>3 DEF AtOneRound
<1>9. GuardPasses => AtOneRound'
  <2> SUFFICES ASSUME GuardPasses PROVE AtOneRound'
    OBVIOUS
  <2>1. run.fixInFlight = NoFix
    BY DEF IInv, FlightMatchesFindings
  <2>2. run \in RunRecord
    BY DEF IInv, TypeOK
  <2>3. /\ run'.reviewRound = run.reviewRound + 1 /\ run'.planRecords = run.planRecords
        /\ run'.p1Records = More(run.p1Records)
    BY <2>1, <2>2 DEF GuardPasses, FixStarted, WithRecord, RunRecord
  <2> QED BY <1>1, <1>2, <1>3, <2>3 DEF AtOneRound, More
<1> QED BY <1>5, <1>6, <1>7, <1>8, <1>9

=============================================================================

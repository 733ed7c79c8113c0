----------------------------- MODULE ReviewLoop -----------------------------
(***************************************************************************)
(* The second half of a run: the implement step of runPhases and the       *)
(* verify, review and fix loop of reviewPhase in src/src/orchestrator.ts,  *)
(* with the escalation path of execute and the way a resume reads the      *)
(* moved and raised findings of NEEDS-INPUT.md (src/src/cli.ts).           *)
(*                                                                         *)
(* As in PlanLoop, `run` is the durable record and an action is the code   *)
(* from one write of it to the next.  A list of findings is what the gate  *)
(* makes of it; the working tree is whether a gate pass covers it.         *)
(***************************************************************************)
EXTENDS Integers

CONSTANTS
    PlanRounds,      \* critiques the planning phase left in state.p1Rounds
    MaxReviewRounds, \* loop.maxReviewRounds
    MaxVerifyRounds, \* loop.maxVerifyRounds
    TrendNeeds,      \* fewest records on which assessConvergence can stop a run
    Holds,           \* the boundaries at which a gate or a host may stop the run
    PersonEdits,     \* whether a person moves and raises findings at a stop
    MaxRestarts      \* bound: times a process is started again

ASSUME CapAssumption == /\ PlanRounds \in Nat
                        /\ MaxReviewRounds \in Nat \ {0}
                        /\ MaxVerifyRounds \in Nat \ {0}
                        /\ TrendNeeds \in Nat \ {0}
                        /\ MaxRestarts \in Nat
ASSUME EditAssumption == PersonEdits \in BOOLEAN

VARIABLES
    run,   \* the durable record
    file,  \* NEEDS-INPUT.md: absent, with no Move block, or with some
    pc,    \* where the process is; "off" when none runs
    job,   \* the one local the loop keeps across a write: a verdict or a boundary
    seen   \* what the properties remember; nothing reads it

vars == <<run, file, pc, job, seen>>

\* What gate and toAddress make of a list: nothing in it, nothing a round is run
\* for (P3s), a tolerated P1 or a P2, or what must be fixed and reviewed again.
Verdicts == {"none", "minor", "worth", "blocking"}
Passes(v) == v # "blocking"
Rank == [none |-> 0, minor |-> 1, worth |-> 2, blocking |-> 3]

\* state.pendingFindings, with the round of the review that made the list.
NoFindings == [verdict |-> "none", at |-> 0]
Owed(r) == r.pending.verdict # "none"

NoFix == [round |-> 0, final |-> FALSE]

Init ==
    /\ run = [phase |-> "implementing", reviewRound |-> 0, verifyRound |-> 0,
              pending |-> NoFindings, fixInFlight |-> NoFix, finalFixDone |-> FALSE,
              planRecords |-> PlanRounds, p1Records |-> 0, verifyRecords |-> 0]
    /\ file = "absent"
    /\ pc = "start"
    /\ job = "none"
    /\ seen = [gated |-> FALSE, verdict |-> "none", restarts |-> 0]

-----------------------------------------------------------------------------
(* Ways to stop, and vibe resume.                                          *)

\* An Escalation: execute's catch saves the record, then the file is written.
Throw(r) ==
    /\ run' = r
    /\ pc' = "escalated"
    /\ job' = "none"
    /\ UNCHANGED file

Stop ==
    /\ pc' = "off"
    /\ job' = "none"

\* writeEscalation: a Move block for every finding still owed a round.
WriteNeedsInput ==
    /\ pc = "escalated"
    /\ file' = IF Owed(run) THEN "moves" ELSE "plain"
    /\ Stop
    /\ UNCHANGED <<run, seen>>

WriteTurns == {"implement", "verify-fix", "fix", "final-fix"}
Turns == WriteTurns \cup {"review", "confirm"}

\* What is left of a write turn that did not finish is in the tree.
Touched == IF pc \in WriteTurns THEN [seen EXCEPT !.gated = FALSE] ELSE seen

\* A turn that fails or is stopped: an error, which writes no file, or an escalation.
TurnFails ==
    /\ pc \in Turns
    /\ Stop
    /\ seen' = Touched
    /\ UNCHANGED <<run, file>>

TurnEscalates ==
    /\ pc \in Turns
    /\ Throw(run)
    /\ seen' = Touched

\* The process is killed between two writes.
Killed ==
    /\ pc \notin {"off", "done"}
    /\ Stop
    /\ seen' = Touched
    /\ UNCHANGED <<run, file>>

\* A person works on the tree while the run is stopped.
TreeEdited ==
    /\ pc = "off" /\ run.phase # "complete"
    /\ seen' = [seen EXCEPT !.gated = FALSE]
    /\ UNCHANGED <<run, file, pc, job>>

CanRestart == pc = "off" /\ run.phase # "complete" /\ seen.restarts < MaxRestarts
Restarted == seen' = [seen EXCEPT !.restarts = @ + 1]

ResumePlain ==
    /\ CanRestart /\ file = "absent"
    /\ pc' = "start"
    /\ Restarted
    /\ UNCHANGED <<run, file, job>>

\* acceptMoves: severities changed on the findings the file listed.
Moved(p) ==
    IF PersonEdits /\ file = "moves" /\ p.verdict # "none"
    THEN {[p EXCEPT !.verdict = v] : v \in Verdicts \ {"none"}} ELSE {p}

\* acceptRaised: a finding merged into whatever is pending.
Raised(p) ==
    IF PersonEdits
    THEN {p} \cup {[verdict |-> v, at |-> IF p.verdict = "none" THEN run.reviewRound ELSE p.at] :
                      v \in {w \in Verdicts \ {"none"} : Rank[w] >= Rank[p.verdict]}}
    ELSE {p}

\* Edits are for the reviewing phase; a file read before it edits nothing here.
ResumeWithEdits ==
    /\ CanRestart /\ file # "absent"
    /\ \E moved \in Moved(run.pending) : \E p \in Raised(moved) :
          /\ run.phase # "reviewing" => p = run.pending
          /\ run' = [run EXCEPT !.pending = p]
    /\ pc' = "retire"
    /\ Restarted
    /\ UNCHANGED <<file, job>>

\* renameSync to stalled-<n>.md, after the edits are saved.
RetireFile ==
    /\ pc = "retire"
    /\ file' = "absent"
    /\ pc' = "start"
    /\ UNCHANGED <<run, job, seen>>

-----------------------------------------------------------------------------
(* Implementing.                                                           *)

StartImplement ==
    /\ pc = "start" /\ run.phase = "implementing"
    /\ pc' = "implement"
    /\ UNCHANGED <<run, file, job, seen>>

\* advancePhase comes before the commit, which git add can fail.
Implement ==
    /\ pc = "implement"
    /\ run' = [run EXCEPT !.phase = "reviewing"]
    /\ pc' = "commit"
    /\ job' = "implemented"
    /\ seen' = [seen EXCEPT !.gated = FALSE]
    /\ UNCHANGED file

\* (wrong: the phase is taken back with the commit)
CommitFailsAndRollsBack ==
    /\ pc = "commit"
    /\ Stop
    /\ run' = [run EXCEPT !.phase = "implementing"]
    /\ UNCHANGED <<file, seen>>

CommitFails ==
    /\ pc = "commit"
    /\ Stop
    /\ UNCHANGED <<run, file, seen>>

\* After the implementation alone: the histories start again.
FreshHistories(r) == [r EXCEPT !.planRecords = 0, !.p1Records = 0, !.verifyRecords = 0]

Commit ==
    /\ pc = "commit"
    /\ run' = IF job = "implemented" THEN FreshHistories(run) ELSE run
    /\ pc' = IF job = "final-fix" THEN "loop" ELSE "hold"
    /\ UNCHANGED <<file, job, seen>>

HoldPasses ==
    /\ pc = "hold"
    /\ pc' = "loop"
    /\ job' = "none"
    /\ UNCHANGED <<run, file, seen>>

HoldStops ==
    /\ pc = "hold" /\ job \in Holds
    /\ Throw(run)
    /\ UNCHANGED seen

StartReviewing ==
    /\ pc = "start" /\ run.phase = "reviewing"
    /\ pc' = "loop"
    /\ UNCHANGED <<run, file, job, seen>>

-----------------------------------------------------------------------------
(* reviewPhase: findings first, then the gates, then a review.             *)

\* The final round whose turn did not finish, resumed as itself.
FinalInFlight(r) == r.fixInFlight.final /\ r.fixInFlight.round = r.reviewRound

\* (wrong: a retry is numbered as a new round)
FixStartedAgain(r) ==
    LET round == r.reviewRound + 1
    IN  [r EXCEPT !.reviewRound = round, !.fixInFlight = [round |-> round, final |-> FALSE]]

\* runFixRound's opening save; a round in flight keeps its number.
FixStarted(r) ==
    LET again == r.fixInFlight # NoFix /\ ~r.fixInFlight.final /\ r.fixInFlight.round = r.reviewRound
        round == IF again THEN r.reviewRound ELSE r.reviewRound + 1
    IN  [r EXCEPT !.reviewRound = round, !.fixInFlight = [round |-> round, final |-> FALSE]]

FixCarried ==
    /\ pc = "loop" /\ Owed(run) /\ ~FinalInFlight(run)
    /\ run' = FixStarted(run)
    /\ pc' = "fix"
    /\ job' = "none"
    /\ UNCHANGED <<file, seen>>

FinishCarried ==
    /\ pc = "loop" /\ Owed(run) /\ FinalInFlight(run)
    /\ pc' = "final-fix"
    /\ job' = "none"
    /\ UNCHANGED <<run, file, seen>>

\* (wrong: the final fix is not verified)
AfterFindingsUnverified(r) == IF r.finalFixDone THEN "confirm" ELSE "gate"
AfterFindings(r) == "gate"

NothingCarried ==
    /\ pc = "loop" /\ ~Owed(run)
    /\ pc' = AfterFindings(run)
    /\ job' = "none"
    /\ UNCHANGED <<run, file, seen>>

\* runGate: every gate passed, or none could or should be run.
GatePasses ==
    /\ pc = "gate"
    /\ pc' = IF run.finalFixDone THEN "confirm" ELSE "review"
    /\ seen' = [seen EXCEPT !.gated = TRUE]
    /\ UNCHANGED <<run, file, job>>

\* A gate whose command could not be launched.
GateUnlaunchable ==
    /\ pc = "gate"
    /\ Throw(run)
    /\ UNCHANGED seen

\* Histories are counted as far as assessConvergence can tell them apart.
More(n) == IF n < TrendNeeds THEN n + 1 ELSE n

WithVerifyRecord(r) == [r EXCEPT !.verifyRecords = More(@)]

\* (wrong: one round late)
VerifyAtCapLate(r) == r.verifyRound >= MaxVerifyRounds
VerifyAtCap(r) == r.verifyRound + 1 >= MaxVerifyRounds

\* guardProgress over verifyRounds: a trend or the cap stops the run.
GateFailsForGood ==
    /\ pc = "gate"
    /\ run.verifyRecords + 1 >= TrendNeeds \/ VerifyAtCap(run)
    /\ Throw(WithVerifyRecord(run))
    /\ UNCHANGED seen

\* (wrong: the round is not counted)
VerifyStartedUncounted(r) == WithVerifyRecord(r)
VerifyStarted(r) == [WithVerifyRecord(r) EXCEPT !.verifyRound = @ + 1]

GateFails ==
    /\ pc = "gate" /\ ~VerifyAtCap(run)
    /\ run' = VerifyStarted(run)
    /\ pc' = "verify-fix"
    /\ UNCHANGED <<file, job, seen>>

VerifyFix ==
    /\ pc = "verify-fix"
    /\ pc' = "commit"
    /\ job' = "verify-round"
    /\ seen' = [seen EXCEPT !.gated = FALSE]
    /\ UNCHANGED <<run, file>>

-----------------------------------------------------------------------------
(* The review and its guard.                                               *)

\* recordPendingFindings, before the gate; an empty list is owed nothing.
Recorded(r, verdict) ==
    [r EXCEPT !.pending = IF verdict = "none" THEN NoFindings
                          ELSE [verdict |-> verdict, at |-> r.reviewRound]]

Review ==
    /\ pc = "review"
    /\ \E verdict \in Verdicts :
          /\ run' = Recorded(run, verdict)
          /\ job' = verdict
          /\ seen' = [seen EXCEPT !.verdict = verdict]
    /\ pc' = "judge"
    /\ UNCHANGED file

\* With the round on record: the compaction beside the review met a ceiling, or
\* review.unconfirmedP0 is "halt" and the verifiers did not confirm a P0.
ReviewHalts ==
    /\ pc = "judge"
    /\ Throw(run)
    /\ UNCHANGED seen

\* Nothing to run a round for: the findings are cleared and the loop ends.
ReviewApproved ==
    /\ pc = "judge" /\ job \in {"none", "minor"}
    /\ run' = [run EXCEPT !.pending = NoFindings]
    /\ pc' = "finished"
    /\ job' = "none"
    /\ UNCHANGED <<file, seen>>

\* runFinalFix's opening save, not resumed.
FinalStarted(r) ==
    [r EXCEPT !.reviewRound = @ + 1, !.finalFixDone = TRUE,
              !.fixInFlight = [round |-> r.reviewRound + 1, final |-> TRUE]]

\* (wrong: a blocking list gets the round nobody reviews)
TakesFinalFixBlocking(v) == v \in {"worth", "blocking"}
TakesFinalFix(v) == v = "worth"

StartFinalFix ==
    /\ pc = "judge" /\ TakesFinalFix(job)
    /\ run' = FinalStarted(run)
    /\ pc' = "final-fix"
    /\ job' = "none"
    /\ UNCHANGED <<file, seen>>

WithRecord(r) == [r EXCEPT !.p1Records = More(@)]

\* (wrong: one round late)
AtCapLate(r) == r.reviewRound >= MaxReviewRounds
AtCap(r) == r.reviewRound + 1 >= MaxReviewRounds

GuardStops ==
    /\ pc = "judge" /\ ~Passes(job)
    /\ run.planRecords + run.p1Records + 1 >= TrendNeeds \/ AtCap(run)
    /\ Throw(WithRecord(run))
    /\ UNCHANGED seen

\* Silent: the loop takes the findings just recorded, on one save with the record.
GuardPasses ==
    /\ pc = "judge" /\ ~Passes(job) /\ ~AtCap(run)
    /\ run' = FixStarted(WithRecord(run))
    /\ pc' = "fix"
    /\ job' = "none"
    /\ UNCHANGED <<file, seen>>

-----------------------------------------------------------------------------
(* The fix turns, and the end.                                             *)

\* The turn's findings and the round's marker go on one save.
Consumed(r) == [r EXCEPT !.pending = NoFindings, !.fixInFlight = NoFix]

FixTurn ==
    /\ pc \in {"fix", "final-fix"}
    /\ run' = Consumed(run)
    /\ job' = IF pc = "fix" THEN "review-round" ELSE "final-fix"
    /\ pc' = "commit"
    /\ seen' = [seen EXCEPT !.gated = FALSE]
    /\ UNCHANGED file

\* confirmFinalFix, finaliseOutstanding and replayEditedTests: records only.
Confirm ==
    /\ pc = "confirm"
    /\ pc' = "finished"
    /\ UNCHANGED <<run, file, job, seen>>

Complete ==
    /\ pc = "finished"
    /\ run' = [run EXCEPT !.phase = "complete"]
    /\ pc' = "done"
    /\ UNCHANGED <<file, job, seen>>

-----------------------------------------------------------------------------
Step ==
    \/ WriteNeedsInput \/ RetireFile
    \/ StartImplement \/ Implement \/ CommitFails \/ Commit \/ HoldPasses \/ HoldStops
    \/ StartReviewing \/ FixCarried \/ FinishCarried \/ NothingCarried
    \/ GatePasses \/ GateUnlaunchable \/ GateFailsForGood \/ GateFails \/ VerifyFix
    \/ Review \/ ReviewHalts \/ ReviewApproved \/ StartFinalFix
    \/ GuardStops \/ GuardPasses \/ FixTurn \/ Confirm \/ Complete

Next ==
    \/ Step \/ TurnFails \/ TurnEscalates \/ Killed \/ TreeEdited
    \/ ResumePlain \/ ResumeWithEdits

Spec == Init /\ [][Next]_vars

\* A live process keeps going; nothing makes a person resume a stopped run.
FairSpec == Spec /\ WF_vars(Step)

-----------------------------------------------------------------------------
(* Properties.                                                             *)

Phases == {"implementing", "reviewing", "complete"}
Pcs == Turns \cup {"start", "commit", "hold", "loop", "gate", "judge", "finished",
                   "escalated", "retire", "off", "done"}
Boundaries == {"implemented", "verify-round", "review-round", "final-fix"}

RunRecord ==
    [phase : Phases, reviewRound : Nat, verifyRound : Nat,
     pending : [verdict : Verdicts, at : Nat],
     fixInFlight : [round : Nat, final : BOOLEAN], finalFixDone : BOOLEAN,
     planRecords : Nat, p1Records : Nat, verifyRecords : Nat]

Memory == [gated : BOOLEAN, verdict : Verdicts, restarts : Nat]

\* Every field keeps the shape validateStoredState demands of a stored run.
TypeOK ==
    /\ run \in RunRecord
    /\ file \in {"absent", "plain", "moves"}
    /\ pc \in Pcs
    /\ job \in Verdicts \cup Boundaries
    /\ seen \in Memory

\* A run that completes was verified as it stands: no write turn, half-done turn
\* or edit made while it was stopped came after the last pass of the gates.
DoneIsVerified == run.phase = "complete" => seen.gated

\* A run completes only on a review the gate passed, whatever kills and resumes
\* came between the review, its fix round and the end (reviewPhase).
DoneIsApproved == run.phase = "complete" => Passes(seen.verdict)

\* The caps hold across resumes: verification never gets an extra round, and a
\* resume buys at most the one fix round it takes from the findings it found.
RoundsAreBounded ==
    /\ run.verifyRound < MaxVerifyRounds
    /\ run.reviewRound <= MaxReviewRounds + seen.restarts

\* The fix of the review made at round r runs as round r + 1, however often its
\* turn dies and is taken up again (fixInFlight, #393).
FixAnswersItsReview ==
    pc \in {"fix", "final-fix"} /\ Owed(run) => run.reviewRound = run.pending.at + 1

\* The second half implements the abstract run: see RunPhases.  A commit that
\* fails after the implementation, a kill or a stop never takes a phase back.
Abstract == INSTANCE RunPhases
          WITH First <- "implementing", phase <- run.phase, planOnly <- FALSE,
               working <- pc # "off"
KeepsThePhases == Abstract!Spec

\* Left alone, a process ends: verify fixes and fix rounds cannot alternate for ever.
ReviewEnds == []<>(pc \in {"off", "done"})
=============================================================================

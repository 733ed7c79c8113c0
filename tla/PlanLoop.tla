------------------------------ MODULE PlanLoop ------------------------------
(***************************************************************************)
(* The planning half of a run: planPhase in src/src/orchestrator.ts with   *)
(* the revision, the questions, the approval and the loop guard it calls,  *)
(* the escalation path of execute, and the way a resume reads              *)
(* NEEDS-INPUT.md back in (src/src/cli.ts).                                *)
(*                                                                         *)
(* `run` is the durable record (state.json).  Every action is the code from  *)
(* one write of that record to the next, so the copy a process holds in    *)
(* memory equals `run` between actions and a kill loses only pc and job.   *)
(* A draft of the plan is its number; a set of findings is the verdict the *)
(* gate gives it; a question is one class of wordings the re-ask guard     *)
(* takes for the same question.                                            *)
(***************************************************************************)
EXTENDS Integers, FiniteSets, Sequences

CONSTANTS
    Questions,         \* the questions a draft may leave open
    Blocking,          \* those the planner marks blocking
    StallQuestion,     \* STALL_QUESTION, asked by the loop itself
    Settings,          \* the configurations a run may have, and what it is created for
    AnswerNonBlocking, \* questions.answerNonBlocking
    MaxQuestionRounds, \* loop.maxQuestionRounds
    Holds,             \* the boundaries at which a gate or a host may stop the run
    MaxRestarts        \* bound: times a process is started again

ASSUME QuestionAssumption == Blocking \subseteq Questions /\ StallQuestion \notin Questions
ASSUME CapAssumption == MaxQuestionRounds \in Nat \ {0} /\ MaxRestarts \in Nat
ASSUME FlagAssumption == AnswerNonBlocking \in BOOLEAN

\* answerer: questions.askCodex.  drafts: the questions a draft may leave open.
\* planOnly: the flag createRun is given, to plan and no more.
\* maxPlanRounds: loop.maxPlanRounds.  trendNeeds: fewest records on which
\* assessConvergence can stop a run.  stallAfter: loop.stallAfter, 0 when off.
ASSUME SettingsAssumption ==
    \A c \in Settings :
        /\ c.answerer \in BOOLEAN /\ c.planOnly \in BOOLEAN
        /\ c.drafts \subseteq Questions
        /\ c.maxPlanRounds \in Nat \ {0} /\ c.trendNeeds \in Nat \ {0} /\ c.stallAfter \in Nat

VARIABLES
    run,   \* the durable record
    file,  \* NEEDS-INPUT.md, or NoFile
    pc,    \* where the process is; "off" when none runs
    job,   \* the locals of the process: lost with it
    seen   \* what the properties remember; nothing reads it

vars == <<run, file, pc, job, seen>>

Asked == Questions \cup {StallQuestion}

\* gate(findings, tolerance) on a non-empty list of findings.
Verdicts == {"clean", "tolerated", "blocking"}
Passes(v) == v # "blocking"
Rank == [clean |-> 1, tolerated |-> 2, blocking |-> 3]

\* state.pendingFindings: null, or the findings of critique number `of`
\* (0 for a list that holds only what a person raised).
NoFindings == [of |-> -1, verdict |-> "none", moved |-> FALSE]
Owed == run.pending # NoFindings
NoJob == [args |-> "none", asking |-> {}, usable |-> {}, refused |-> {}, hand |-> {}, verdict |-> "none"]
NoFile == [there |-> FALSE, asks |-> {}, moves |-> FALSE]

Init ==
    /\ \E cfg \in Settings :
       run = [phase |-> "planning", planOnly |-> cfg.planOnly, cfg |-> cfg,
              planRound |-> 0, questionRound |-> 0, plan |-> 0, asks |-> {}, pending |-> NoFindings,
              pendingAnswers |-> {}, advisory |-> {}, answered |-> {},
              revisedByAnswer |-> FALSE, carried |-> 0, rounds |-> 0, stalls |-> <<>>]
    /\ file = NoFile
    /\ pc = "start"
    /\ job = NoJob
    /\ seen = [critiques |-> 0, read |-> 0, moved |-> 0, by |-> "nobody",
               given |-> {}, delivered |-> {}, declined |-> {}, handed |-> {}, lost |-> {}, restarts |-> 0,
               accepted |-> {}]

-----------------------------------------------------------------------------
(* A throw: execute's catch saves the record, then writes NEEDS-INPUT.md.  *)

Throw(r, hand) ==
    /\ run' = r
    /\ pc' = "escalated"
    /\ job' = [NoJob EXCEPT !.hand = hand]
    /\ UNCHANGED file

\* writeEscalation: the questions handed to the person, and a Move block for
\* every finding the run still owes a revision.
WriteNeedsInput ==
    /\ pc = "escalated"
    /\ file' = [there |-> TRUE, asks |-> job.hand, moves |-> Owed]
    /\ pc' = "off"
    /\ job' = NoJob
    /\ seen' = [seen EXCEPT !.handed = @ \cup job.hand]
    /\ UNCHANGED run

\* A turn that fails, a ceiling, a cancel or a hang: an error, which writes no
\* file, or an escalation without questions.
TurnPcs == {"drafting", "revise", "asking", "critiquing", "judge"}

TurnFails ==
    /\ pc \in TurnPcs
    /\ pc' = "off"
    /\ job' = NoJob
    /\ UNCHANGED <<run, file, seen>>

TurnEscalates ==
    /\ pc \in TurnPcs
    /\ Throw(run, {})
    /\ UNCHANGED seen

\* The process is killed between two writes.
Killed ==
    /\ pc \notin {"off", "done"}
    /\ pc' = "off"
    /\ job' = NoJob
    /\ seen' = [seen EXCEPT !.lost = @ \cup (seen.declined \ seen.handed)]
    /\ UNCHANGED <<run, file>>

-----------------------------------------------------------------------------
(* vibe resume.                                                            *)

CanRestart == pc = "off" /\ run.phase = "planning" /\ seen.restarts < MaxRestarts

ResumePlain ==
    /\ CanRestart /\ ~file.there
    /\ pc' = "start"
    /\ job' = NoJob
    /\ seen' = [seen EXCEPT !.restarts = @ + 1]
    /\ UNCHANGED <<run, file>>

\* acceptMoves: severities changed by hand on the findings the file listed.
Moves == {[run.pending EXCEPT !.verdict = v, !.moved = TRUE] : v \in Verdicts}

\* acceptRaised: a finding added to whatever is pending.
RaisedOn(p) ==
    IF p = NoFindings
    THEN {[of |-> 0, verdict |-> v, moved |-> FALSE] : v \in Verdicts}
    ELSE {[p EXCEPT !.verdict = v] : v \in {w \in Verdicts : Rank[w] >= Rank[p.verdict]}}

\* A resume that reads the file.  One with questions needs an answer, or a move
\* alone; the edits are saved before the answers, the file is retired last.
ResumeWithEdits(p, given) ==
    /\ CanRestart /\ file.there
    /\ LET moving == file.moves /\ Owed /\ p \in UNION {{m} \cup RaisedOn(m) : m \in Moves}
       IN  /\ moving \/ p = run.pending \/ p \in RaisedOn(run.pending)
           /\ file.asks = {} \/ given # {} \/ moving
           /\ run' = [run EXCEPT !.pending = p]
           /\ seen' = [seen EXCEPT !.restarts = @ + 1,
                                   !.moved = IF moving THEN run.plan ELSE @]
    /\ pc' = IF given = {} THEN "retire" ELSE "answers"
    /\ job' = [NoJob EXCEPT !.usable = given]
    /\ UNCHANGED file

\* mergeHumanAnswers and recordHumanAnswers, on one save.
TakeAnswers ==
    /\ pc = "answers"
    /\ run' = [run EXCEPT !.pendingAnswers = @ \cup job.usable]
    /\ seen' = [seen EXCEPT !.given = @ \cup job.usable]
    /\ pc' = "retire"
    /\ job' = NoJob
    /\ UNCHANGED file

\* renameSync: answered-<n>.md or stalled-<n>.md.
RetireFile ==
    /\ pc = "retire"
    /\ file' = NoFile
    /\ pc' = "start"
    /\ UNCHANGED <<run, job, seen>>

-----------------------------------------------------------------------------
(* The plan, and revisePlan.                                               *)

StartDraft ==
    /\ pc = "start" /\ run.plan = 0
    /\ pc' = "drafting"
    /\ UNCHANGED <<run, file, job, seen>>

Draft ==
    /\ pc = "drafting"
    /\ \E asks \in SUBSET run.cfg.drafts : run' = [run EXCEPT !.plan = 1, !.asks = asks]
    /\ pc' = "answersDue"
    /\ UNCHANGED <<file, job, seen>>

HasPlan ==
    /\ pc = "start" /\ run.plan # 0
    /\ pc' = "answersDue"
    /\ UNCHANGED <<run, file, job, seen>>

NoAnswersDue ==
    /\ pc = "answersDue" /\ run.pendingAnswers = {}
    /\ pc' = "loop"
    /\ UNCHANGED <<run, file, job, seen>>

\* (wrong: the answers are consumed before the turn)
OpenedForAnswersConsumed(r) ==
    [r EXCEPT !.answered = @ \cup r.pendingAnswers, !.pendingAnswers = {}]
OpenedForAnswers(r) == [r EXCEPT !.answered = @ \cup r.pendingAnswers]

\* markAnswered for each pending answer, on revisePlan's opening save.
ReviseForAnswers ==
    /\ pc = "answersDue" /\ run.pendingAnswers # {}
    /\ run' = OpenedForAnswers(run)
    /\ pc' = "revise"
    /\ job' = [NoJob EXCEPT !.args = "answers"]
    /\ UNCHANGED <<file, seen>>

Opened(r) == [r EXCEPT !.planRound = @ + 1]

\* (wrong: the request is never marked sent)
StepBackSentForgotten(stalls) == stalls

\* pendingStepBack, marked sent on the write of the plan it shaped.
StepBackSent(stalls) ==
    IF stalls # <<>> /\ stalls[Len(stalls)].action = "step-back"
    THEN [stalls EXCEPT ![Len(stalls)].sent = TRUE]
    ELSE stalls

\* (wrong: an answers revision takes the findings with it)
AnswersRevisionClears(r, asks) ==
    [r EXCEPT !.plan = @ + 1, !.asks = asks, !.pendingAnswers = {},
              !.pending = NoFindings]
\* (wrong: nothing marks the findings as overtaken by an answer)
AnswersRevisionNoMark(r, asks) ==
    [r EXCEPT !.plan = @ + 1, !.asks = asks, !.pendingAnswers = {}]

\* The write that persists a revision consumes what it answered, and only that.
AnswersRevision(r, asks) ==
    [r EXCEPT !.plan = @ + 1, !.asks = asks, !.pendingAnswers = {},
              !.revisedByAnswer = @ \/ r.pending # NoFindings]

FindingsRevision(r, asks) ==
    [r EXCEPT !.plan = @ + 1, !.asks = asks, !.pending = NoFindings,
              !.revisedByAnswer = FALSE, !.advisory = {},
              !.stalls = StepBackSent(@)]

Revise ==
    /\ pc = "revise"
    /\ \E asks \in SUBSET run.cfg.drafts :
          run' = IF job.args = "answers" THEN AnswersRevision(run, asks)
                                         ELSE FindingsRevision(run, asks)
    /\ seen' = [seen EXCEPT !.delivered =
                  @ \cup (IF job.args = "answers" THEN run.pendingAnswers ELSE run.advisory)]
    /\ pc' = IF job.args = "findings" THEN "plan-round" ELSE "loop"
    /\ job' = NoJob
    /\ UNCHANGED file

\* holdAt: the boundary passes, or the gate matrix or the host stops the run.
HoldPasses ==
    /\ pc = "plan-round"
    /\ pc' = "loop"
    /\ UNCHANGED <<run, file, job, seen>>

HoldStops ==
    /\ pc \in {"plan-round", "question-round"} \cap Holds
    /\ Throw(run, job.asking)
    /\ UNCHANGED seen

-----------------------------------------------------------------------------
(* The top of the loop: findings first, then questions, then a critique.   *)

\* Moved by a person, nothing revised for an answer since, and the gate passes.
Accepts(r) == r.pending.moved /\ ~r.revisedByAnswer /\ Passes(r.pending.verdict)

\* approvePlan's first save; state.carried is written only when P1s are tolerated.
Approved(r, of, verdict) == [r EXCEPT !.carried = IF verdict = "tolerated" THEN of ELSE @]

AcceptByPerson ==
    /\ pc = "loop" /\ Owed /\ Accepts(run)
    /\ run' = Approved(run, run.pending.of, run.pending.verdict)
    /\ seen' = [seen EXCEPT !.by = "person", !.accepted = @ \cup {Len(run.stalls)}]
    /\ pc' = "approved"
    /\ UNCHANGED <<file, job>>

ReviseCarried ==
    /\ pc = "loop" /\ Owed /\ ~Accepts(run)
    /\ run' = Opened(run)
    /\ pc' = "revise"
    /\ job' = [NoJob EXCEPT !.args = "findings"]
    /\ UNCHANGED <<file, seen>>

\* The open questions nobody has been asked yet.
Open(r) == {q \in r.asks : q \in Blocking \/ AnswerNonBlocking} \ r.answered

\* (wrong: the round is not counted)
NextRoundUncounted(r) == r
NextRound(r) == [r EXCEPT !.questionRound = @ + 1]

OutOfQuestionRounds ==
    /\ pc = "loop" /\ ~Owed /\ Open(run) # {}
    /\ run.questionRound >= MaxQuestionRounds
    /\ Throw(run, Open(run))
    /\ UNCHANGED seen

AskQuestions ==
    /\ pc = "loop" /\ ~Owed /\ Open(run) # {}
    /\ run.questionRound < MaxQuestionRounds
    /\ run' = NextRound(run)
    /\ pc' = "asking"
    /\ job' = [NoJob EXCEPT !.asking = Open(run)]
    /\ UNCHANGED <<file, seen>>

\* resolveQuestions with the answerer off: it takes no turn and marks nothing.
AnswererIsOff ==
    /\ pc = "asking" /\ ~run.cfg.answerer
    /\ IF job.asking \cap Blocking = {}
       THEN pc' = "question-round" /\ UNCHANGED <<run, file, job>>
       ELSE Throw(run, job.asking \cap Blocking)
    /\ UNCHANGED seen

\* One save: every question asked is marked answered, the usable answers are kept.
Marked(r, asking, usable) ==
    [r EXCEPT !.answered = @ \cup asking, !.pendingAnswers = usable]

AnswererReplies(usable, refused) ==
    /\ pc = "asking" /\ run.cfg.answerer
    /\ usable \cap refused = {}
    /\ usable \cup refused \subseteq job.asking
    /\ run' = Marked(run, job.asking, usable)
    /\ pc' = "answered"
    /\ job' = [job EXCEPT !.usable = usable, !.refused = refused]
    /\ seen' = [seen EXCEPT !.given = @ \cup usable,
                            !.declined = @ \cup (refused \cap Blocking)]
    /\ UNCHANGED file

\* (wrong: a round that answered something is not put to a person)
HandedIfAllRefused(asking, refused) == IF refused = asking THEN refused \cap Blocking ELSE {}

Handed(asking, refused) == refused \cap Blocking

RefusedBlocking ==
    /\ pc = "answered" /\ Handed(job.asking, job.refused) # {}
    /\ Throw(run, Handed(job.asking, job.refused))
    /\ UNCHANGED seen

NothingRefused ==
    /\ pc = "answered" /\ Handed(job.asking, job.refused) = {}
    /\ pc' = "question-round"
    /\ UNCHANGED <<run, file, job, seen>>

AdvisoryOnly == job.usable # {} /\ job.asking \cap Blocking = {}

\* Every question advisory: the answers wait for the next findings revision.
KeepAdvisory ==
    /\ pc = "question-round" /\ AdvisoryOnly
    /\ run' = [run EXCEPT !.advisory = @ \cup job.usable, !.pendingAnswers = {}]
    /\ pc' = "loop"
    /\ job' = NoJob
    /\ UNCHANGED <<file, seen>>

ReviseForAnswerer ==
    /\ pc = "question-round" /\ job.usable # {} /\ ~AdvisoryOnly
    /\ pc' = "revise"
    /\ job' = [NoJob EXCEPT !.args = "answers"]
    /\ UNCHANGED <<run, file, seen>>

NoUsableAnswer ==
    /\ pc = "question-round" /\ job.usable = {}
    /\ pc' = "loop"
    /\ job' = NoJob
    /\ UNCHANGED <<run, file, seen>>

-----------------------------------------------------------------------------
(* The critique, the gate and guardProgress.                               *)

StartCritique ==
    /\ pc = "loop" /\ ~Owed /\ Open(run) = {}
    /\ pc' = "critiquing"
    /\ UNCHANGED <<run, file, job, seen>>

\* A critique that found nothing leaves nothing for a revision.
Recorded(r, of, verdict) ==
    [r EXCEPT !.pending = IF verdict = "none" THEN NoFindings
                          ELSE [of |-> of, verdict |-> verdict, moved |-> FALSE]]

\* recordPendingFindings, inside the compaction wrapper and before the gate.
Critique ==
    /\ pc = "critiquing"
    /\ \E verdict \in Verdicts \cup {"none"} :
          /\ run' = Recorded(run, seen.critiques + 1, verdict)
          /\ job' = [NoJob EXCEPT !.verdict = verdict]
    /\ seen' = [seen EXCEPT !.critiques = @ + 1, !.read = run.plan]
    /\ pc' = "judge"
    /\ UNCHANGED file

Approve ==
    /\ pc = "judge" /\ Passes(job.verdict)
    /\ run' = Approved(run, seen.critiques, job.verdict)
    /\ seen' = [seen EXCEPT !.by = "critic"]
    /\ pc' = "approved"
    /\ job' = NoJob
    /\ UNCHANGED file

\* The guard is not reached: an unconfirmed P0 under "halt", guardPlanBudget, or,
\* whatever the critique found, the compaction beside it that met a ceiling and
\* is rethrown once the round is on record.
StopsBeforeGuard ==
    /\ pc = "judge"
    /\ Throw(run, {})
    /\ UNCHANGED seen

\* stallAction: where the last stall was judged, and what the next one does.
LastEscalated(stalls) ==
    LET at == {i \in DOMAIN stalls : stalls[i].action = "escalated"}
    IN  IF at = {} THEN 0 ELSE CHOOSE i \in at : \A j \in at : j <= i
StallAction(stalls) ==
    IF \E i \in DOMAIN stalls : i > LastEscalated(stalls) /\ stalls[i].action = "step-back"
    THEN "escalated" ELSE "step-back"

\* planStall's preconditions for the record at position r.
MayStall(r, stalls) ==
    /\ run.cfg.stallAfter > 0
    /\ r >= run.cfg.stallAfter /\ r >= 2
    /\ (stalls # <<>> => r >= stalls[Len(stalls)].position + 2)

AtCap(r) == r.planRound + 1 >= r.cfg.maxPlanRounds

WithRecord(r) == [r EXCEPT !.rounds = @ + 1]

\* Stalled: recorded with the round, on the save of its event.
Stall ==
    /\ pc = "judge" /\ ~Passes(job.verdict) /\ MayStall(run.rounds, run.stalls)
    /\ run' = [WithRecord(run) EXCEPT !.stalls =
                 Append(run.stalls, [position |-> run.rounds, sent |-> FALSE,
                                     action |-> StallAction(run.stalls)])]
    /\ pc' = "stalled"
    /\ UNCHANGED <<file, job, seen>>

StallEscalates ==
    /\ pc = "stalled"
    /\ LET escalated == run.stalls[Len(run.stalls)].action = "escalated"
       IN  /\ escalated \/ AtCap(run)
           /\ Throw(run, IF escalated THEN {StallQuestion} ELSE {})
    /\ UNCHANGED seen

ReviseAfterStall ==
    /\ pc = "stalled"
    /\ run.stalls[Len(run.stalls)].action = "step-back" /\ ~AtCap(run)
    /\ run' = Opened(run)
    /\ pc' = "revise"
    /\ job' = [NoJob EXCEPT !.args = "findings"]
    /\ UNCHANGED <<file, seen>>

\* Not stalled: a trend or the cap stops the run.
GuardStops ==
    /\ pc = "judge" /\ ~Passes(job.verdict)
    /\ run.rounds + 1 >= run.cfg.trendNeeds \/ AtCap(run)
    /\ Throw(WithRecord(run), {})
    /\ UNCHANGED seen

\* The guard is silent: its record is saved by the revision's opening save.
GuardPasses ==
    /\ pc = "judge" /\ ~Passes(job.verdict) /\ ~AtCap(run)
    /\ run' = Opened(WithRecord(run))
    /\ pc' = "revise"
    /\ job' = [NoJob EXCEPT !.args = "findings"]
    /\ UNCHANGED <<file, seen>>

-----------------------------------------------------------------------------
(* The plan is approved: clearPendingFindings, then advancePhase.          *)

ClearPending ==
    /\ pc = "approved"
    /\ run' = [run EXCEPT !.pending = NoFindings]
    /\ pc' = "planned"
    /\ UNCHANGED <<file, job, seen>>

AdvancePhase ==
    /\ pc = "planned" /\ ~run.planOnly
    /\ run' = [run EXCEPT !.phase = "implementing"]
    /\ pc' = "plan-approved"
    /\ UNCHANGED <<file, job, seen>>

\* The last boundary of planning; a stop here resumes as an implementation.
PlanApprovedPasses ==
    /\ pc = "plan-approved"
    /\ pc' = "done"
    /\ UNCHANGED <<run, file, job, seen>>

PlanApprovedStops ==
    /\ pc = "plan-approved" /\ pc \in Holds
    /\ Throw(run, {})
    /\ UNCHANGED seen

PlanOnlyEnds ==
    /\ pc = "planned" /\ run.planOnly
    /\ run' = [run EXCEPT !.phase = "complete"]
    /\ pc' = "plan-only"
    /\ UNCHANGED <<file, job, seen>>

PlanOnlyExits ==
    /\ pc = "plan-only"
    /\ pc' = "off"
    /\ UNCHANGED <<run, file, job, seen>>

\* vibe resume --implement: one save makes a finished plan-only run one that is
\* implemented, and the process goes on to implement it.
ContinueIntoImplementation ==
    /\ pc = "off" /\ run.planOnly /\ run.phase = "complete" /\ run.plan # 0
    /\ run' = [run EXCEPT !.planOnly = FALSE, !.phase = "implementing"]
    /\ pc' = "done"
    /\ UNCHANGED <<file, job, seen>>

-----------------------------------------------------------------------------
Step ==
    \/ WriteNeedsInput \/ TakeAnswers \/ RetireFile
    \/ StartDraft \/ Draft \/ HasPlan \/ NoAnswersDue \/ ReviseForAnswers \/ Revise
    \/ HoldPasses \/ HoldStops \/ AcceptByPerson \/ ReviseCarried
    \/ OutOfQuestionRounds \/ AskQuestions \/ AnswererIsOff
    \/ (\E usable, refused \in SUBSET Questions : AnswererReplies(usable, refused))
    \/ RefusedBlocking \/ NothingRefused \/ KeepAdvisory \/ ReviseForAnswerer \/ NoUsableAnswer
    \/ StartCritique \/ Critique \/ Approve \/ StopsBeforeGuard \/ Stall
    \/ StallEscalates \/ ReviseAfterStall \/ GuardStops \/ GuardPasses
    \/ ClearPending \/ AdvancePhase \/ PlanApprovedPasses \/ PlanApprovedStops
    \/ PlanOnlyEnds \/ PlanOnlyExits

Restart ==
    \/ ResumePlain
    \/ \E p \in {run.pending} \cup RaisedOn(run.pending)
              \cup UNION {{m} \cup RaisedOn(m) : m \in Moves}, given \in SUBSET file.asks :
          ResumeWithEdits(p, given)

Next == Step \/ TurnFails \/ TurnEscalates \/ Killed \/ Restart \/ ContinueIntoImplementation

Spec == Init /\ [][Next]_vars

\* A live process keeps going; nothing makes a person resume a stopped run.
FairSpec == Spec /\ WF_vars(Step)

-----------------------------------------------------------------------------
(* Properties.                                                             *)

Pcs == {"start", "drafting", "answersDue", "loop", "revise", "plan-round", "asking",
        "answered", "question-round", "critiquing", "judge", "stalled", "approved",
        "planned", "plan-approved", "plan-only", "escalated", "answers", "retire", "off", "done"}

FindingLists == [of : Nat, verdict : Verdicts, moved : BOOLEAN] \cup {NoFindings}

Stalls == [position : Nat, action : {"step-back", "escalated"}, sent : BOOLEAN]

RunRecord ==
    [phase : {"planning", "implementing", "complete"}, planOnly : BOOLEAN, cfg : Settings,
     planRound : Nat, questionRound : Nat, plan : Nat, carried : Nat, rounds : Nat,
     asks : SUBSET Questions, advisory : SUBSET Questions,
     answered : SUBSET Asked, pendingAnswers : SUBSET Asked,
     pending : FindingLists, revisedByAnswer : BOOLEAN, stalls : Seq(Stalls)]

Job ==
    [args : {"none", "findings", "answers"}, verdict : Verdicts \cup {"none"},
     asking : SUBSET Questions, refused : SUBSET Questions,
     usable : SUBSET Asked, hand : SUBSET Asked]

Memory ==
    [critiques : Nat, read : Nat, moved : Nat, restarts : Nat,
     by : {"nobody", "critic", "person"}, accepted : SUBSET Nat,
     given : SUBSET Asked, delivered : SUBSET Asked, declined : SUBSET Asked,
     handed : SUBSET Asked, lost : SUBSET Asked]

\* Every field keeps the shape validateStoredState demands of a stored run.
TypeOK ==
    /\ run \in RunRecord
    /\ file \in [there : BOOLEAN, asks : SUBSET Asked, moves : BOOLEAN]
    /\ pc \in Pcs
    /\ job \in Job
    /\ seen \in Memory

\* The plan that goes to implementation is one a critic has read since it was
\* last revised, or the very draft a person was looking at when they demoted its
\* findings: no revision slips in between the judgement and the approval, across
\* any kill and resume (planPhase, approvePlan and planRevisedByAnswer).  The
\* exception is a demotion made before there was any draft.
ApprovalIsOfThisDraft ==
    run.phase # "planning" =>
        \/ seen.by = "critic" /\ seen.read = run.plan
        \/ seen.by = "person" /\ seen.moved \in {0, run.plan}

\* An answer a person wrote or the answerer's turn bought is in the record until
\* the write of a revision that was given it (pendingAnswers, advisoryAnswers).
AnswersAreDelivered ==
    seen.given \subseteq run.pendingAnswers \cup run.advisory \cup seen.delivered

\* A critique's findings leave the record only with a revision that was given
\* them or with an approval: no kill, failed turn, answer or resume drops them.
FindingsAreConsumed ==
    [][ Owed /\ run'.pending.of # run.pending.of =>
          \/ pc = "revise" /\ job.args = "findings" /\ run'.plan = run.plan + 1
          \/ pc = "approved" ]_vars

\* The person is asked about a stall only after the planner was asked to step
\* back and a revision carried that request (planStalls, pendingStepBack).  The
\* exception is a request that waited while the person accepted the draft's
\* findings: when a kill undoes that approval, the next stall counts the request
\* as made though no revision was ever given it.
SteppedBackBeforeAsking ==
    \A i \in DOMAIN run.stalls :
        run.stalls[i].action = "escalated" =>
            /\ i > 1 /\ run.stalls[i - 1].action = "step-back"
            /\ run.stalls[i - 1].sent \/ (i - 1) \in seen.accepted

\* Left alone, a process ends: the loop of revisions, questions and critiques
\* cannot go round for ever.
PlanningEnds == []<>(pc \in {"off", "done"})

\* A blocking question the answerer declined has been put to a person by the
\* time the plan is implemented (docs/how-it-works.md, Questions), whatever is
\* answered, revised and resumed in between.  A kill before NEEDS-INPUT.md is
\* written is the one way to lose it: the question is marked answered by then.
DeclinedReachesAPerson ==
    run.phase = "implementing" => seen.declined \subseteq seen.handed \cup seen.lost

\* The first half implements the abstract run: see RunPhases.  A run to plan and
\* no more goes from planning to complete, and from there only a resume that is
\* told to implement it takes it on; nothing else leaves planning or completion.
Abstract == INSTANCE RunPhases
            WITH First <- "planning", phase <- run.phase, planOnly <- run.planOnly,
                 working <- pc # "off"
KeepsThePhases == Abstract!Spec

=============================================================================

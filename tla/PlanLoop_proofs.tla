--------------------------- MODULE PlanLoop_proofs ---------------------------
(***************************************************************************)
(* Proofs about PlanLoop, for every set of questions and configurations,   *)
(* every cap and any number of restarts.  The inductive invariant adds to  *)
(* the properties what each place of the process says of the record: which *)
(* answers wait where, whether findings are owed, who has judged the draft *)
(* and which stall the next one is counted against.                        *)
(***************************************************************************)
EXTENDS PlanLoop, TLAPS

\* What the place of the process says of its locals and of the findings.
Locals ==
    /\ pc # "escalated" => job.hand = {}
    /\ pc = "revise" => job.args \in {"findings", "answers"}
    /\ pc \in {"answered", "question-round"} => job.usable \subseteq Questions
    /\ pc = "asking" => job.usable = {}
    /\ pc = "drafting" => run.plan = 0
    /\ pc = "critiquing" => ~Owed
    /\ pc = "judge" => (Owed <=> job.verdict # "none") /\ seen.read = run.plan

\* Out of planning, a process only stops.
PhaseEnds ==
    run.phase # "planning" =>
        pc \in {"plan-approved", "plan-only", "done", "escalated", "off"} /\ job.hand = {}

\* No answer waits where the next round of questions would write over it.
AnswersWait ==
    /\ pc \in {"loop", "plan-round", "asking", "critiquing", "judge", "stalled"} =>
          run.pendingAnswers = {}
    /\ pc = "revise" /\ job.args = "findings" => run.pendingAnswers = {}
    /\ pc \in {"answered", "question-round"} => run.pendingAnswers = job.usable

\* A declined blocking question no person has seen is in the hands of the process.
DeclinedAreHeld ==
    seen.declined \subseteq seen.handed \cup seen.lost \cup job.hand
                            \cup (IF pc = "answered" THEN job.refused \cap Blocking ELSE {})

Judged ==
    \/ seen.by = "critic" /\ seen.read = run.plan
    \/ seen.by = "person" /\ seen.moved \in {0, run.plan}

\* The judgement an approval rests on is of the draft as it stands.
ApprovalHolds ==
    /\ pc \in {"approved", "planned"} \/ run.phase # "planning" => Judged
    /\ Owed /\ run.pending.moved /\ ~run.revisedByAnswer => seen.moved \in {0, run.plan}

\* The first stall asks the planner to step back; each one then does what the
\* one before it did not.
Alternate(stalls) ==
    \A i \in DOMAIN stalls :
        IF i = 1 THEN stalls[i].action = "step-back"
                 ELSE stalls[i].action # stalls[i - 1].action

\* The request to step back that no revision has carried and no person has waived.
Due(stalls) ==
    /\ stalls # <<>> /\ stalls[Len(stalls)].action = "step-back"
    /\ ~stalls[Len(stalls)].sent /\ Len(stalls) \notin seen.accepted

\* While a request is due its findings are, so no critique can come before it.
StallsInOrder ==
    /\ Alternate(run.stalls)
    /\ Due(run.stalls) => Owed /\ pc \notin {"judge", "approved"}

IInv ==
    /\ TypeOK /\ Locals /\ PhaseEnds
    /\ AnswersWait /\ AnswersAreDelivered
    /\ DeclinedAreHeld /\ ApprovalHolds
    /\ StallsInOrder /\ SteppedBackBeforeAsking

\* What a person's edits keep of the findings they are made on (acceptMoves, acceptRaised).
LEMMA RaisedKeeps ==
    ASSUME NEW p \in FindingLists, NEW q \in RaisedOn(p)
    PROVE  /\ q \in FindingLists /\ q # NoFindings /\ q.moved = p.moved
           /\ p # NoFindings => q.of = p.of
<1>1. CASE p = NoFindings
    <2>1. PICK v \in Verdicts : q = [of |-> 0, verdict |-> v, moved |-> FALSE]
        BY <1>1 DEF RaisedOn
    <2> QED BY <1>1, <2>1 DEF FindingLists, NoFindings
<1>2. CASE p # NoFindings
    <2>1. PICK v \in Verdicts : q = [p EXCEPT !.verdict = v] BY <1>2 DEF RaisedOn
    <2>2. p \in [of : Nat, verdict : Verdicts, moved : BOOLEAN] BY <1>2 DEF FindingLists
    <2> QED BY <1>2, <2>1, <2>2 DEF FindingLists, NoFindings
<1> QED BY <1>1, <1>2

\* A move keeps whose findings they are and marks them moved.
LEMMA MovesKeep ==
    ASSUME run.pending \in FindingLists, Owed, NEW m \in Moves
    PROVE  m \in FindingLists /\ m # NoFindings /\ m.moved /\ m.of = run.pending.of
<1>1. PICK v \in Verdicts : m = [run.pending EXCEPT !.verdict = v, !.moved = TRUE] BY DEF Moves
<1>2. run.pending \in [of : Nat, verdict : Verdicts, moved : BOOLEAN] BY DEF Owed, FindingLists
<1> QED BY <1>1, <1>2 DEF FindingLists, NoFindings

\* Only the mark changes on the write that carries a step-back request.
LEMMA SentKeeps ==
    ASSUME NEW stalls \in Seq(Stalls)
    PROVE  LET after == StepBackSent(stalls)
           IN  /\ after \in Seq(Stalls) /\ Len(after) = Len(stalls)
               /\ \A i \in DOMAIN stalls :
                     /\ after[i].action = stalls[i].action
                     /\ stalls[i].sent => after[i].sent
               /\ stalls # <<>> /\ stalls[Len(stalls)].action = "step-back" =>
                     after[Len(stalls)].sent
<1>1. CASE ~(stalls # <<>> /\ stalls[Len(stalls)].action = "step-back")
    BY <1>1 DEF StepBackSent
<1>2. CASE stalls # <<>> /\ stalls[Len(stalls)].action = "step-back"
    <2> DEFINE n == Len(stalls)
               last == [stalls[n] EXCEPT !.sent = TRUE]
    <2>1. n \in DOMAIN stalls /\ stalls[n] \in Stalls BY <1>2
    <2>2. last \in Stalls /\ last.sent /\ last.action = stalls[n].action BY <2>1 DEF Stalls
    <2>3. StepBackSent(stalls) = [stalls EXCEPT ![n] = last] BY <1>2 DEF StepBackSent
    <2> HIDE DEF last
    <2> QED BY <1>2, <2>1, <2>2, <2>3
<1> QED BY <1>1, <1>2

\* A record of the run stays one when a field is given a value of its type.
LEMMA FieldsKeepType ==
    ASSUME NEW r \in RunRecord
    PROVE  /\ \A n \in Nat : /\ [r EXCEPT !.planRound = n] \in RunRecord
                            /\ [r EXCEPT !.questionRound = n] \in RunRecord
                            /\ [r EXCEPT !.rounds = n] \in RunRecord
                            /\ [r EXCEPT !.carried = n] \in RunRecord
           /\ \A p \in FindingLists : [r EXCEPT !.pending = p] \in RunRecord
           /\ \A stalls \in Seq(Stalls) : [r EXCEPT !.stalls = stalls] \in RunRecord
           /\ \A n \in Nat, asks \in SUBSET Questions :
                 [r EXCEPT !.plan = n, !.asks = asks] \in RunRecord
           /\ \A some, more \in SUBSET Asked :
                 [r EXCEPT !.answered = some, !.pendingAnswers = more] \in RunRecord
           /\ \A asks \in SUBSET Questions :
                 [r EXCEPT !.advisory = asks, !.pendingAnswers = {}] \in RunRecord
           /\ \A n \in Nat, asks \in SUBSET Questions, b \in BOOLEAN :
                 [r EXCEPT !.plan = n, !.asks = asks, !.pendingAnswers = {},
                           !.revisedByAnswer = b] \in RunRecord
BY DEF RunRecord

\* What the writes of the record keep.
LEMMA UpdatesKeepType ==
    ASSUME NEW r \in RunRecord
    PROVE  /\ Opened(r) \in RunRecord /\ WithRecord(r) \in RunRecord /\ NextRound(r) \in RunRecord
           /\ OpenedForAnswers(r) \in RunRecord
           /\ \A asks \in SUBSET Questions :
                 AnswersRevision(r, asks) \in RunRecord /\ FindingsRevision(r, asks) \in RunRecord
           /\ \A n \in Nat, verdict \in Verdicts \cup {"none"} :
                 Approved(r, n, verdict) \in RunRecord /\ Recorded(r, n, verdict) \in RunRecord
           /\ \A asking \in SUBSET Questions, usable \in SUBSET Questions :
                 Marked(r, asking, usable) \in RunRecord
<1>0. /\ r.planRound + 1 \in Nat /\ r.rounds + 1 \in Nat /\ r.questionRound + 1 \in Nat
      /\ r.plan + 1 \in Nat /\ r.answered \in SUBSET Asked /\ r.pendingAnswers \in SUBSET Asked
      /\ r.stalls \in Seq(Stalls) /\ r.revisedByAnswer \in BOOLEAN /\ r.carried \in Nat
    BY DEF RunRecord
<1>1. Opened(r) \in RunRecord BY <1>0, FieldsKeepType DEF Opened
<1>2. WithRecord(r) \in RunRecord BY <1>0, FieldsKeepType DEF WithRecord
<1>3. NextRound(r) \in RunRecord BY <1>0, FieldsKeepType DEF NextRound
<1>4. OpenedForAnswers(r) \in RunRecord
    <2>1. [r EXCEPT !.answered = r.answered \cup r.pendingAnswers] \in RunRecord
        BY <1>0 DEF RunRecord
    <2> QED BY <2>1 DEF OpenedForAnswers
<1>5. ASSUME NEW asks \in SUBSET Questions PROVE AnswersRevision(r, asks) \in RunRecord
    <2>1. (r.revisedByAnswer \/ r.pending # NoFindings) \in BOOLEAN BY <1>0
    <2> QED BY <1>0, <2>1, FieldsKeepType DEF AnswersRevision
<1>6. ASSUME NEW asks \in SUBSET Questions PROVE FindingsRevision(r, asks) \in RunRecord
    <2> DEFINE n == r.plan + 1
               stalls == StepBackSent(r.stalls)
    <2>1. n \in Nat /\ stalls \in Seq(Stalls) BY <1>0, SentKeeps
    <2>2. NoFindings \in FindingLists BY DEF FindingLists
    <2> DEFINE r1 == [r EXCEPT !.plan = n, !.asks = asks, !.pending = NoFindings]
               r2 == [r1 EXCEPT !.revisedByAnswer = FALSE, !.advisory = {}, !.stalls = stalls]
    <2>3. FindingsRevision(r, asks) = r2 BY DEF FindingsRevision
    <2> HIDE DEF n, stalls
    <2>4. r1 \in RunRecord BY <2>1, <2>2 DEF RunRecord
    <2> HIDE DEF r1
    <2>5. r2 \in RunRecord BY <2>1, <2>4 DEF RunRecord
    <2> QED BY <2>3, <2>5
<1>7. ASSUME NEW n \in Nat, NEW verdict \in Verdicts \cup {"none"}
      PROVE  Approved(r, n, verdict) \in RunRecord /\ Recorded(r, n, verdict) \in RunRecord
    <2> DEFINE c == IF verdict = "tolerated" THEN n ELSE r.carried
               p == IF verdict = "none" THEN NoFindings
                                        ELSE [of |-> n, verdict |-> verdict, moved |-> FALSE]
    <2>1. c \in Nat /\ p \in FindingLists BY <1>0 DEF FindingLists
    <2>2. Approved(r, n, verdict) = [r EXCEPT !.carried = c] BY DEF Approved
    <2>3. Recorded(r, n, verdict) = [r EXCEPT !.pending = p] BY DEF Recorded
    <2> HIDE DEF c, p
    <2>4. [r EXCEPT !.carried = c] \in RunRecord BY <2>1, FieldsKeepType
    <2>5. [r EXCEPT !.pending = p] \in RunRecord BY <2>1, FieldsKeepType
    <2> QED BY <2>2, <2>3, <2>4, <2>5
<1>8. ASSUME NEW asking \in SUBSET Questions, NEW usable \in SUBSET Questions
      PROVE  Marked(r, asking, usable) \in RunRecord
    <2>1. r.answered \cup asking \in SUBSET Asked /\ usable \in SUBSET Asked BY <1>0 DEF Asked
    <2> QED BY <2>1, FieldsKeepType DEF Marked
<1> QED BY <1>1, <1>2, <1>3, <1>4, <1>5, <1>6, <1>7, <1>8

\* So do the numbers the properties remember.
LEMMA MemoryKeepsType ==
    ASSUME seen \in Memory
    PROVE  /\ \A n \in Nat : [seen EXCEPT !.restarts = n] \in Memory
           /\ \A n, m \in Nat : [seen EXCEPT !.restarts = n, !.moved = m] \in Memory
           /\ \A n, m \in Nat : [seen EXCEPT !.critiques = n, !.read = m] \in Memory
BY DEF Memory

\* A person's edits leave findings of the same critique; only a move marks them
\* moved, and a move is of the draft the person was looking at.
LEMMA EditsKeepType ==
    ASSUME TypeOK, NEW p, NEW given, ResumeWithEdits(p, given)
    PROVE  /\ p \in FindingLists
           /\ Owed => p # NoFindings /\ p.of = run.pending.of
           /\ p.moved => run.pending.moved \/ seen'.moved = run.plan
           /\ seen'.moved \in {seen.moved, run.plan}
<1> DEFINE moving == file.moves /\ Owed /\ p \in UNION {{m} \cup RaisedOn(m) : m \in Moves}
<1>0. run.pending \in FindingLists BY DEF TypeOK, RunRecord
<1>1. seen'.moved = IF moving THEN run.plan ELSE seen.moved
    BY DEF ResumeWithEdits, TypeOK, Memory
<1>2. CASE moving
    <2>1. PICK m \in Moves : p = m \/ p \in RaisedOn(m) BY <1>2
    <2>2. m \in FindingLists /\ m # NoFindings /\ m.moved /\ m.of = run.pending.of
        BY <1>0, <1>2, MovesKeep
    <2>3. p \in FindingLists /\ p # NoFindings /\ p.of = m.of BY <2>1, <2>2, RaisedKeeps
    <2> QED BY <1>1, <1>2, <2>2, <2>3
<1>3. CASE ~moving
    <2>1. p = run.pending \/ p \in RaisedOn(run.pending) BY <1>3 DEF ResumeWithEdits
    <2>2. p \in FindingLists /\ p.moved = run.pending.moved BY <1>0, <2>1, RaisedKeeps
    <2>3. Owed => p # NoFindings /\ p.of = run.pending.of BY <1>0, <2>1, RaisedKeeps DEF Owed
    <2> QED BY <1>1, <1>3, <2>2, <2>3
<1> QED BY <1>2, <1>3

\* Neither the mark nor an action unlike the last one breaks the alternation.
LEMMA SentAlternates ==
    ASSUME NEW stalls \in Seq(Stalls), Alternate(stalls)
    PROVE  Alternate(StepBackSent(stalls))
<1> DEFINE after == StepBackSent(stalls)
<1>1. DOMAIN after = DOMAIN stalls /\ DOMAIN stalls = 1 .. Len(stalls) /\ Len(stalls) \in Nat
    BY SentKeeps
<1>2. \A i \in DOMAIN stalls : after[i].action = stalls[i].action BY SentKeeps
<1> HIDE DEF after
<1>3. \A i \in DOMAIN stalls : i # 1 => i - 1 \in DOMAIN stalls BY <1>1
<1> QED BY <1>1, <1>2, <1>3 DEF Alternate, after

LEMMA AppendAlternates ==
    ASSUME NEW stalls \in Seq(Stalls), Alternate(stalls), NEW new,
           stalls = <<>> => new.action = "step-back",
           stalls # <<>> => new.action # stalls[Len(stalls)].action
    PROVE  Alternate(Append(stalls, new))
<1> DEFINE after == Append(stalls, new)
           n == Len(stalls)
<1>1. n \in Nat /\ DOMAIN stalls = 1 .. n /\ DOMAIN after = 1 .. n + 1 OBVIOUS
<1>2. after[n + 1] = new /\ \A i \in 1 .. n : after[i] = stalls[i] OBVIOUS
<1>3. n = 0 => stalls = <<>> OBVIOUS
<1>4. ASSUME NEW i \in 1 .. n + 1
      PROVE  IF i = 1 THEN after[i].action = "step-back" ELSE after[i].action # after[i - 1].action
    <2> HIDE DEF after
    <2>1. CASE i = n + 1 BY <1>1, <1>2, <1>3, <2>1
    <2>2. CASE i # n + 1
        <3>1. i \in 1 .. n /\ (i # 1 => i - 1 \in 1 .. n) BY <1>1, <2>2
        <3> QED BY <1>1, <1>2, <3>1 DEF Alternate
    <2> QED BY <2>1, <2>2
<1> QED BY <1>1, <1>4 DEF Alternate

\* stallAction answers the last stall with the other of its two actions.
LEMMA ActionAlternates ==
    ASSUME NEW stalls \in Seq(Stalls), Alternate(stalls)
    PROVE  /\ StallAction(stalls) \in {"step-back", "escalated"}
           /\ stalls = <<>> => StallAction(stalls) = "step-back"
           /\ stalls # <<>> => StallAction(stalls) # stalls[Len(stalls)].action
<1> DEFINE n == Len(stalls)
           at == {i \in DOMAIN stalls : stalls[i].action = "escalated"}
<1>0. /\ n \in Nat /\ DOMAIN stalls = 1 .. n
      /\ \A i \in 1 .. n : stalls[i].action \in {"step-back", "escalated"}
    <2>1. \A i \in 1 .. n : stalls[i] \in Stalls OBVIOUS
    <2> QED BY <2>1 DEF Stalls
<1> DEFINE unlike(i) == i # 1 => stalls[i].action # stalls[i - 1].action
<1>4. \A i \in DOMAIN stalls : unlike(i) BY DEF Alternate
<1>1. CASE stalls = <<>>
    BY <1>0, <1>1 DEF StallAction
<1>2. CASE stalls # <<>> /\ stalls[n].action = "escalated"
    <2>1. n \in at /\ \A j \in at : j <= n BY <1>0, <1>2
    <2>2. LastEscalated(stalls) = n BY <1>0, <2>1 DEF LastEscalated
    <2> QED BY <1>0, <1>2, <2>2 DEF StallAction
<1>3. CASE stalls # <<>> /\ stalls[n].action # "escalated"
    <2>1. n >= 1 /\ stalls[n].action = "step-back" BY <1>0, <1>3
    <2>2. CASE at = {}
        BY <1>0, <2>1, <2>2 DEF LastEscalated, StallAction
    <2>3. CASE at # {}
        <3>1. n > 1 /\ n - 1 \in at
            <4>1. PICK j \in at : TRUE BY <2>3
            <4>2. j \in 1 .. n /\ j # n BY <1>0, <2>1
            <4>3. n > 1 /\ n \in DOMAIN stalls /\ n - 1 \in 1 .. n BY <1>0, <4>2
            <4>4. unlike(n) BY <1>4, <4>3
            <4> QED BY <1>0, <2>1, <4>3, <4>4
        <3>2. \A j \in at : j <= n - 1 BY <1>0, <2>1
        <3>3. LastEscalated(stalls) \in at BY <2>3, <3>1, <3>2 DEF LastEscalated
        <3>4. LastEscalated(stalls) < n BY <1>0, <3>1, <3>2, <3>3
        <3> QED BY <1>0, <2>1, <3>4 DEF StallAction
    <2> QED BY <2>2, <2>3
<1> QED BY <1>1, <1>2, <1>3

\* Types are kept by every step; the usable answers kept are to questions of the draft.
LEMMA StepType == TypeOK /\ Locals /\ [Next]_vars => TypeOK'
<1> SUFFICES ASSUME TypeOK /\ Locals, [Next]_vars PROVE TypeOK'
    OBVIOUS
<1>0. /\ run \in RunRecord /\ run.plan \in Nat /\ run.pending \in FindingLists
      /\ run.pendingAnswers \in SUBSET Asked /\ run.advisory \in SUBSET Questions
      /\ run.asks \in SUBSET Questions /\ run.cfg \in Settings
      /\ run.stalls \in Seq(Stalls) /\ run.rounds \in Nat /\ NoFindings \in FindingLists
    BY DEF TypeOK, RunRecord, FindingLists
<1> USE <1>0, CapAssumption, QuestionAssumption
    DEF TypeOK, Job, Memory, Pcs, TurnPcs, Asked, Verdicts, NoJob, NoFile, Throw
<1>1. CASE WriteNeedsInput BY <1>1 DEF WriteNeedsInput, Owed
<1>2. CASE TakeAnswers
    <2>1. run' \in RunRecord BY <1>2 DEF TakeAnswers, RunRecord
    <2>2. job' \in Job BY <1>2 DEF TakeAnswers
    <2>3. seen' \in Memory BY <1>2 DEF TakeAnswers
    <2> QED BY <1>2, <2>1, <2>2, <2>3 DEF TakeAnswers
<1>3. CASE RetireFile BY <1>3 DEF RetireFile
<1>4. CASE StartDraft BY <1>4 DEF StartDraft
<1>5. CASE Draft
    <2>1. run' \in RunRecord 
        <3>1. PICK asks \in SUBSET run.cfg.drafts : run' = [run EXCEPT !.plan = 1, !.asks = asks]
            BY <1>5 DEF Draft
        <3>2. asks \in SUBSET Questions BY SettingsAssumption
        <3> QED BY <3>1, <3>2, FieldsKeepType
    <2>2. job' \in Job BY <1>5 DEF Draft
    <2>3. seen' \in Memory BY <1>5 DEF Draft
    <2> QED BY <1>5, <2>1, <2>2, <2>3 DEF Draft
<1>6. CASE HasPlan BY <1>6 DEF HasPlan
<1>7. CASE NoAnswersDue BY <1>7 DEF NoAnswersDue
<1>8. CASE ReviseForAnswers
    <2>1. run' \in RunRecord BY <1>8, UpdatesKeepType DEF ReviseForAnswers
    <2>2. job' \in Job BY <1>8 DEF ReviseForAnswers
    <2>3. seen' \in Memory BY <1>8 DEF ReviseForAnswers
    <2> QED BY <1>8, <2>1, <2>2, <2>3 DEF ReviseForAnswers
<1>9. CASE Revise
    <2>1. run' \in RunRecord 
        <3>1. PICK asks \in SUBSET run.cfg.drafts :
                 run' = IF job.args = "answers" THEN AnswersRevision(run, asks)
                                                ELSE FindingsRevision(run, asks)
            BY <1>9 DEF Revise
        <3>2. asks \in SUBSET Questions BY SettingsAssumption
        <3> QED BY <3>1, <3>2, UpdatesKeepType
    <2>2. job' \in Job BY <1>9 DEF Revise
    <2>3. seen' \in Memory BY <1>9 DEF Revise
    <2> QED BY <1>9, <2>1, <2>2, <2>3 DEF Revise
<1>10. CASE HoldPasses BY <1>10 DEF HoldPasses
<1>11. CASE HoldStops BY <1>11 DEF HoldStops
<1>12. CASE AcceptByPerson
    <2>1. run' \in RunRecord 
        <3>1. run.pending.of \in Nat /\ run.pending.verdict \in Verdicts
            BY <1>12 DEF AcceptByPerson, Owed, FindingLists
        <3> QED BY <1>12, <3>1, UpdatesKeepType DEF AcceptByPerson
    <2>0. Len(run.stalls) \in Nat OBVIOUS
    <2>2. job' \in Job BY <1>12 DEF AcceptByPerson
    <2>3. seen' \in Memory BY <1>12, <2>0 DEF AcceptByPerson
    <2> QED BY <1>12, <2>1, <2>2, <2>3 DEF AcceptByPerson
<1>13. CASE ReviseCarried
    <2>1. run' \in RunRecord BY <1>13, UpdatesKeepType DEF ReviseCarried
    <2>2. job' \in Job BY <1>13 DEF ReviseCarried
    <2>3. seen' \in Memory BY <1>13 DEF ReviseCarried
    <2> QED BY <1>13, <2>1, <2>2, <2>3 DEF ReviseCarried
<1>14. CASE OutOfQuestionRounds BY <1>14 DEF OutOfQuestionRounds, Open
<1>15. CASE AskQuestions
    <2>1. run' \in RunRecord BY <1>15, UpdatesKeepType DEF AskQuestions
    <2>2. job' \in Job BY <1>15 DEF AskQuestions, Open
    <2>3. seen' \in Memory BY <1>15 DEF AskQuestions, Open
    <2> QED BY <1>15, <2>1, <2>2, <2>3 DEF AskQuestions, Open
<1>16. CASE AnswererIsOff
    <2>1. run' \in RunRecord BY <1>16 DEF AnswererIsOff
    <2>2. job' \in Job BY <1>16 DEF AnswererIsOff
    <2>3. seen' \in Memory BY <1>16 DEF AnswererIsOff
    <2> QED BY <1>16, <2>1, <2>2, <2>3 DEF AnswererIsOff
<1>17. CASE \E usable, refused \in SUBSET Questions : AnswererReplies(usable, refused)
    <2>1. PICK usable, refused \in SUBSET Questions : AnswererReplies(usable, refused) BY <1>17
    <2>2. run' \in RunRecord BY <2>1, UpdatesKeepType DEF AnswererReplies
    <2>3. job' \in Job BY <2>1 DEF AnswererReplies
    <2>4. seen' \in Memory BY <2>1 DEF AnswererReplies
    <2> QED BY <2>1, <2>2, <2>3, <2>4 DEF AnswererReplies
<1>18. CASE RefusedBlocking BY <1>18 DEF RefusedBlocking, Handed
<1>19. CASE NothingRefused BY <1>19 DEF NothingRefused, Handed
<1>20. CASE KeepAdvisory
    <2>1. run' \in RunRecord 
        <3>1. run.advisory \cup job.usable \in SUBSET Questions
            BY <1>20 DEF KeepAdvisory, AdvisoryOnly, Locals
        <3> QED BY <1>20, <3>1, FieldsKeepType DEF KeepAdvisory
    <2>2. job' \in Job BY <1>20 DEF KeepAdvisory
    <2>3. seen' \in Memory BY <1>20 DEF KeepAdvisory
    <2> QED BY <1>20, <2>1, <2>2, <2>3 DEF KeepAdvisory
<1>21. CASE ReviseForAnswerer BY <1>21 DEF ReviseForAnswerer, AdvisoryOnly
<1>22. CASE NoUsableAnswer BY <1>22 DEF NoUsableAnswer
<1>23. CASE StartCritique BY <1>23 DEF StartCritique, Open
<1>24. CASE Critique
    <2>1. PICK verdict \in Verdicts \cup {"none"} :
             /\ run' = Recorded(run, seen.critiques + 1, verdict)
             /\ job' = [NoJob EXCEPT !.verdict = verdict]
        BY <1>24 DEF Critique
    <2>2. seen.critiques + 1 \in Nat OBVIOUS
    <2>3. run' \in RunRecord BY <2>1, <2>2, UpdatesKeepType
    <2>4. job' \in Job BY <2>1
    <2>5. seen' = [seen EXCEPT !.critiques = seen.critiques + 1, !.read = run.plan]
        BY <1>24 DEF Critique
    <2>6. seen' \in Memory BY <2>2, <2>5, MemoryKeepsType
    <2> QED BY <1>24, <2>3, <2>4, <2>6 DEF Critique
<1>25. CASE Approve
    <2>1. run' \in RunRecord BY <1>25, UpdatesKeepType DEF Approve
    <2>2. job' \in Job BY <1>25 DEF Approve
    <2>3. seen' \in Memory BY <1>25 DEF Approve
    <2> QED BY <1>25, <2>1, <2>2, <2>3 DEF Approve
<1>26. CASE StopsBeforeGuard BY <1>26 DEF StopsBeforeGuard
<1>27. CASE Stall
    <2>1. run' \in RunRecord 
        <3> DEFINE new == [position |-> run.rounds, sent |-> FALSE, action |->
         StallAction(run.stalls)]
                   stalls == Append(run.stalls, new)
        <3>1. new \in Stalls BY DEF Stalls, StallAction
        <3> HIDE DEF new
        <3>2. stalls \in Seq(Stalls) BY <3>1
        <3>3. run' = [WithRecord(run) EXCEPT !.stalls = stalls] BY <1>27 DEF Stall, new
        <3> HIDE DEF stalls
        <3> QED BY <3>2, <3>3, FieldsKeepType, UpdatesKeepType
    <2>2. job' \in Job BY <1>27 DEF Stall
    <2>3. seen' \in Memory BY <1>27 DEF Stall
    <2> QED BY <1>27, <2>1, <2>2, <2>3 DEF Stall
<1>28. CASE StallEscalates BY <1>28 DEF StallEscalates
<1>29. CASE ReviseAfterStall
    <2>1. run' \in RunRecord BY <1>29, UpdatesKeepType DEF ReviseAfterStall
    <2>2. job' \in Job BY <1>29 DEF ReviseAfterStall
    <2>3. seen' \in Memory BY <1>29 DEF ReviseAfterStall
    <2> QED BY <1>29, <2>1, <2>2, <2>3 DEF ReviseAfterStall
<1>30. CASE GuardStops
    <2>1. run' \in RunRecord BY <1>30, UpdatesKeepType DEF GuardStops
    <2>2. job' \in Job BY <1>30 DEF GuardStops
    <2>3. seen' \in Memory BY <1>30 DEF GuardStops
    <2> QED BY <1>30, <2>1, <2>2, <2>3 DEF GuardStops
<1>31. CASE GuardPasses
    <2>1. run' \in RunRecord BY <1>31, UpdatesKeepType DEF GuardPasses
    <2>2. job' \in Job BY <1>31 DEF GuardPasses
    <2>3. seen' \in Memory BY <1>31 DEF GuardPasses
    <2> QED BY <1>31, <2>1, <2>2, <2>3 DEF GuardPasses
<1>32. CASE ClearPending
    <2>1. run' \in RunRecord BY <1>32, FieldsKeepType DEF ClearPending
    <2>2. job' \in Job BY <1>32 DEF ClearPending
    <2>3. seen' \in Memory BY <1>32 DEF ClearPending
    <2> QED BY <1>32, <2>1, <2>2, <2>3 DEF ClearPending
<1>33. CASE AdvancePhase
    <2>1. run' \in RunRecord BY <1>33 DEF AdvancePhase, RunRecord
    <2>2. job' \in Job BY <1>33 DEF AdvancePhase
    <2>3. seen' \in Memory BY <1>33 DEF AdvancePhase
    <2> QED BY <1>33, <2>1, <2>2, <2>3 DEF AdvancePhase
<1>34. CASE PlanApprovedPasses BY <1>34 DEF PlanApprovedPasses
<1>35. CASE PlanApprovedStops BY <1>35 DEF PlanApprovedStops
<1>36. CASE PlanOnlyEnds
    <2>1. run' \in RunRecord BY <1>36 DEF PlanOnlyEnds, RunRecord
    <2>2. job' \in Job BY <1>36 DEF PlanOnlyEnds
    <2>3. seen' \in Memory BY <1>36 DEF PlanOnlyEnds
    <2> QED BY <1>36, <2>1, <2>2, <2>3 DEF PlanOnlyEnds
<1>37. CASE TurnFails BY <1>37 DEF TurnFails
<1>38. CASE TurnEscalates BY <1>38 DEF TurnEscalates
<1>39. CASE Killed BY <1>39 DEF Killed
<1>40. CASE ResumePlain
    <2>1. seen.restarts + 1 \in Nat OBVIOUS
    <2>2. seen' \in Memory BY <1>40, <2>1, MemoryKeepsType DEF ResumePlain
    <2> QED BY <1>40, <2>2 DEF ResumePlain
<1>41. CASE \E p \in {run.pending} \cup RaisedOn(run.pending)
                    \cup UNION {{m} \cup RaisedOn(m) : m \in Moves}, given \in SUBSET file.asks :
              ResumeWithEdits(p, given)
    <2>1. PICK p \in {run.pending} \cup RaisedOn(run.pending)
                       \cup UNION {{m} \cup RaisedOn(m) : m \in Moves},
               given \in SUBSET file.asks : ResumeWithEdits(p, given)
        BY <1>41
    <2>2. p \in FindingLists BY <2>1, EditsKeepType
    <2>3. run' \in RunRecord BY <2>1, <2>2, FieldsKeepType DEF ResumeWithEdits
    <2>4. seen.restarts + 1 \in Nat OBVIOUS
    <2>5. \E m \in {seen.moved, run.plan} :
             seen' = [seen EXCEPT !.restarts = seen.restarts + 1, !.moved = m]
        BY <2>1 DEF ResumeWithEdits
    <2>6. PICK m \in Nat : seen' = [seen EXCEPT !.restarts = seen.restarts + 1, !.moved = m] BY <2>5
    <2>7. seen' \in Memory BY <2>4, <2>6, MemoryKeepsType
    <2> QED BY <2>1, <2>3, <2>7 DEF ResumeWithEdits, CanRestart
<1>42. CASE UNCHANGED vars BY <1>42 DEF vars
<1>43. CASE PlanOnlyExits BY <1>43 DEF PlanOnlyExits
<1>44. CASE ContinueIntoImplementation
    <2>1. run' \in RunRecord BY <1>44 DEF ContinueIntoImplementation, RunRecord
    <2>2. job' \in Job BY <1>44 DEF ContinueIntoImplementation
    <2>3. seen' \in Memory BY <1>44 DEF ContinueIntoImplementation
    <2> QED BY <1>44, <2>1, <2>2, <2>3 DEF ContinueIntoImplementation
<1> QED BY <1>1, <1>2, <1>3, <1>4, <1>5, <1>6, <1>7, <1>8, <1>9, <1>10, <1>11, <1>12, <1>13,
         <1>14, <1>15, <1>16, <1>17, <1>18, <1>19, <1>20, <1>21, <1>22, <1>23, <1>24, <1>25,
         <1>26, <1>27, <1>28, <1>29, <1>30, <1>31, <1>32, <1>33, <1>34, <1>35, <1>36, <1>37,
         <1>38, <1>39, <1>40, <1>41, <1>42, <1>43, <1>44 DEF Next, Step, Restart

\* Each place of the process says of its locals and the findings what Locals says.
LEMMA StepLocals == TypeOK /\ Locals /\ PhaseEnds /\ [Next]_vars => Locals'
<1> SUFFICES ASSUME TypeOK /\ Locals /\ PhaseEnds, [Next]_vars PROVE Locals'
    OBVIOUS
<1> USE QuestionAssumption DEF TypeOK, RunRecord, Job, Memory, Pcs, TurnPcs, Verdicts, NoJob, Throw,
         Owed, Locals, PhaseEnds
<1>1. CASE WriteNeedsInput BY <1>1 DEF WriteNeedsInput
<1>2. CASE TakeAnswers BY <1>2 DEF TakeAnswers
<1>3. CASE RetireFile BY <1>3 DEF RetireFile
<1>4. CASE StartDraft BY <1>4 DEF StartDraft
<1>5. CASE Draft BY <1>5 DEF Draft
<1>6. CASE HasPlan BY <1>6 DEF HasPlan
<1>7. CASE NoAnswersDue BY <1>7 DEF NoAnswersDue
<1>8. CASE ReviseForAnswers BY <1>8 DEF ReviseForAnswers, OpenedForAnswers
<1>9. CASE Revise BY <1>9 DEF Revise, AnswersRevision, FindingsRevision
<1>10. CASE HoldPasses BY <1>10 DEF HoldPasses
<1>11. CASE HoldStops BY <1>11 DEF HoldStops
<1>12. CASE AcceptByPerson BY <1>12 DEF AcceptByPerson, Approved, Accepts
<1>13. CASE ReviseCarried BY <1>13 DEF ReviseCarried, Opened, Accepts
<1>14. CASE OutOfQuestionRounds BY <1>14 DEF OutOfQuestionRounds, Open
<1>15. CASE AskQuestions BY <1>15 DEF AskQuestions, Open, NextRound
<1>16. CASE AnswererIsOff BY <1>16 DEF AnswererIsOff
<1>17. CASE \E usable, refused \in SUBSET Questions : AnswererReplies(usable, refused)
    BY <1>17 DEF AnswererReplies, Marked
<1>18. CASE RefusedBlocking BY <1>18 DEF RefusedBlocking, Handed
<1>19. CASE NothingRefused BY <1>19 DEF NothingRefused, Handed
<1>20. CASE KeepAdvisory BY <1>20 DEF KeepAdvisory, AdvisoryOnly
<1>21. CASE ReviseForAnswerer BY <1>21 DEF ReviseForAnswerer, AdvisoryOnly
<1>22. CASE NoUsableAnswer BY <1>22 DEF NoUsableAnswer
<1>23. CASE StartCritique BY <1>23 DEF StartCritique, Open
<1>24. CASE Critique
    <2>1. PICK verdict \in Verdicts \cup {"none"} :
             /\ run' = Recorded(run, seen.critiques + 1, verdict)
             /\ job' = [NoJob EXCEPT !.verdict = verdict]
        BY <1>24 DEF Critique
    <2>2. run'.pending # NoFindings <=> verdict # "none" BY <2>1 DEF Recorded, NoFindings
    <2>3. run'.plan = run.plan BY <2>1 DEF Recorded
    <2> QED BY <1>24, <2>1, <2>2, <2>3 DEF Critique
<1>25. CASE Approve BY <1>25 DEF Approve, Approved
<1>26. CASE StopsBeforeGuard BY <1>26 DEF StopsBeforeGuard
<1>27. CASE Stall BY <1>27 DEF Stall, WithRecord
<1>28. CASE StallEscalates BY <1>28 DEF StallEscalates
<1>29. CASE ReviseAfterStall BY <1>29 DEF ReviseAfterStall, Opened
<1>30. CASE GuardStops BY <1>30 DEF GuardStops, WithRecord
<1>31. CASE GuardPasses BY <1>31 DEF GuardPasses, Opened, WithRecord
<1>32. CASE ClearPending BY <1>32 DEF ClearPending
<1>33. CASE AdvancePhase BY <1>33 DEF AdvancePhase
<1>34. CASE PlanApprovedPasses BY <1>34 DEF PlanApprovedPasses
<1>35. CASE PlanApprovedStops BY <1>35 DEF PlanApprovedStops
<1>36. CASE PlanOnlyEnds BY <1>36 DEF PlanOnlyEnds
<1>37. CASE TurnFails BY <1>37 DEF TurnFails
<1>38. CASE TurnEscalates BY <1>38 DEF TurnEscalates
<1>39. CASE Killed BY <1>39 DEF Killed
<1>40. CASE ResumePlain BY <1>40 DEF ResumePlain, CanRestart
<1>41. CASE \E p, given : ResumeWithEdits(p, given)
    BY <1>41 DEF ResumeWithEdits, CanRestart
<1>42. CASE UNCHANGED vars BY <1>42 DEF vars
<1>43. CASE PlanOnlyExits BY <1>43 DEF PlanOnlyExits
<1>44. CASE ContinueIntoImplementation BY <1>44 DEF ContinueIntoImplementation
<1> QED BY <1>1, <1>2, <1>3, <1>4, <1>5, <1>6, <1>7, <1>8, <1>9, <1>10, <1>11, <1>12, <1>13,
         <1>14, <1>15, <1>16, <1>17, <1>18, <1>19, <1>20, <1>21, <1>22, <1>23, <1>24, <1>25,
         <1>26, <1>27, <1>28, <1>29, <1>30, <1>31, <1>32, <1>33, <1>34, <1>35, <1>36, <1>37,
         <1>38, <1>39, <1>40, <1>41, <1>42, <1>43, <1>44 DEF Next, Step, Restart

\* A run leaves planning with nothing in hand and never comes back to it.
LEMMA StepPhase == TypeOK /\ Locals /\ PhaseEnds /\ [Next]_vars => PhaseEnds'
<1> SUFFICES ASSUME TypeOK /\ Locals /\ PhaseEnds, [Next]_vars PROVE PhaseEnds'
    OBVIOUS
<1> USE QuestionAssumption DEF TypeOK, RunRecord, Job, Memory, Pcs, TurnPcs, Verdicts, NoJob, Throw,
         Owed, Locals, PhaseEnds
<1>1. CASE WriteNeedsInput BY <1>1 DEF WriteNeedsInput
<1>2. CASE TakeAnswers BY <1>2 DEF TakeAnswers
<1>3. CASE RetireFile BY <1>3 DEF RetireFile
<1>4. CASE StartDraft BY <1>4 DEF StartDraft
<1>5. CASE Draft BY <1>5 DEF Draft
<1>6. CASE HasPlan BY <1>6 DEF HasPlan
<1>7. CASE NoAnswersDue BY <1>7 DEF NoAnswersDue
<1>8. CASE ReviseForAnswers BY <1>8 DEF ReviseForAnswers, OpenedForAnswers
<1>9. CASE Revise BY <1>9 DEF Revise, AnswersRevision, FindingsRevision
<1>10. CASE HoldPasses BY <1>10 DEF HoldPasses
<1>11. CASE HoldStops BY <1>11 DEF HoldStops
<1>12. CASE AcceptByPerson BY <1>12 DEF AcceptByPerson, Approved, Accepts
<1>13. CASE ReviseCarried BY <1>13 DEF ReviseCarried, Opened, Accepts
<1>14. CASE OutOfQuestionRounds BY <1>14 DEF OutOfQuestionRounds, Open
<1>15. CASE AskQuestions BY <1>15 DEF AskQuestions, Open, NextRound
<1>16. CASE AnswererIsOff BY <1>16 DEF AnswererIsOff
<1>17. CASE \E usable, refused \in SUBSET Questions : AnswererReplies(usable, refused)
    BY <1>17 DEF AnswererReplies, Marked
<1>18. CASE RefusedBlocking BY <1>18 DEF RefusedBlocking, Handed
<1>19. CASE NothingRefused BY <1>19 DEF NothingRefused, Handed
<1>20. CASE KeepAdvisory BY <1>20 DEF KeepAdvisory, AdvisoryOnly
<1>21. CASE ReviseForAnswerer BY <1>21 DEF ReviseForAnswerer, AdvisoryOnly
<1>22. CASE NoUsableAnswer BY <1>22 DEF NoUsableAnswer
<1>23. CASE StartCritique BY <1>23 DEF StartCritique, Open
<1>24. CASE Critique BY <1>24 DEF Critique, Recorded, NoFindings
<1>25. CASE Approve BY <1>25 DEF Approve, Approved
<1>26. CASE StopsBeforeGuard BY <1>26 DEF StopsBeforeGuard
<1>27. CASE Stall BY <1>27 DEF Stall, WithRecord
<1>28. CASE StallEscalates BY <1>28 DEF StallEscalates
<1>29. CASE ReviseAfterStall BY <1>29 DEF ReviseAfterStall, Opened
<1>30. CASE GuardStops BY <1>30 DEF GuardStops, WithRecord
<1>31. CASE GuardPasses BY <1>31 DEF GuardPasses, Opened, WithRecord
<1>32. CASE ClearPending BY <1>32 DEF ClearPending
<1>33. CASE AdvancePhase BY <1>33 DEF AdvancePhase
<1>34. CASE PlanApprovedPasses BY <1>34 DEF PlanApprovedPasses
<1>35. CASE PlanApprovedStops BY <1>35 DEF PlanApprovedStops
<1>36. CASE PlanOnlyEnds BY <1>36 DEF PlanOnlyEnds
<1>37. CASE TurnFails BY <1>37 DEF TurnFails
<1>38. CASE TurnEscalates BY <1>38 DEF TurnEscalates
<1>39. CASE Killed BY <1>39 DEF Killed
<1>40. CASE ResumePlain BY <1>40 DEF ResumePlain, CanRestart
<1>41. CASE \E p, given : ResumeWithEdits(p, given)
    BY <1>41 DEF ResumeWithEdits, CanRestart
<1>42. CASE UNCHANGED vars BY <1>42 DEF vars
<1>43. CASE PlanOnlyExits BY <1>43 DEF PlanOnlyExits
<1>44. CASE ContinueIntoImplementation BY <1>44 DEF ContinueIntoImplementation
<1> QED BY <1>1, <1>2, <1>3, <1>4, <1>5, <1>6, <1>7, <1>8, <1>9, <1>10, <1>11, <1>12, <1>13,
         <1>14, <1>15, <1>16, <1>17, <1>18, <1>19, <1>20, <1>21, <1>22, <1>23, <1>24, <1>25,
         <1>26, <1>27, <1>28, <1>29, <1>30, <1>31, <1>32, <1>33, <1>34, <1>35, <1>36, <1>37,
         <1>38, <1>39, <1>40, <1>41, <1>42, <1>43, <1>44 DEF Next, Step, Restart

\* Answers wait only where the next round of questions cannot write over them.
LEMMA StepAnswersWait == TypeOK /\ Locals /\ AnswersWait /\ [Next]_vars => AnswersWait'
<1> SUFFICES ASSUME TypeOK /\ Locals /\ AnswersWait, [Next]_vars PROVE AnswersWait'
    OBVIOUS
<1> USE QuestionAssumption DEF TypeOK, RunRecord, Job, Memory, Pcs, TurnPcs, Verdicts, NoJob, Throw,
         Owed, Locals, AnswersWait
<1>1. CASE WriteNeedsInput BY <1>1 DEF WriteNeedsInput
<1>2. CASE TakeAnswers BY <1>2 DEF TakeAnswers
<1>3. CASE RetireFile BY <1>3 DEF RetireFile
<1>4. CASE StartDraft BY <1>4 DEF StartDraft
<1>5. CASE Draft BY <1>5 DEF Draft
<1>6. CASE HasPlan BY <1>6 DEF HasPlan
<1>7. CASE NoAnswersDue BY <1>7 DEF NoAnswersDue
<1>8. CASE ReviseForAnswers BY <1>8 DEF ReviseForAnswers, OpenedForAnswers
<1>9. CASE Revise BY <1>9 DEF Revise, AnswersRevision, FindingsRevision
<1>10. CASE HoldPasses BY <1>10 DEF HoldPasses
<1>11. CASE HoldStops BY <1>11 DEF HoldStops
<1>12. CASE AcceptByPerson BY <1>12 DEF AcceptByPerson, Approved, Accepts
<1>13. CASE ReviseCarried BY <1>13 DEF ReviseCarried, Opened, Accepts
<1>14. CASE OutOfQuestionRounds BY <1>14 DEF OutOfQuestionRounds, Open
<1>15. CASE AskQuestions BY <1>15 DEF AskQuestions, Open, NextRound
<1>16. CASE AnswererIsOff BY <1>16 DEF AnswererIsOff
<1>17. CASE \E usable, refused \in SUBSET Questions : AnswererReplies(usable, refused)
    BY <1>17 DEF AnswererReplies, Marked
<1>18. CASE RefusedBlocking BY <1>18 DEF RefusedBlocking, Handed
<1>19. CASE NothingRefused BY <1>19 DEF NothingRefused, Handed
<1>20. CASE KeepAdvisory BY <1>20 DEF KeepAdvisory, AdvisoryOnly
<1>21. CASE ReviseForAnswerer BY <1>21 DEF ReviseForAnswerer, AdvisoryOnly
<1>22. CASE NoUsableAnswer BY <1>22 DEF NoUsableAnswer
<1>23. CASE StartCritique BY <1>23 DEF StartCritique, Open
<1>24. CASE Critique BY <1>24 DEF Critique, Recorded, NoFindings
<1>25. CASE Approve BY <1>25 DEF Approve, Approved
<1>26. CASE StopsBeforeGuard BY <1>26 DEF StopsBeforeGuard
<1>27. CASE Stall BY <1>27 DEF Stall, WithRecord
<1>28. CASE StallEscalates BY <1>28 DEF StallEscalates
<1>29. CASE ReviseAfterStall BY <1>29 DEF ReviseAfterStall, Opened
<1>30. CASE GuardStops BY <1>30 DEF GuardStops, WithRecord
<1>31. CASE GuardPasses BY <1>31 DEF GuardPasses, Opened, WithRecord
<1>32. CASE ClearPending BY <1>32 DEF ClearPending
<1>33. CASE AdvancePhase BY <1>33 DEF AdvancePhase
<1>34. CASE PlanApprovedPasses BY <1>34 DEF PlanApprovedPasses
<1>35. CASE PlanApprovedStops BY <1>35 DEF PlanApprovedStops
<1>36. CASE PlanOnlyEnds BY <1>36 DEF PlanOnlyEnds
<1>37. CASE TurnFails BY <1>37 DEF TurnFails
<1>38. CASE TurnEscalates BY <1>38 DEF TurnEscalates
<1>39. CASE Killed BY <1>39 DEF Killed
<1>40. CASE ResumePlain BY <1>40 DEF ResumePlain, CanRestart
<1>41. CASE \E p, given : ResumeWithEdits(p, given)
    BY <1>41 DEF ResumeWithEdits, CanRestart
<1>42. CASE UNCHANGED vars BY <1>42 DEF vars
<1>43. CASE PlanOnlyExits BY <1>43 DEF PlanOnlyExits
<1>44. CASE ContinueIntoImplementation BY <1>44 DEF ContinueIntoImplementation
<1> QED BY <1>1, <1>2, <1>3, <1>4, <1>5, <1>6, <1>7, <1>8, <1>9, <1>10, <1>11, <1>12, <1>13,
         <1>14, <1>15, <1>16, <1>17, <1>18, <1>19, <1>20, <1>21, <1>22, <1>23, <1>24, <1>25,
         <1>26, <1>27, <1>28, <1>29, <1>30, <1>31, <1>32, <1>33, <1>34, <1>35, <1>36, <1>37,
         <1>38, <1>39, <1>40, <1>41, <1>42, <1>43, <1>44 DEF Next, Step, Restart

\* Every answer given stays in the record or has been delivered.
LEMMA StepAnswers == TypeOK /\ Locals /\ AnswersWait /\ AnswersAreDelivered /\ [Next]_vars =>
         AnswersAreDelivered'
<1> SUFFICES ASSUME TypeOK /\ Locals /\ AnswersWait /\ AnswersAreDelivered, [Next]_vars PROVE
         AnswersAreDelivered'
    OBVIOUS
<1> USE QuestionAssumption DEF TypeOK, RunRecord, Job, Memory, Pcs, TurnPcs, Verdicts, NoJob, Throw,
         Owed, Locals, AnswersWait,
         AnswersAreDelivered
<1>1. CASE WriteNeedsInput BY <1>1 DEF WriteNeedsInput
<1>2. CASE TakeAnswers BY <1>2 DEF TakeAnswers
<1>3. CASE RetireFile BY <1>3 DEF RetireFile
<1>4. CASE StartDraft BY <1>4 DEF StartDraft
<1>5. CASE Draft BY <1>5 DEF Draft
<1>6. CASE HasPlan BY <1>6 DEF HasPlan
<1>7. CASE NoAnswersDue BY <1>7 DEF NoAnswersDue
<1>8. CASE ReviseForAnswers BY <1>8 DEF ReviseForAnswers, OpenedForAnswers
<1>9. CASE Revise BY <1>9 DEF Revise, AnswersRevision, FindingsRevision
<1>10. CASE HoldPasses BY <1>10 DEF HoldPasses
<1>11. CASE HoldStops BY <1>11 DEF HoldStops
<1>12. CASE AcceptByPerson BY <1>12 DEF AcceptByPerson, Approved, Accepts
<1>13. CASE ReviseCarried BY <1>13 DEF ReviseCarried, Opened, Accepts
<1>14. CASE OutOfQuestionRounds BY <1>14 DEF OutOfQuestionRounds, Open
<1>15. CASE AskQuestions BY <1>15 DEF AskQuestions, Open, NextRound
<1>16. CASE AnswererIsOff BY <1>16 DEF AnswererIsOff
<1>17. CASE \E usable, refused \in SUBSET Questions : AnswererReplies(usable, refused)
    BY <1>17 DEF AnswererReplies, Marked
<1>18. CASE RefusedBlocking BY <1>18 DEF RefusedBlocking, Handed
<1>19. CASE NothingRefused BY <1>19 DEF NothingRefused, Handed
<1>20. CASE KeepAdvisory BY <1>20 DEF KeepAdvisory, AdvisoryOnly
<1>21. CASE ReviseForAnswerer BY <1>21 DEF ReviseForAnswerer, AdvisoryOnly
<1>22. CASE NoUsableAnswer BY <1>22 DEF NoUsableAnswer
<1>23. CASE StartCritique BY <1>23 DEF StartCritique, Open
<1>24. CASE Critique BY <1>24 DEF Critique, Recorded, NoFindings
<1>25. CASE Approve BY <1>25 DEF Approve, Approved
<1>26. CASE StopsBeforeGuard BY <1>26 DEF StopsBeforeGuard
<1>27. CASE Stall BY <1>27 DEF Stall, WithRecord
<1>28. CASE StallEscalates BY <1>28 DEF StallEscalates
<1>29. CASE ReviseAfterStall BY <1>29 DEF ReviseAfterStall, Opened
<1>30. CASE GuardStops BY <1>30 DEF GuardStops, WithRecord
<1>31. CASE GuardPasses BY <1>31 DEF GuardPasses, Opened, WithRecord
<1>32. CASE ClearPending BY <1>32 DEF ClearPending
<1>33. CASE AdvancePhase BY <1>33 DEF AdvancePhase
<1>34. CASE PlanApprovedPasses BY <1>34 DEF PlanApprovedPasses
<1>35. CASE PlanApprovedStops BY <1>35 DEF PlanApprovedStops
<1>36. CASE PlanOnlyEnds BY <1>36 DEF PlanOnlyEnds
<1>37. CASE TurnFails BY <1>37 DEF TurnFails
<1>38. CASE TurnEscalates BY <1>38 DEF TurnEscalates
<1>39. CASE Killed BY <1>39 DEF Killed
<1>40. CASE ResumePlain BY <1>40 DEF ResumePlain, CanRestart
<1>41. CASE \E p, given : ResumeWithEdits(p, given)
    BY <1>41 DEF ResumeWithEdits, CanRestart
<1>42. CASE UNCHANGED vars BY <1>42 DEF vars
<1>43. CASE PlanOnlyExits BY <1>43 DEF PlanOnlyExits
<1>44. CASE ContinueIntoImplementation BY <1>44 DEF ContinueIntoImplementation
<1> QED BY <1>1, <1>2, <1>3, <1>4, <1>5, <1>6, <1>7, <1>8, <1>9, <1>10, <1>11, <1>12, <1>13,
         <1>14, <1>15, <1>16, <1>17, <1>18, <1>19, <1>20, <1>21, <1>22, <1>23, <1>24, <1>25,
         <1>26, <1>27, <1>28, <1>29, <1>30, <1>31, <1>32, <1>33, <1>34, <1>35, <1>36, <1>37,
         <1>38, <1>39, <1>40, <1>41, <1>42, <1>43, <1>44 DEF Next, Step, Restart

\* A declined blocking question stays in hand until it is handed over or lost.
LEMMA StepDeclined == TypeOK /\ Locals /\ DeclinedAreHeld /\ [Next]_vars => DeclinedAreHeld'
<1> SUFFICES ASSUME TypeOK /\ Locals /\ DeclinedAreHeld, [Next]_vars PROVE DeclinedAreHeld'
    OBVIOUS
<1> USE QuestionAssumption DEF TypeOK, RunRecord, Job, Memory, Pcs, TurnPcs, Verdicts, NoJob, Throw,
         Owed, Locals, DeclinedAreHeld
<1>1. CASE WriteNeedsInput BY <1>1 DEF WriteNeedsInput
<1>2. CASE TakeAnswers BY <1>2 DEF TakeAnswers
<1>3. CASE RetireFile BY <1>3 DEF RetireFile
<1>4. CASE StartDraft BY <1>4 DEF StartDraft
<1>5. CASE Draft BY <1>5 DEF Draft
<1>6. CASE HasPlan BY <1>6 DEF HasPlan
<1>7. CASE NoAnswersDue BY <1>7 DEF NoAnswersDue
<1>8. CASE ReviseForAnswers BY <1>8 DEF ReviseForAnswers, OpenedForAnswers
<1>9. CASE Revise BY <1>9 DEF Revise, AnswersRevision, FindingsRevision
<1>10. CASE HoldPasses BY <1>10 DEF HoldPasses
<1>11. CASE HoldStops BY <1>11 DEF HoldStops
<1>12. CASE AcceptByPerson BY <1>12 DEF AcceptByPerson, Approved, Accepts
<1>13. CASE ReviseCarried BY <1>13 DEF ReviseCarried, Opened, Accepts
<1>14. CASE OutOfQuestionRounds BY <1>14 DEF OutOfQuestionRounds, Open
<1>15. CASE AskQuestions BY <1>15 DEF AskQuestions, Open, NextRound
<1>16. CASE AnswererIsOff BY <1>16 DEF AnswererIsOff
<1>17. CASE \E usable, refused \in SUBSET Questions : AnswererReplies(usable, refused)
    BY <1>17 DEF AnswererReplies, Marked
<1>18. CASE RefusedBlocking BY <1>18 DEF RefusedBlocking, Handed
<1>19. CASE NothingRefused BY <1>19 DEF NothingRefused, Handed
<1>20. CASE KeepAdvisory BY <1>20 DEF KeepAdvisory, AdvisoryOnly
<1>21. CASE ReviseForAnswerer BY <1>21 DEF ReviseForAnswerer, AdvisoryOnly
<1>22. CASE NoUsableAnswer BY <1>22 DEF NoUsableAnswer
<1>23. CASE StartCritique BY <1>23 DEF StartCritique, Open
<1>24. CASE Critique BY <1>24 DEF Critique, Recorded, NoFindings
<1>25. CASE Approve BY <1>25 DEF Approve, Approved
<1>26. CASE StopsBeforeGuard BY <1>26 DEF StopsBeforeGuard
<1>27. CASE Stall BY <1>27 DEF Stall, WithRecord
<1>28. CASE StallEscalates BY <1>28 DEF StallEscalates
<1>29. CASE ReviseAfterStall BY <1>29 DEF ReviseAfterStall, Opened
<1>30. CASE GuardStops BY <1>30 DEF GuardStops, WithRecord
<1>31. CASE GuardPasses BY <1>31 DEF GuardPasses, Opened, WithRecord
<1>32. CASE ClearPending BY <1>32 DEF ClearPending
<1>33. CASE AdvancePhase BY <1>33 DEF AdvancePhase
<1>34. CASE PlanApprovedPasses BY <1>34 DEF PlanApprovedPasses
<1>35. CASE PlanApprovedStops BY <1>35 DEF PlanApprovedStops
<1>36. CASE PlanOnlyEnds BY <1>36 DEF PlanOnlyEnds
<1>37. CASE TurnFails BY <1>37 DEF TurnFails
<1>38. CASE TurnEscalates BY <1>38 DEF TurnEscalates
<1>39. CASE Killed BY <1>39 DEF Killed
<1>40. CASE ResumePlain BY <1>40 DEF ResumePlain, CanRestart
<1>41. CASE \E p, given : ResumeWithEdits(p, given)
    BY <1>41 DEF ResumeWithEdits, CanRestart
<1>42. CASE UNCHANGED vars BY <1>42 DEF vars
<1>43. CASE PlanOnlyExits BY <1>43 DEF PlanOnlyExits
<1>44. CASE ContinueIntoImplementation BY <1>44 DEF ContinueIntoImplementation
<1> QED BY <1>1, <1>2, <1>3, <1>4, <1>5, <1>6, <1>7, <1>8, <1>9, <1>10, <1>11, <1>12, <1>13,
         <1>14, <1>15, <1>16, <1>17, <1>18, <1>19, <1>20, <1>21, <1>22, <1>23, <1>24, <1>25,
         <1>26, <1>27, <1>28, <1>29, <1>30, <1>31, <1>32, <1>33, <1>34, <1>35, <1>36, <1>37,
         <1>38, <1>39, <1>40, <1>41, <1>42, <1>43, <1>44 DEF Next, Step, Restart

\* The judgement an approval rests on stays a judgement of the draft.
LEMMA StepApproval == TypeOK /\ Locals /\ PhaseEnds /\ ApprovalHolds /\ [Next]_vars =>
         ApprovalHolds'
<1> SUFFICES ASSUME TypeOK /\ Locals /\ PhaseEnds /\ ApprovalHolds, [Next]_vars PROVE ApprovalHolds'
    OBVIOUS
<1> USE QuestionAssumption DEF TypeOK, RunRecord, Job, Memory, Pcs, TurnPcs, Verdicts, NoJob, Throw,
         Owed, Locals, PhaseEnds, NoFindings,
         Passes, Judged, ApprovalHolds
<1>1. CASE WriteNeedsInput BY <1>1 DEF WriteNeedsInput
<1>2. CASE TakeAnswers BY <1>2 DEF TakeAnswers
<1>3. CASE RetireFile BY <1>3 DEF RetireFile
<1>4. CASE StartDraft BY <1>4 DEF StartDraft
<1>5. CASE Draft BY <1>5 DEF Draft
<1>6. CASE HasPlan BY <1>6 DEF HasPlan
<1>7. CASE NoAnswersDue BY <1>7 DEF NoAnswersDue
<1>8. CASE ReviseForAnswers BY <1>8 DEF ReviseForAnswers, OpenedForAnswers
<1>9. CASE Revise
    <2>1. PICK asks : run' = IF job.args = "answers" THEN AnswersRevision(run, asks)
                                                  ELSE FindingsRevision(run, asks)
        BY <1>9 DEF Revise
    <2>2. CASE job.args = "answers"
        <3>1. /\ run'.plan = run.plan + 1 /\ run'.pending = run.pending /\ run'.phase = run.phase
              /\ run'.revisedByAnswer = (run.revisedByAnswer \/ run.pending # NoFindings)
            BY <2>1, <2>2 DEF AnswersRevision
        <3>2. run.pending.moved /\ ~run'.revisedByAnswer => run.pending = NoFindings
            BY <3>1
        <3> QED BY <1>9, <3>1, <3>2 DEF Revise
    <2>3. CASE job.args # "answers"
        <3>1. run'.pending = NoFindings /\ run'.phase = run.phase
            BY <2>1, <2>3 DEF FindingsRevision
        <3> QED BY <1>9, <3>1 DEF Revise
    <2> QED BY <2>2, <2>3
<1>10. CASE HoldPasses BY <1>10 DEF HoldPasses
<1>11. CASE HoldStops BY <1>11 DEF HoldStops
<1>12. CASE AcceptByPerson BY <1>12 DEF AcceptByPerson, Approved, Accepts
<1>13. CASE ReviseCarried BY <1>13 DEF ReviseCarried, Opened, Accepts
<1>14. CASE OutOfQuestionRounds BY <1>14 DEF OutOfQuestionRounds, Open
<1>15. CASE AskQuestions BY <1>15 DEF AskQuestions, Open, NextRound
<1>16. CASE AnswererIsOff BY <1>16 DEF AnswererIsOff
<1>17. CASE \E usable, refused \in SUBSET Questions : AnswererReplies(usable, refused)
    BY <1>17 DEF AnswererReplies, Marked
<1>18. CASE RefusedBlocking BY <1>18 DEF RefusedBlocking, Handed
<1>19. CASE NothingRefused BY <1>19 DEF NothingRefused, Handed
<1>20. CASE KeepAdvisory BY <1>20 DEF KeepAdvisory, AdvisoryOnly
<1>21. CASE ReviseForAnswerer BY <1>21 DEF ReviseForAnswerer, AdvisoryOnly
<1>22. CASE NoUsableAnswer BY <1>22 DEF NoUsableAnswer
<1>23. CASE StartCritique BY <1>23 DEF StartCritique, Open
<1>24. CASE Critique BY <1>24 DEF Critique, Recorded, NoFindings
<1>25. CASE Approve BY <1>25 DEF Approve, Approved
<1>26. CASE StopsBeforeGuard BY <1>26 DEF StopsBeforeGuard
<1>27. CASE Stall BY <1>27 DEF Stall, WithRecord
<1>28. CASE StallEscalates BY <1>28 DEF StallEscalates
<1>29. CASE ReviseAfterStall BY <1>29 DEF ReviseAfterStall, Opened
<1>30. CASE GuardStops BY <1>30 DEF GuardStops, WithRecord
<1>31. CASE GuardPasses BY <1>31 DEF GuardPasses, Opened, WithRecord
<1>32. CASE ClearPending BY <1>32 DEF ClearPending
<1>33. CASE AdvancePhase BY <1>33 DEF AdvancePhase
<1>34. CASE PlanApprovedPasses BY <1>34 DEF PlanApprovedPasses
<1>35. CASE PlanApprovedStops BY <1>35 DEF PlanApprovedStops
<1>36. CASE PlanOnlyEnds BY <1>36 DEF PlanOnlyEnds
<1>37. CASE TurnFails BY <1>37 DEF TurnFails
<1>38. CASE TurnEscalates BY <1>38 DEF TurnEscalates
<1>39. CASE Killed BY <1>39 DEF Killed
<1>40. CASE ResumePlain BY <1>40 DEF ResumePlain, CanRestart
<1>41. CASE \E p, given : ResumeWithEdits(p, given)
    <2>1. PICK p, given : ResumeWithEdits(p, given) BY <1>41
    <2>2. /\ p.moved => run.pending.moved \/ seen'.moved = run.plan
          /\ seen'.moved \in {seen.moved, run.plan}
        BY <2>1, EditsKeepType
    <2>3. /\ run'.pending = p /\ run'.phase = run.phase /\ run'.plan = run.plan
          /\ run'.revisedByAnswer = run.revisedByAnswer
        BY <2>1 DEF ResumeWithEdits
    <2>4. run.pending.moved => Owed OBVIOUS
    <2> QED BY <2>1, <2>2, <2>3, <2>4 DEF ResumeWithEdits, CanRestart
<1>42. CASE UNCHANGED vars BY <1>42 DEF vars
<1>43. CASE PlanOnlyExits BY <1>43 DEF PlanOnlyExits
<1>44. CASE ContinueIntoImplementation BY <1>44 DEF ContinueIntoImplementation
<1> QED BY <1>1, <1>2, <1>3, <1>4, <1>5, <1>6, <1>7, <1>8, <1>9, <1>10, <1>11, <1>12, <1>13,
         <1>14, <1>15, <1>16, <1>17, <1>18, <1>19, <1>20, <1>21, <1>22, <1>23, <1>24, <1>25,
         <1>26, <1>27, <1>28, <1>29, <1>30, <1>31, <1>32, <1>33, <1>34, <1>35, <1>36, <1>37,
         <1>38, <1>39, <1>40, <1>41, <1>42, <1>43, <1>44 DEF Next, Step, Restart

\* Stalls alternate, and a request that is due keeps its findings owed.
LEMMA StepStalls == TypeOK /\ Locals /\ StallsInOrder /\ [Next]_vars => StallsInOrder'
<1> SUFFICES ASSUME TypeOK /\ Locals /\ StallsInOrder, [Next]_vars PROVE StallsInOrder'
    OBVIOUS
<1> USE QuestionAssumption DEF TypeOK, RunRecord, Job, Memory, Pcs, TurnPcs, Verdicts, NoJob, Throw,
         Owed, Locals, StallsInOrder, Due
<1>1. CASE WriteNeedsInput BY <1>1 DEF WriteNeedsInput
<1>2. CASE TakeAnswers BY <1>2 DEF TakeAnswers
<1>3. CASE RetireFile BY <1>3 DEF RetireFile
<1>4. CASE StartDraft BY <1>4 DEF StartDraft
<1>5. CASE Draft BY <1>5 DEF Draft
<1>6. CASE HasPlan BY <1>6 DEF HasPlan
<1>7. CASE NoAnswersDue BY <1>7 DEF NoAnswersDue
<1>8. CASE ReviseForAnswers BY <1>8 DEF ReviseForAnswers, OpenedForAnswers
<1>9. CASE Revise
    <2>1. PICK asks : run' = IF job.args = "answers" THEN AnswersRevision(run, asks)
                                                  ELSE FindingsRevision(run, asks)
        BY <1>9 DEF Revise
    <2>2. seen'.accepted = seen.accepted /\ pc' \in {"plan-round", "loop"} BY <1>9 DEF Revise
    <2>3. CASE job.args = "answers"
        <3>1. run'.stalls = run.stalls /\ run'.pending = run.pending
            BY <2>1, <2>3 DEF AnswersRevision
        <3> QED BY <2>2, <3>1
    <2>4. CASE job.args # "answers"
        <3>1. run'.stalls = StepBackSent(run.stalls)
            BY <2>1, <2>4 DEF FindingsRevision
        <3>2. run.stalls = <<>> => run'.stalls = <<>> BY <3>1 DEF StepBackSent
        <3>3. Alternate(run'.stalls) BY <3>1, SentAlternates DEF StallsInOrder
        <3>4. ~Due(run.stalls)'  BY <2>2, <3>1, <3>2, SentKeeps DEF Due
        <3> QED BY <3>3, <3>4
    <2> QED BY <2>3, <2>4
<1>10. CASE HoldPasses BY <1>10 DEF HoldPasses
<1>11. CASE HoldStops BY <1>11 DEF HoldStops
<1>12. CASE AcceptByPerson
    <2>1. run'.stalls = run.stalls /\ Len(run.stalls) \in seen'.accepted
        BY <1>12 DEF AcceptByPerson, Approved
    <2> QED BY <2>1
<1>13. CASE ReviseCarried BY <1>13 DEF ReviseCarried, Opened, Accepts
<1>14. CASE OutOfQuestionRounds BY <1>14 DEF OutOfQuestionRounds, Open
<1>15. CASE AskQuestions BY <1>15 DEF AskQuestions, Open, NextRound
<1>16. CASE AnswererIsOff
    <2>1. run' = run /\ seen' = seen /\ pc' \in {"question-round", "escalated"} BY <1>16 DEF
         AnswererIsOff
    <2> QED BY <2>1
<1>17. CASE \E usable, refused \in SUBSET Questions : AnswererReplies(usable, refused)
    BY <1>17 DEF AnswererReplies, Marked
<1>18. CASE RefusedBlocking BY <1>18 DEF RefusedBlocking, Handed
<1>19. CASE NothingRefused BY <1>19 DEF NothingRefused, Handed
<1>20. CASE KeepAdvisory BY <1>20 DEF KeepAdvisory, AdvisoryOnly
<1>21. CASE ReviseForAnswerer BY <1>21 DEF ReviseForAnswerer, AdvisoryOnly
<1>22. CASE NoUsableAnswer BY <1>22 DEF NoUsableAnswer
<1>23. CASE StartCritique BY <1>23 DEF StartCritique, Open
<1>24. CASE Critique
    <2>1. run'.stalls = run.stalls /\ seen'.accepted = seen.accepted BY <1>24 DEF Critique, Recorded
    <2>2. ~Due(run.stalls) BY <1>24 DEF Critique, Locals
    <2> QED BY <2>1, <2>2
<1>25. CASE Approve BY <1>25 DEF Approve, Approved
<1>26. CASE StopsBeforeGuard BY <1>26 DEF StopsBeforeGuard
<1>27. CASE Stall
    <2> DEFINE new == [position |-> run.rounds, sent |-> FALSE, action |-> StallAction(run.stalls)]
    <2>1. run'.stalls = Append(run.stalls, new) /\ run'.pending = run.pending BY <1>27 DEF Stall,
         WithRecord
    <2>2. Owed /\ pc' = "stalled" BY <1>27 DEF Stall, Passes, Locals
    <2>3. Alternate(run'.stalls)
        <3>1. run.stalls = <<>> => new.action = "step-back" BY ActionAlternates DEF StallsInOrder
        <3>2. run.stalls # <<>> => new.action # run.stalls[Len(run.stalls)].action BY
         ActionAlternates DEF StallsInOrder
        <3> HIDE DEF new
        <3>3. Alternate(Append(run.stalls, new)) BY <3>1, <3>2, AppendAlternates DEF StallsInOrder
        <3> QED BY <2>1, <3>3
    <2> QED BY <2>1, <2>2, <2>3 DEF StallsInOrder, Owed
<1>28. CASE StallEscalates BY <1>28 DEF StallEscalates
<1>29. CASE ReviseAfterStall BY <1>29 DEF ReviseAfterStall, Opened
<1>30. CASE GuardStops BY <1>30 DEF GuardStops, WithRecord
<1>31. CASE GuardPasses BY <1>31 DEF GuardPasses, Opened, WithRecord
<1>32. CASE ClearPending BY <1>32 DEF ClearPending
<1>33. CASE AdvancePhase BY <1>33 DEF AdvancePhase
<1>34. CASE PlanApprovedPasses BY <1>34 DEF PlanApprovedPasses
<1>35. CASE PlanApprovedStops BY <1>35 DEF PlanApprovedStops
<1>36. CASE PlanOnlyEnds BY <1>36 DEF PlanOnlyEnds
<1>37. CASE TurnFails BY <1>37 DEF TurnFails
<1>38. CASE TurnEscalates BY <1>38 DEF TurnEscalates
<1>39. CASE Killed BY <1>39 DEF Killed
<1>40. CASE ResumePlain BY <1>40 DEF ResumePlain, CanRestart
<1>41. CASE \E p, given : ResumeWithEdits(p, given)
    <2>1. PICK p, given : ResumeWithEdits(p, given) BY <1>41
    <2>2. Owed => p # NoFindings BY <2>1, EditsKeepType
    <2> QED BY <2>1, <2>2 DEF ResumeWithEdits, CanRestart
<1>42. CASE UNCHANGED vars BY <1>42 DEF vars
<1>43. CASE PlanOnlyExits BY <1>43 DEF PlanOnlyExits
<1>44. CASE ContinueIntoImplementation BY <1>44 DEF ContinueIntoImplementation
<1> QED BY <1>1, <1>2, <1>3, <1>4, <1>5, <1>6, <1>7, <1>8, <1>9, <1>10, <1>11, <1>12, <1>13,
         <1>14, <1>15, <1>16, <1>17, <1>18, <1>19, <1>20, <1>21, <1>22, <1>23, <1>24, <1>25,
         <1>26, <1>27, <1>28, <1>29, <1>30, <1>31, <1>32, <1>33, <1>34, <1>35, <1>36, <1>37,
         <1>38, <1>39, <1>40, <1>41, <1>42, <1>43, <1>44 DEF Next, Step, Restart

\* Nobody is asked about a stall before a revision carried the request to step back.
LEMMA StepSteppedBack == TypeOK /\ StallsInOrder /\ SteppedBackBeforeAsking /\ [Next]_vars =>
         SteppedBackBeforeAsking'
<1> SUFFICES ASSUME TypeOK /\ StallsInOrder /\ SteppedBackBeforeAsking, [Next]_vars PROVE
         SteppedBackBeforeAsking'
    OBVIOUS
<1> USE DEF TypeOK, RunRecord, Memory, Throw, SteppedBackBeforeAsking
<1>1. CASE WriteNeedsInput BY <1>1 DEF WriteNeedsInput
<1>2. CASE TakeAnswers BY <1>2 DEF TakeAnswers
<1>3. CASE RetireFile BY <1>3 DEF RetireFile
<1>4. CASE StartDraft BY <1>4 DEF StartDraft
<1>5. CASE Draft BY <1>5 DEF Draft
<1>6. CASE HasPlan BY <1>6 DEF HasPlan
<1>7. CASE NoAnswersDue BY <1>7 DEF NoAnswersDue
<1>8. CASE ReviseForAnswers BY <1>8 DEF ReviseForAnswers, OpenedForAnswers
<1>9. CASE Revise
    <2>1. PICK asks : run' = IF job.args = "answers" THEN AnswersRevision(run, asks)
                                                  ELSE FindingsRevision(run, asks)
        BY <1>9 DEF Revise
    <2>2. run'.stalls = run.stalls \/ run'.stalls = StepBackSent(run.stalls)
        BY <2>1 DEF AnswersRevision, FindingsRevision
    <2>3. seen'.accepted = seen.accepted BY <1>9 DEF Revise
    <2>4. ASSUME NEW i \in DOMAIN run'.stalls, run'.stalls[i].action = "escalated"
          PROVE  /\ i > 1 /\ run'.stalls[i - 1].action = "step-back"
                 /\ run'.stalls[i - 1].sent \/ (i - 1) \in seen'.accepted
        <3>1. CASE run'.stalls = run.stalls BY <2>3, <2>4, <3>1
        <3>2. CASE run'.stalls = StepBackSent(run.stalls)
            <4>1. i \in DOMAIN run.stalls BY <3>2, SentKeeps
            <4>2. run.stalls[i].action = "escalated" BY <2>4, <3>2, <4>1, SentKeeps
            <4>3. i > 1 /\ i - 1 \in DOMAIN run.stalls BY <4>1, <4>2
            <4>4. /\ run.stalls[i - 1].action = "step-back"
                  /\ run.stalls[i - 1].sent \/ (i - 1) \in seen.accepted
                BY <4>1, <4>2
            <4>5. /\ run'.stalls[i - 1].action = run.stalls[i - 1].action
                  /\ run.stalls[i - 1].sent => run'.stalls[i - 1].sent
                BY <3>2, <4>3, SentKeeps
            <4> QED BY <2>3, <4>3, <4>4, <4>5
        <3> QED BY <2>2, <3>1, <3>2
    <2> QED BY <2>4
<1>10. CASE HoldPasses BY <1>10 DEF HoldPasses
<1>11. CASE HoldStops BY <1>11 DEF HoldStops
<1>12. CASE AcceptByPerson BY <1>12 DEF AcceptByPerson, Approved, Accepts
<1>13. CASE ReviseCarried BY <1>13 DEF ReviseCarried, Opened, Accepts
<1>14. CASE OutOfQuestionRounds BY <1>14 DEF OutOfQuestionRounds, Open
<1>15. CASE AskQuestions BY <1>15 DEF AskQuestions, Open, NextRound
<1>16. CASE AnswererIsOff BY <1>16 DEF AnswererIsOff
<1>17. CASE \E usable, refused \in SUBSET Questions : AnswererReplies(usable, refused)
    BY <1>17 DEF AnswererReplies, Marked
<1>18. CASE RefusedBlocking BY <1>18 DEF RefusedBlocking, Handed
<1>19. CASE NothingRefused BY <1>19 DEF NothingRefused, Handed
<1>20. CASE KeepAdvisory BY <1>20 DEF KeepAdvisory, AdvisoryOnly
<1>21. CASE ReviseForAnswerer BY <1>21 DEF ReviseForAnswerer, AdvisoryOnly
<1>22. CASE NoUsableAnswer BY <1>22 DEF NoUsableAnswer
<1>23. CASE StartCritique BY <1>23 DEF StartCritique, Open
<1>24. CASE Critique BY <1>24 DEF Critique, Recorded, NoFindings
<1>25. CASE Approve BY <1>25 DEF Approve, Approved
<1>26. CASE StopsBeforeGuard BY <1>26 DEF StopsBeforeGuard
<1>27. CASE Stall
    <2> DEFINE new == [position |-> run.rounds, sent |-> FALSE, action |-> StallAction(run.stalls)]
               n == Len(run.stalls)
    <2>1. run'.stalls = Append(run.stalls, new) /\ seen' = seen BY <1>27 DEF Stall, WithRecord
    <2>2. new.action = "escalated" =>
             /\ n >= 1 /\ run.stalls[n].action = "step-back"
             /\ run.stalls[n].sent \/ n \in seen.accepted
        <3>1. /\ StallAction(run.stalls) \in {"step-back", "escalated"}
              /\ run.stalls = <<>> => StallAction(run.stalls) = "step-back"
              /\ run.stalls # <<>> => StallAction(run.stalls) # run.stalls[n].action
            BY ActionAlternates DEF StallsInOrder
        <3>2. ~Due(run.stalls) BY <1>27 DEF Stall, StallsInOrder
        <3>3. run.stalls # <<>> => n >= 1 /\ run.stalls[n].action \in {"step-back", "escalated"}
            <4>1. run.stalls # <<>> => n >= 1 /\ run.stalls[n] \in Stalls OBVIOUS
            <4> QED BY <4>1 DEF Stalls
        <3> QED BY <3>1, <3>2, <3>3 DEF Due
    <2> HIDE DEF new
    <2>3. ASSUME NEW i \in DOMAIN run'.stalls, run'.stalls[i].action = "escalated"
          PROVE  /\ i > 1 /\ run'.stalls[i - 1].action = "step-back"
                 /\ run'.stalls[i - 1].sent \/ (i - 1) \in seen'.accepted
        <3>1. CASE i = n + 1 BY <2>1, <2>2, <2>3, <3>1
        <3>2. CASE i # n + 1
            <4>1. i \in DOMAIN run.stalls /\ run'.stalls[i] = run.stalls[i] BY <2>1, <3>2
            <4>2. i > 1 => run'.stalls[i - 1] = run.stalls[i - 1] BY <2>1, <4>1
            <4> QED BY <2>1, <2>3, <4>1, <4>2
        <3> QED BY <3>1, <3>2
    <2> QED BY <2>3
<1>28. CASE StallEscalates BY <1>28 DEF StallEscalates
<1>29. CASE ReviseAfterStall BY <1>29 DEF ReviseAfterStall, Opened
<1>30. CASE GuardStops BY <1>30 DEF GuardStops, WithRecord
<1>31. CASE GuardPasses BY <1>31 DEF GuardPasses, Opened, WithRecord
<1>32. CASE ClearPending BY <1>32 DEF ClearPending
<1>33. CASE AdvancePhase BY <1>33 DEF AdvancePhase
<1>34. CASE PlanApprovedPasses BY <1>34 DEF PlanApprovedPasses
<1>35. CASE PlanApprovedStops BY <1>35 DEF PlanApprovedStops
<1>36. CASE PlanOnlyEnds BY <1>36 DEF PlanOnlyEnds
<1>37. CASE TurnFails BY <1>37 DEF TurnFails
<1>38. CASE TurnEscalates BY <1>38 DEF TurnEscalates
<1>39. CASE Killed BY <1>39 DEF Killed
<1>40. CASE ResumePlain BY <1>40 DEF ResumePlain, CanRestart
<1>41. CASE \E p, given : ResumeWithEdits(p, given)
    BY <1>41 DEF ResumeWithEdits, CanRestart
<1>42. CASE UNCHANGED vars BY <1>42 DEF vars
<1>43. CASE PlanOnlyExits BY <1>43 DEF PlanOnlyExits
<1>44. CASE ContinueIntoImplementation BY <1>44 DEF ContinueIntoImplementation
<1> QED BY <1>1, <1>2, <1>3, <1>4, <1>5, <1>6, <1>7, <1>8, <1>9, <1>10, <1>11, <1>12, <1>13,
         <1>14, <1>15, <1>16, <1>17, <1>18, <1>19, <1>20, <1>21, <1>22, <1>23, <1>24, <1>25,
         <1>26, <1>27, <1>28, <1>29, <1>30, <1>31, <1>32, <1>33, <1>34, <1>35, <1>36, <1>37,
         <1>38, <1>39, <1>40, <1>41, <1>42, <1>43, <1>44 DEF Next, Step, Restart

\* Findings are replaced only by the revision that was given them or the approval.
LEMMA StepConsumes ==
    ASSUME TypeOK, Locals, [Next]_vars, Owed, run'.pending.of # run.pending.of
    PROVE  \/ pc = "revise" /\ job.args = "findings" /\ run'.plan = run.plan + 1
           \/ pc = "approved"
<1> USE DEF TypeOK, RunRecord, Locals, Throw
<1>1. CASE WriteNeedsInput BY <1>1 DEF WriteNeedsInput
<1>2. CASE TakeAnswers BY <1>2 DEF TakeAnswers
<1>3. CASE RetireFile BY <1>3 DEF RetireFile
<1>4. CASE StartDraft BY <1>4 DEF StartDraft
<1>5. CASE Draft BY <1>5 DEF Draft
<1>6. CASE HasPlan BY <1>6 DEF HasPlan
<1>7. CASE NoAnswersDue BY <1>7 DEF NoAnswersDue
<1>8. CASE ReviseForAnswers BY <1>8 DEF ReviseForAnswers, OpenedForAnswers
<1>9. CASE Revise BY <1>9 DEF Revise, AnswersRevision, FindingsRevision
<1>10. CASE HoldPasses BY <1>10 DEF HoldPasses
<1>11. CASE HoldStops BY <1>11 DEF HoldStops
<1>12. CASE AcceptByPerson BY <1>12 DEF AcceptByPerson, Approved, Accepts
<1>13. CASE ReviseCarried BY <1>13 DEF ReviseCarried, Opened, Accepts
<1>14. CASE OutOfQuestionRounds BY <1>14 DEF OutOfQuestionRounds, Open
<1>15. CASE AskQuestions BY <1>15 DEF AskQuestions, Open, NextRound
<1>16. CASE AnswererIsOff BY <1>16 DEF AnswererIsOff
<1>17. CASE \E usable, refused \in SUBSET Questions : AnswererReplies(usable, refused)
    BY <1>17 DEF AnswererReplies, Marked
<1>18. CASE RefusedBlocking BY <1>18 DEF RefusedBlocking, Handed
<1>19. CASE NothingRefused BY <1>19 DEF NothingRefused, Handed
<1>20. CASE KeepAdvisory BY <1>20 DEF KeepAdvisory, AdvisoryOnly
<1>21. CASE ReviseForAnswerer BY <1>21 DEF ReviseForAnswerer, AdvisoryOnly
<1>22. CASE NoUsableAnswer BY <1>22 DEF NoUsableAnswer
<1>23. CASE StartCritique BY <1>23 DEF StartCritique, Open
<1>24. CASE Critique BY <1>24 DEF Critique, Recorded, NoFindings
<1>25. CASE Approve BY <1>25 DEF Approve, Approved
<1>26. CASE StopsBeforeGuard BY <1>26 DEF StopsBeforeGuard
<1>27. CASE Stall BY <1>27 DEF Stall, WithRecord
<1>28. CASE StallEscalates BY <1>28 DEF StallEscalates
<1>29. CASE ReviseAfterStall BY <1>29 DEF ReviseAfterStall, Opened
<1>30. CASE GuardStops BY <1>30 DEF GuardStops, WithRecord
<1>31. CASE GuardPasses BY <1>31 DEF GuardPasses, Opened, WithRecord
<1>32. CASE ClearPending BY <1>32 DEF ClearPending
<1>33. CASE AdvancePhase BY <1>33 DEF AdvancePhase
<1>34. CASE PlanApprovedPasses BY <1>34 DEF PlanApprovedPasses
<1>35. CASE PlanApprovedStops BY <1>35 DEF PlanApprovedStops
<1>36. CASE PlanOnlyEnds BY <1>36 DEF PlanOnlyEnds
<1>37. CASE TurnFails BY <1>37 DEF TurnFails
<1>38. CASE TurnEscalates BY <1>38 DEF TurnEscalates
<1>39. CASE Killed BY <1>39 DEF Killed
<1>40. CASE ResumePlain BY <1>40 DEF ResumePlain, CanRestart
<1>41. CASE \E p, given : ResumeWithEdits(p, given)
    <2>1. PICK p, given : ResumeWithEdits(p, given) BY <1>41
    <2>2. run'.pending = p BY <2>1 DEF ResumeWithEdits
    <2> QED BY <2>1, <2>2, EditsKeepType
<1>42. CASE UNCHANGED vars BY <1>42 DEF vars
<1>43. CASE PlanOnlyExits BY <1>43 DEF PlanOnlyExits
<1>44. CASE ContinueIntoImplementation BY <1>44 DEF ContinueIntoImplementation
<1> QED BY <1>1, <1>2, <1>3, <1>4, <1>5, <1>6, <1>7, <1>8, <1>9, <1>10, <1>11, <1>12, <1>13,
         <1>14, <1>15, <1>16, <1>17, <1>18, <1>19, <1>20, <1>21, <1>22, <1>23, <1>24, <1>25,
         <1>26, <1>27, <1>28, <1>29, <1>30, <1>31, <1>32, <1>33, <1>34, <1>35, <1>36, <1>37,
         <1>38, <1>39, <1>40, <1>41, <1>42, <1>43, <1>44 DEF Next, Step, Restart

\* A run starts with an empty record.
LEMMA InitIInv == Init => IInv
<1> SUFFICES ASSUME Init PROVE IInv
    OBVIOUS
<1>1. TypeOK
    <2>1. PICK cfg \in Settings :
             run = [phase |-> "planning", planOnly |-> cfg.planOnly, cfg |-> cfg,
                    planRound |-> 0, questionRound |-> 0, plan |-> 0, asks |-> {},
                    pending |-> NoFindings,
                    pendingAnswers |-> {}, advisory |-> {}, answered |-> {},
                    revisedByAnswer |-> FALSE, carried |-> 0, rounds |-> 0, stalls |-> <<>>]
        BY DEF Init
    <2>2. NoFindings \in FindingLists /\ <<>> \in Seq(Stalls) BY DEF FindingLists
    <2>3. run \in RunRecord BY <2>1, <2>2, SettingsAssumption DEF RunRecord
    <2> QED BY <2>3 DEF Init, TypeOK, Job, Memory, Pcs, NoJob, NoFile, Verdicts
<1>2. /\ run.phase = "planning" /\ run.plan = 0 /\ run.pending = NoFindings
      /\ run.stalls = <<>> /\ seen.given = {} /\ seen.declined = {} /\ pc = "start" /\ job.hand = {}
    BY DEF Init, NoJob
<1>3. Locals /\ PhaseEnds /\ AnswersWait BY <1>2 DEF Locals, PhaseEnds, AnswersWait
<1>4. AnswersAreDelivered /\ DeclinedAreHeld BY <1>2 DEF AnswersAreDelivered, DeclinedAreHeld
<1>5. ApprovalHolds BY <1>2 DEF ApprovalHolds, Owed
<1>6. StallsInOrder /\ SteppedBackBeforeAsking
    BY <1>2 DEF StallsInOrder, Alternate, Due, SteppedBackBeforeAsking
<1> QED BY <1>1, <1>3, <1>4, <1>5, <1>6 DEF IInv

\* One lemma above for each part.
LEMMA StepIInv == IInv /\ [Next]_vars => IInv'
BY StepType, StepLocals, StepPhase, StepAnswersWait, StepAnswers, StepDeclined, StepApproval,
   StepStalls, StepSteppedBack DEF IInv

\* Every reachable state satisfies the inductive invariant.
THEOREM Invariant == Spec => []IInv
BY InitIInv, StepIInv, PTL DEF Spec

\* Every stored field, local and file keeps its shape (validateStoredState).
THEOREM TypeCorrect == Spec => []TypeOK
<1>1. IInv => TypeOK BY DEF IInv
<1> QED BY <1>1, Invariant, PTL

\* No answer is lost between its round and the revision that is given it
\* (pendingAnswers, advisoryAnswers), whatever is killed, failed or resumed.
THEOREM AnswersReachARevision == Spec => []AnswersAreDelivered
<1>1. IInv => AnswersAreDelivered BY DEF IInv
<1> QED BY <1>1, Invariant, PTL

\* A plan is implemented with no declined blocking question unseen (resolveQuestions).
THEOREM DeclinedIsHandedOver == Spec => []DeclinedReachesAPerson
<1>1. IInv => DeclinedReachesAPerson
    BY DEF IInv, PhaseEnds, DeclinedAreHeld, DeclinedReachesAPerson
<1> QED BY <1>1, Invariant, PTL

\* The draft that leaves planning is the one that was judged (approvePlan).
THEOREM ApprovalIsCurrent == Spec => []ApprovalIsOfThisDraft
<1>1. IInv => ApprovalIsOfThisDraft
    BY DEF IInv, ApprovalHolds, Judged, ApprovalIsOfThisDraft
<1> QED BY <1>1, Invariant, PTL

\* A person is asked about a stall after a step-back was tried (stallAction).
THEOREM StepsBackFirst == Spec => []SteppedBackBeforeAsking
<1>1. IInv => SteppedBackBeforeAsking BY DEF IInv
<1> QED BY <1>1, Invariant, PTL

\* Findings leave the record with the revision that was given them or with an
\* approval (recordPendingFindings, clearPendingFindings).
THEOREM FindingsLeaveAnswered == Spec => FindingsAreConsumed
<1> DEFINE Consumed == Owed /\ run'.pending.of # run.pending.of =>
                          \/ pc = "revise" /\ job.args = "findings" /\ run'.plan = run.plan + 1
                          \/ pc = "approved"
<1>1. IInv /\ [Next]_vars => [Consumed]_vars BY StepConsumes DEF IInv
<1> QED BY <1>1, Invariant, PTL DEF Spec, FindingsAreConsumed

\* One step of the loop is one step of the abstract run, or none.
LEMMA StepSimulates ==
    ASSUME IInv, [Next]_vars
    PROVE  Abstract!Next \/ UNCHANGED <<run.phase, run.planOnly, pc # "off">>
<1> USE DEF IInv, PhaseEnds, TypeOK, RunRecord
<1>1. CASE AdvancePhase \/ PlanOnlyEnds
    <2>1. pc # "off" /\ pc' # "off" /\ run.phase = "planning"
        BY <1>1 DEF AdvancePhase, PlanOnlyEnds
    <2>2. /\ run'.phase = IF run.planOnly THEN "complete" ELSE "implementing"
          /\ run'.planOnly = run.planOnly
        BY <1>1 DEF AdvancePhase, PlanOnlyEnds
    <2>3. Abstract!Advance
        BY <2>1, <2>2 DEF Abstract!Advance, Abstract!Following
    <2> QED BY <2>3 DEF Abstract!Next
<1>2. CASE WriteNeedsInput \/ PlanOnlyExits \/ TurnFails \/ Killed
    <2>1. pc # "off" /\ pc' = "off" /\ run' = run
        BY <1>2 DEF WriteNeedsInput, PlanOnlyExits, TurnFails, TurnPcs, Killed
    <2>2. Abstract!Stop
        BY <2>1 DEF Abstract!Stop
    <2> QED BY <2>2 DEF Abstract!Next
<1>3. CASE Restart
    <2>1. /\ pc = "off" /\ pc' # "off" /\ run.phase = "planning"
          /\ run'.phase = run.phase /\ run'.planOnly = run.planOnly
        BY <1>3 DEF Restart, ResumePlain, ResumeWithEdits, CanRestart
    <2>2. Abstract!Resume
        BY <2>1 DEF Abstract!Resume, Abstract!Following
    <2> QED BY <2>2 DEF Abstract!Next
<1>4. CASE TakeAnswers \/ RetireFile \/ StartDraft \/ Draft \/ HasPlan \/ NoAnswersDue
    BY <1>4 DEF TakeAnswers, RetireFile, StartDraft, Draft, HasPlan, NoAnswersDue
<1>5. CASE ReviseForAnswers \/ Revise \/ HoldPasses \/ HoldStops
    BY <1>5 DEF ReviseForAnswers, OpenedForAnswers, Revise, AnswersRevision, FindingsRevision,
       HoldPasses, HoldStops, Throw
<1>6. CASE AcceptByPerson \/ ReviseCarried \/ OutOfQuestionRounds \/ AskQuestions \/ AnswererIsOff
    BY <1>6 DEF AcceptByPerson, Approved, ReviseCarried, Opened, OutOfQuestionRounds,
       AskQuestions, NextRound, AnswererIsOff, Throw
<1>7. CASE \E usable, refused \in SUBSET Questions : AnswererReplies(usable, refused)
    BY <1>7 DEF AnswererReplies, Marked
<1>8. CASE \/ RefusedBlocking \/ NothingRefused \/ KeepAdvisory \/ ReviseForAnswerer
           \/ NoUsableAnswer \/ StartCritique \/ Critique \/ Approve
    BY <1>8 DEF RefusedBlocking, NothingRefused, KeepAdvisory, ReviseForAnswerer, NoUsableAnswer,
       StartCritique, Critique, Recorded, Approve, Approved, Throw
<1>9. CASE \/ StopsBeforeGuard \/ Stall \/ StallEscalates \/ ReviseAfterStall \/ GuardStops
           \/ GuardPasses
    BY <1>9 DEF StopsBeforeGuard, Stall, WithRecord, StallEscalates, ReviseAfterStall, Opened,
       GuardStops, GuardPasses, Throw
<1>10. CASE ClearPending \/ PlanApprovedPasses \/ PlanApprovedStops \/ TurnEscalates \/ UNCHANGED vars
    BY <1>10 DEF ClearPending, PlanApprovedPasses, PlanApprovedStops, TurnEscalates, TurnPcs,
       Throw, vars
<1>11. CASE ContinueIntoImplementation
    <2>1. Abstract!Continue
        BY <1>11 DEF ContinueIntoImplementation, Abstract!Continue
    <2> QED BY <2>1 DEF Abstract!Next
<1> QED BY <1>1, <1>2, <1>3, <1>4, <1>5, <1>6, <1>7, <1>8, <1>9, <1>10, <1>11 DEF Next, Step

\* The loop implements the abstract run: no kill, failed turn, edit or resume
\* moves the phase; a process that has the run leaves planning once, for the
\* implementation or, when the run is to plan and no more, for its end; and only
\* a resume told to implement such a run opens it again, as a run that is no
\* longer plan-only (advancePhase, resumePhase, continueIntoImplementation).
THEOREM ImplementsRunPhases == Spec => KeepsThePhases
<1>1. Init => Abstract!Init
    BY SettingsAssumption DEF Init, Abstract!Init
<1>2. IInv /\ [Next]_vars => [Abstract!Next]_<<run.phase, run.planOnly, pc # "off">>
    BY StepSimulates
<1> QED BY <1>1, <1>2, Invariant, PTL DEF Spec, KeepsThePhases, Abstract!Spec

-----------------------------------------------------------------------------
(* Why the loop ends, short of fairness: a count of steps that every step   *)
(* of a process spends, though revisions, questions and critiques go round. *)

\* Until its first critique a process may find findings waiting, and carry them
\* past an answers revision to the one revision they are due.
Carries ==
    /\ Owed
    /\ \/ pc \in {"answers", "retire", "start", "drafting", "answersDue", "loop"}
       \/ pc = "revise" /\ job.args = "answers"

\* How far a process is from its end when no more rounds begin.
Position ==
    CASE pc \in {"off", "done"} -> 0
      [] pc \in {"escalated", "plan-only"} -> 1
      [] pc = "plan-approved" -> 2
      [] pc = "planned" -> 3
      [] pc = "approved" -> 4
      [] pc = "stalled" -> 5
      [] pc = "judge" -> 6
      [] pc = "critiquing" -> 7
      [] pc = "loop" -> 8
      [] pc = "plan-round" -> 9
      [] pc = "revise" -> 10
      [] pc \in {"question-round", "answersDue"} -> 11
      [] pc \in {"answered", "drafting"} -> 12
      [] pc \in {"asking", "start"} -> 13
      [] pc = "retire" -> 14
      [] pc = "answers" -> 15

\* The rounds a process may still begin: plan rounds and question rounds below
\* their caps, and the one a resume takes whatever the cap.
PlanRoundsLeft == IF AtCap(run) THEN 0 ELSE run.cfg.maxPlanRounds - run.planRound - 1
QuestionRoundsLeft ==
    IF run.questionRound < MaxQuestionRounds THEN MaxQuestionRounds - run.questionRound ELSE 0
RoundsLeft == PlanRoundsLeft + QuestionRoundsLeft + IF Carries THEN 1 ELSE 0

StepsLeft == 16 * RoundsLeft + Position

\* A process that has the run takes boundedly many steps, whatever the planner,
\* the critic, the answerer and the stall check make of them (planPhase).
EveryStepSpends == [][pc # "off" => StepsLeft' < StepsLeft]_vars

\* A round of questions begins only when no findings are owed, and a plan round
\* that a boundary may stop has consumed its own.
AsksOweNothing == pc \in {"asking", "answered", "question-round", "plan-round"} => ~Owed

LEMMA StepOwes == TypeOK /\ Locals /\ AsksOweNothing /\ [Next]_vars => AsksOweNothing'
<1> SUFFICES ASSUME TypeOK /\ Locals /\ AsksOweNothing, [Next]_vars PROVE AsksOweNothing'
    OBVIOUS
<1> USE QuestionAssumption DEF TypeOK, RunRecord, Job, Memory, Pcs, TurnPcs, Verdicts, NoJob, Throw,
         Owed, Locals, AsksOweNothing
<1>1. CASE WriteNeedsInput BY <1>1 DEF WriteNeedsInput
<1>2. CASE TakeAnswers BY <1>2 DEF TakeAnswers
<1>3. CASE RetireFile BY <1>3 DEF RetireFile
<1>4. CASE StartDraft BY <1>4 DEF StartDraft
<1>5. CASE Draft BY <1>5 DEF Draft
<1>6. CASE HasPlan BY <1>6 DEF HasPlan
<1>7. CASE NoAnswersDue BY <1>7 DEF NoAnswersDue
<1>8. CASE ReviseForAnswers BY <1>8 DEF ReviseForAnswers, OpenedForAnswers
<1>9. CASE Revise BY <1>9 DEF Revise, AnswersRevision, FindingsRevision
<1>10. CASE HoldPasses BY <1>10 DEF HoldPasses
<1>11. CASE HoldStops BY <1>11 DEF HoldStops
<1>12. CASE AcceptByPerson BY <1>12 DEF AcceptByPerson, Approved, Accepts
<1>13. CASE ReviseCarried BY <1>13 DEF ReviseCarried, Opened, Accepts
<1>14. CASE OutOfQuestionRounds BY <1>14 DEF OutOfQuestionRounds, Open
<1>15. CASE AskQuestions BY <1>15 DEF AskQuestions, Open, NextRound
<1>16. CASE AnswererIsOff BY <1>16 DEF AnswererIsOff
<1>17. CASE \E usable, refused \in SUBSET Questions : AnswererReplies(usable, refused)
    BY <1>17 DEF AnswererReplies, Marked
<1>18. CASE RefusedBlocking BY <1>18 DEF RefusedBlocking, Handed
<1>19. CASE NothingRefused BY <1>19 DEF NothingRefused, Handed
<1>20. CASE KeepAdvisory BY <1>20 DEF KeepAdvisory, AdvisoryOnly
<1>21. CASE ReviseForAnswerer BY <1>21 DEF ReviseForAnswerer, AdvisoryOnly
<1>22. CASE NoUsableAnswer BY <1>22 DEF NoUsableAnswer
<1>23. CASE StartCritique BY <1>23 DEF StartCritique, Open
<1>24. CASE Critique BY <1>24 DEF Critique, Recorded, NoFindings
<1>25. CASE Approve BY <1>25 DEF Approve, Approved
<1>26. CASE StopsBeforeGuard BY <1>26 DEF StopsBeforeGuard
<1>27. CASE Stall BY <1>27 DEF Stall, WithRecord
<1>28. CASE StallEscalates BY <1>28 DEF StallEscalates
<1>29. CASE ReviseAfterStall BY <1>29 DEF ReviseAfterStall, Opened
<1>30. CASE GuardStops BY <1>30 DEF GuardStops, WithRecord
<1>31. CASE GuardPasses BY <1>31 DEF GuardPasses, Opened, WithRecord
<1>32. CASE ClearPending BY <1>32 DEF ClearPending
<1>33. CASE AdvancePhase BY <1>33 DEF AdvancePhase
<1>34. CASE PlanApprovedPasses BY <1>34 DEF PlanApprovedPasses
<1>35. CASE PlanApprovedStops BY <1>35 DEF PlanApprovedStops
<1>36. CASE PlanOnlyEnds BY <1>36 DEF PlanOnlyEnds
<1>37. CASE TurnFails BY <1>37 DEF TurnFails
<1>38. CASE TurnEscalates BY <1>38 DEF TurnEscalates
<1>39. CASE Killed BY <1>39 DEF Killed
<1>40. CASE ResumePlain BY <1>40 DEF ResumePlain, CanRestart
<1>41. CASE \E p, given : ResumeWithEdits(p, given)
    BY <1>41 DEF ResumeWithEdits, CanRestart
<1>42. CASE UNCHANGED vars BY <1>42 DEF vars
<1>43. CASE PlanOnlyExits BY <1>43 DEF PlanOnlyExits
<1>44. CASE ContinueIntoImplementation BY <1>44 DEF ContinueIntoImplementation
<1> QED BY <1>1, <1>2, <1>3, <1>4, <1>5, <1>6, <1>7, <1>8, <1>9, <1>10, <1>11, <1>12, <1>13,
         <1>14, <1>15, <1>16, <1>17, <1>18, <1>19, <1>20, <1>21, <1>22, <1>23, <1>24, <1>25,
         <1>26, <1>27, <1>28, <1>29, <1>30, <1>31, <1>32, <1>33, <1>34, <1>35, <1>36, <1>37,
         <1>38, <1>39, <1>40, <1>41, <1>42, <1>43, <1>44 DEF Next, Step, Restart

\* A step that begins no round goes on towards the end.
GoesOn ==
    /\ run'.planRound = run.planRound /\ run'.questionRound = run.questionRound
    /\ run'.cfg = run.cfg
    /\ Carries' => Carries
    /\ Position' < Position

\* The steps that begin one.
Begins == ReviseCarried \/ AskQuestions \/ ReviseAfterStall \/ GuardPasses

LEMMA StepGoesOn ==
    ASSUME TypeOK, Locals, AsksOweNothing, Next, pc # "off", ~Begins
    PROVE  GoesOn
<1> USE DEF GoesOn, Carries, Position, Owed, Throw, TurnPcs, NoJob, AsksOweNothing
<1>1. run \in RunRecord /\ job \in Job /\ pc \in Pcs
    BY DEF TypeOK
<1> USE DEF RunRecord, Job, Pcs
<1>2. CASE WriteNeedsInput BY <1>1, <1>2 DEF WriteNeedsInput
<1>3. CASE TakeAnswers BY <1>1, <1>3 DEF TakeAnswers
<1>4. CASE RetireFile BY <1>1, <1>4 DEF RetireFile
<1>5. CASE StartDraft BY <1>1, <1>5 DEF StartDraft
<1>6. CASE Draft BY <1>1, <1>6 DEF Draft
<1>7. CASE HasPlan BY <1>1, <1>7 DEF HasPlan
<1>8. CASE NoAnswersDue BY <1>1, <1>8 DEF NoAnswersDue
<1>9. CASE ReviseForAnswers BY <1>1, <1>9 DEF ReviseForAnswers, OpenedForAnswers
<1>10. CASE Revise BY <1>1, <1>10 DEF Revise, AnswersRevision, FindingsRevision
<1>11. CASE HoldPasses BY <1>1, <1>11 DEF HoldPasses
<1>12. CASE HoldStops BY <1>1, <1>12 DEF HoldStops
<1>13. CASE AcceptByPerson BY <1>1, <1>13 DEF AcceptByPerson, Approved
<1>14. CASE OutOfQuestionRounds BY <1>1, <1>14 DEF OutOfQuestionRounds
<1>15. CASE AnswererIsOff BY <1>1, <1>15 DEF AnswererIsOff
<1>16. CASE \E usable, refused \in SUBSET Questions : AnswererReplies(usable, refused)
    BY <1>1, <1>16 DEF AnswererReplies, Marked
<1>17. CASE RefusedBlocking BY <1>1, <1>17 DEF RefusedBlocking
<1>18. CASE NothingRefused BY <1>1, <1>18 DEF NothingRefused
<1>19. CASE KeepAdvisory BY <1>1, <1>19 DEF KeepAdvisory
<1>20. CASE ReviseForAnswerer BY <1>1, <1>20 DEF ReviseForAnswerer
<1>21. CASE NoUsableAnswer BY <1>1, <1>21 DEF NoUsableAnswer
<1>22. CASE StartCritique BY <1>1, <1>22 DEF StartCritique
<1>23. CASE Critique BY <1>1, <1>23 DEF Critique, Recorded
<1>24. CASE Approve BY <1>1, <1>24 DEF Approve, Approved
<1>25. CASE StopsBeforeGuard BY <1>1, <1>25 DEF StopsBeforeGuard
<1>26. CASE Stall BY <1>1, <1>26 DEF Stall, WithRecord
<1>27. CASE StallEscalates BY <1>1, <1>27 DEF StallEscalates
<1>28. CASE GuardStops BY <1>1, <1>28 DEF GuardStops, WithRecord
<1>29. CASE ClearPending BY <1>1, <1>29 DEF ClearPending
<1>30. CASE AdvancePhase BY <1>1, <1>30 DEF AdvancePhase
<1>31. CASE PlanApprovedPasses BY <1>1, <1>31 DEF PlanApprovedPasses
<1>32. CASE PlanApprovedStops BY <1>1, <1>32 DEF PlanApprovedStops
<1>33. CASE PlanOnlyEnds BY <1>1, <1>33 DEF PlanOnlyEnds
<1>34. CASE TurnFails \/ TurnEscalates BY <1>1, <1>34 DEF TurnFails, TurnEscalates
<1>35. CASE Killed BY <1>1, <1>35 DEF Killed
<1>36. CASE Restart \/ ContinueIntoImplementation
    BY <1>36 DEF Restart, ResumePlain, ResumeWithEdits, CanRestart, ContinueIntoImplementation
<1>37. CASE PlanOnlyExits BY <1>1, <1>37 DEF PlanOnlyExits
<1> QED BY <1>2, <1>3, <1>4, <1>5, <1>6, <1>7, <1>8, <1>9, <1>10, <1>11, <1>12, <1>13, <1>14,
        <1>15, <1>16, <1>17, <1>18, <1>19, <1>20, <1>21, <1>22, <1>23, <1>24, <1>25, <1>26,
        <1>27, <1>28, <1>29, <1>30, <1>31, <1>32, <1>33, <1>34, <1>35, <1>36, <1>37
        DEF Next, Step, Begins

\* What a round that begins takes from what is left.
LEMMA RoundBegins ==
    ASSUME TypeOK, Locals, AsksOweNothing, Begins
    PROVE  /\ run'.cfg = run.cfg
           /\ \/ /\ Carries /\ ~Carries' /\ run'.questionRound = run.questionRound
                 /\ run'.planRound = run.planRound + 1
              \/ /\ (Carries' => Carries) /\ run'.planRound = run.planRound
                 /\ run.questionRound < MaxQuestionRounds
                 /\ run'.questionRound = run.questionRound + 1
              \/ /\ (Carries' => Carries) /\ ~AtCap(run)
                 /\ run'.questionRound = run.questionRound
                 /\ run'.planRound = run.planRound + 1
<1> USE DEF Carries, NoJob
<1>1. run \in RunRecord /\ job \in Job
    BY DEF TypeOK
<1> USE DEF RunRecord
<1>2. CASE ReviseCarried
    BY <1>1, <1>2 DEF ReviseCarried, Opened
<1>3. CASE AskQuestions
    BY <1>1, <1>3 DEF AskQuestions, NextRound
<1>4. CASE ReviseAfterStall
    BY <1>1, <1>4 DEF ReviseAfterStall, Opened
<1>5. CASE GuardPasses
    BY <1>1, <1>5 DEF GuardPasses, Opened, WithRecord
<1> QED BY <1>2, <1>3, <1>4, <1>5 DEF Begins

\* What is left is a number: it cannot fall for ever.
LEMMA LeftIsNatural ==
    ASSUME TypeOK
    PROVE  /\ PlanRoundsLeft \in Nat /\ QuestionRoundsLeft \in Nat /\ RoundsLeft \in Nat
           /\ Position \in 0..15 /\ StepsLeft \in Nat
<1>1. /\ run.planRound \in Nat /\ run.questionRound \in Nat /\ MaxQuestionRounds \in Nat
      /\ run.cfg.maxPlanRounds \in Nat
    BY CapAssumption, SettingsAssumption DEF TypeOK, RunRecord
<1>2. PlanRoundsLeft \in Nat
    BY <1>1 DEF PlanRoundsLeft, AtCap
<1>3. QuestionRoundsLeft \in Nat
    BY <1>1 DEF QuestionRoundsLeft
<1>4. RoundsLeft \in Nat
    BY <1>2, <1>3 DEF RoundsLeft
<1>5. Position \in 0..15
    BY DEF TypeOK, Pcs, Position
<1> QED BY <1>2, <1>3, <1>4, <1>5 DEF StepsLeft

\* A round that begins is one less left; a step that begins none leaves no more.
LEMMA RoundsAreSpent ==
    ASSUME TypeOK, Locals, AsksOweNothing, Next, pc # "off", TypeOK'
    PROVE  IF Begins THEN RoundsLeft' <= RoundsLeft - 1
                     ELSE RoundsLeft' <= RoundsLeft /\ Position' < Position
<1>1. /\ run.planRound \in Nat /\ run.questionRound \in Nat /\ MaxQuestionRounds \in Nat
      /\ run.cfg.maxPlanRounds \in Nat
    BY CapAssumption, SettingsAssumption DEF TypeOK, RunRecord
<1> USE DEF RoundsLeft, PlanRoundsLeft, QuestionRoundsLeft, AtCap
<1>2. CASE ~Begins
    <2>1. GoesOn
        BY <1>2, StepGoesOn
    <2> QED BY <1>1, <1>2, <2>1 DEF GoesOn
<1>3. CASE Begins
    <2> HIDE DEF RoundsLeft, PlanRoundsLeft, QuestionRoundsLeft, AtCap
    <2>1. run'.cfg = run.cfg
        BY <1>3, RoundBegins
    <2>2. CASE /\ Carries /\ ~Carries' /\ run'.questionRound = run.questionRound
               /\ run'.planRound = run.planRound + 1
        BY <1>1, <1>3, <2>1, <2>2 DEF RoundsLeft, PlanRoundsLeft, QuestionRoundsLeft, AtCap
    <2>3. CASE /\ (Carries' => Carries) /\ run'.planRound = run.planRound
               /\ run.questionRound < MaxQuestionRounds
               /\ run'.questionRound = run.questionRound + 1
        BY <1>1, <1>3, <2>1, <2>3 DEF RoundsLeft, PlanRoundsLeft, QuestionRoundsLeft, AtCap
    <2>4. CASE /\ (Carries' => Carries) /\ ~AtCap(run)
               /\ run'.questionRound = run.questionRound
               /\ run'.planRound = run.planRound + 1
        BY <1>1, <1>3, <2>1, <2>4 DEF RoundsLeft, PlanRoundsLeft, QuestionRoundsLeft, AtCap
    <2> QED BY <1>3, <2>2, <2>3, <2>4, RoundBegins
<1> QED BY <1>2, <1>3

\* The count is a natural number that every step of a live process lowers, so
\* between two resumes the loop ends or stands still: the part of PlanningEnds
\* that is not fairness, for every configuration and any number of restarts.
THEOREM RoundsRunOut == Spec => [](StepsLeft \in Nat) /\ EveryStepSpends
<1> DEFINE Left == RoundsLeft \in Nat /\ Position \in 0..15 /\ StepsLeft \in Nat
<1>1. IInv => Left
    BY LeftIsNatural DEF IInv
<1>2. Init => AsksOweNothing
    BY DEF Init, AsksOweNothing
<1>3. IInv /\ AsksOweNothing /\ [Next]_vars => AsksOweNothing'
    BY StepOwes DEF IInv
<1>4. /\ IInv /\ AsksOweNothing /\ Left
      /\ IInv' /\ Left' /\ [Next]_vars
      => [pc # "off" => StepsLeft' < StepsLeft]_vars
    <2> SUFFICES ASSUME IInv, AsksOweNothing, Left, IInv', Left', Next, pc # "off"
                 PROVE  StepsLeft' < StepsLeft
        OBVIOUS
    <2>1. RoundsLeft' <= RoundsLeft - 1 \/ (RoundsLeft' <= RoundsLeft /\ Position' < Position)
        BY RoundsAreSpent DEF IInv
    <2>2. StepsLeft = 16 * RoundsLeft + Position /\ StepsLeft' = 16 * RoundsLeft' + Position'
        BY DEF StepsLeft
    <2>3. \A r, s \in Nat, p, q \in 0..15 :
              s <= r - 1 \/ (s <= r /\ q < p) => 16 * s + q < 16 * r + p
        OBVIOUS
    <2>4. RoundsLeft \in Nat /\ RoundsLeft' \in Nat /\ Position \in 0..15 /\ Position' \in 0..15
        OBVIOUS
    <2> QED BY <2>1, <2>2, <2>3, <2>4, Zenon
<1>5. Left => StepsLeft \in Nat
    OBVIOUS
<1> HIDE DEF Left
<1> QED BY <1>1, <1>2, <1>3, <1>4, <1>5, Invariant, PTL DEF EveryStepSpends, Spec

=============================================================================

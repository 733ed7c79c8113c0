--------------------------- MODULE TurnCharge_proofs ---------------------------
(***************************************************************************)
(* Proofs about TurnCharge, for every set of turns, ceiling and bound: the *)
(* types; that no turn starts over the ceiling except where the code       *)
(* defers it; that no token is charged twice; and that no save makes       *)
(* state.json account for less.  Two invariants are inductive: Brake says  *)
(* of a process that goes on that over the ceiling it is either ending or  *)
(* was left there on purpose, and Books that what is charged and what may  *)
(* still be charged never exceed what the attempts have spent.             *)
(***************************************************************************)
EXTENDS TurnCharge, FiniteSetTheorems, TLAPS

\* A process that goes on over the ceiling was left there on purpose; what it
\* starts from is the file; and a rotation's turn is the rotation's.
Brake ==
  /\ pc # "off" /\ ~ending /\ Over(mem) => deferred
  /\ pc = "off" => mem = disk
  /\ pc \in {"off", "recover", "preflight"} => ~ending
  /\ turn[Compact].at # "idle" => rotation \in {"alone", "beside"}
  /\ turn[Compact].at # "waiting"

IInv == TypeOK /\ Brake

\* What the ledger's operations return, and what they do to the total.
LEMMA LedgerTypes ==
  ASSUME NEW m \in Ledgers, NEW l \in Labels, NEW n \in Nat,
         NEW t \in [Labels -> Attempt], NEW ls \in SUBSET Labels
  PROVE  /\ Merged(m, t, ls) \in Ledgers /\ Merged(m, t, ls).used = m.used
         /\ TakeInFlight(m, l) \in Ledgers /\ TakeInFlight(m, l).used = m.used
         /\ Charged(m, l, n) \in Ledgers /\ Charged(m, l, n).used = m.used + n
         /\ [m EXCEPT !.used = @ + n] \in Ledgers
         /\ [m EXCEPT !.list = [k \in Labels |-> Absent]] \in Ledgers
<1> USE ChargeAssumption DEF Ledgers, Absent
<1>1. [k \in Labels |-> IF k \in ls THEN t[k].seen ELSE m.list[k]]
        \in [Labels -> {Absent} \cup (0..MaxSpend)]
  BY DEF Attempt
<1>2. Merged(m, t, ls) \in Ledgers /\ Merged(m, t, ls).used = m.used
  BY <1>1 DEF Merged
<1>3. TakeInFlight(m, l) \in Ledgers /\ TakeInFlight(m, l).used = m.used
  BY DEF TakeInFlight
<1>4. Charged(m, l, n) \in Ledgers /\ Charged(m, l, n).used = m.used + n
  <2>1. (IF m.list[l] > n THEN m.list[l] - n ELSE 0) \in Nat
    OBVIOUS
  <2> QED BY <1>3, <2>1 DEF Charged
<1> QED BY <1>2, <1>3, <1>4

\* The attempt a label starts, or waits for, with.
LEMMA NewAttempt ==
  ASSUME NEW s \in {"idle", "live", "waiting"} \cup Ends, NEW c \in BOOLEAN
  PROVE  /\ NoTurn \in Attempt
         /\ [NoTurn EXCEPT !.at = s, !.cut = c] \in Attempt
         /\ [NoTurn EXCEPT !.at = s, !.cut = c].at = s
<1> USE ChargeAssumption DEF Attempt
<1>1. NoTurn \in Attempt
  BY DEF NoTurn, Ends
<1>2. [NoTurn EXCEPT !.at = s, !.cut = c] \in Attempt
  BY <1>1
<1>3. [NoTurn EXCEPT !.at = s, !.cut = c].at = s
  BY DEF NoTurn
<1> QED BY <1>1, <1>2, <1>3

\* What a charge costs is a number of tokens.
LEMMA CostTypes ==
  ASSUME TypeOK, NEW l \in Labels
  PROVE  /\ FailedCost(l) \in Nat
         /\ FailureCharged(l) \in Ledgers
         /\ Amount(mem, l) \in 0..MaxSpend
         /\ turn[l].told \in Nat
<1>1. mem \in Ledgers /\ turn[l] \in Attempt
  BY DEF TypeOK
<1>2. FailedCost(l) \in Nat /\ Amount(mem, l) \in 0..MaxSpend /\ turn[l].told \in Nat
  BY <1>1, ChargeAssumption DEF FailedCost, Amount, Ledgers, Attempt, Absent
<1>3. FailureCharged(l) \in Ledgers
  <2>1. TakeInFlight(mem, l) \in Ledgers
    BY <1>1, <1>2, LedgerTypes DEF TypeOK
  <2> QED BY <1>2, <2>1, LedgerTypes DEF FailureCharged, TypeOK
<1> QED BY <1>2, <1>3

\* A save, failed or not, puts a ledger in memory.
LEMMA SavesKeepTypes ==
  ASSUME mem \in Ledgers, disk \in Ledgers, faults \in Nat, NEW m \in Ledgers, Noted(m)
  PROVE  mem' \in Ledgers /\ disk' \in Ledgers /\ faults' \in Nat /\ mem' = m
BY DEF Noted, Saved, Unsaved

LEMMA InitIInv == Init => IInv
<1> SUFFICES ASSUME Init PROVE IInv
  OBVIOUS
<1> USE ChargeAssumption DEF Init
<1>1. mem \in Ledgers /\ disk \in Ledgers
  BY DEF Ledgers, Absent
<1>2. turn \in [Labels -> Attempt]
  <2>1. NoTurn \in Attempt
    BY DEF Attempt, NoTurn
  <2> QED BY <2>1
<1>3. Busy = {}
  BY DEF Busy, NoTurn
<1>4. TypeOK
  <2>1. ending \in BOOLEAN /\ cancel \in BOOLEAN /\ deferred \in BOOLEAN
    OBVIOUS
  <2>2. {attempts, resumes, faults, actual} \subseteq Nat
    OBVIOUS
  <2>3. pc \in {"off", "release", "recover", "preflight", "run"} /\ rotation = "none"
    OBVIOUS
  <2> HIDE DEF Init
  <2> QED BY <1>1, <1>2, <1>3, <2>1, <2>2, <2>3 DEF TypeOK
<1>5. Brake
  BY DEF Brake, Over, NoTurn, Labels
<1> QED BY <1>4, <1>5 DEF IInv

-----------------------------------------------------------------------------
(***************************************************************************)
(* Types, one action at a time.                                            *)
(***************************************************************************)

LEMMA StartTypes ==
  ASSUME TypeOK, MayStart, NEW l \in Labels, Start(l),
         rotation' \in {"none", "alone", "beside", "done", "held"},
         rotation' = "alone" => Busy' = {Compact}
  PROVE  TypeOK'
<1> USE DEF TypeOK
<1>1. turn[l] \in Attempt /\ turn[l].cut \in BOOLEAN
  BY DEF Attempt
<1>2. turn' \in [Labels -> Attempt]
  <2>1. [NoTurn EXCEPT !.at = "live", !.cut = turn[l].cut] \in Attempt
    BY <1>1, NewAttempt
  <2> QED BY <2>1 DEF Start
<1>3. Merged(mem, turn', Live \cup {l}) \in Ledgers
  BY <1>2, LedgerTypes, 0 \in Nat DEF Live
<1>4. mem' \in Ledgers /\ disk' \in Ledgers /\ faults' \in Nat
  BY <1>3, SavesKeepTypes DEF Start
<1>5. attempts' \in Nat
  BY DEF Start
<1> QED BY <1>2, <1>4, <1>5 DEF Start, MayStart

LEMMA BusyAfterStart ==
  ASSUME TypeOK, NEW l \in Labels, Start(l)
  PROVE  Busy' = Busy \cup {l}
BY DEF TypeOK, Start, Busy, NoTurn

LEMMA BeginTypes ==
  ASSUME TypeOK, NEW l \in Labels, (l \in Work /\ BeginWork(l)) \/ (l = Compact /\ BeginCompact)
  PROVE  TypeOK'
<1>1. CASE l \in Work /\ BeginWork(l)
  BY <1>1, StartTypes DEF BeginWork, TypeOK
<1>2. CASE l = Compact /\ BeginCompact
  <2>1. rotation' = "alone" => Busy' = {Compact}
    BY <1>2, BusyAfterStart DEF BeginCompact
  <2> QED BY <1>2, <2>1, StartTypes DEF BeginCompact
<1> QED BY <1>1, <1>2

\* A turn that is under way stays so.
LEMMA RunningTypes ==
  ASSUME TypeOK, NEW l \in Labels, Line(l) \/ ChildEnds(l)
  PROVE  TypeOK'
<1> USE ChargeAssumption DEF TypeOK
<1>1. turn[l] \in Attempt /\ turn[l].at = "live" /\ l \in Busy
  BY DEF Line, ChildEnds, Busy
<1>2. turn' \in [Labels -> Attempt] /\ Busy' = Busy /\ actual' \in Nat
  <2>1. CASE Line(l)
    <3>0. PICK s \in (turn[l].spent + 1)..MaxSpend :
            \E f \in {turn[l].seen} \cup (IF l \in Streaming THEN {s} ELSE {}) :
              /\ turn' = [turn EXCEPT ![l].spent = s, ![l].seen = f]
              /\ actual' = actual + (s - turn[l].spent)
      BY <2>1 DEF Line
    <3>1. PICK f \in {turn[l].seen} \cup (IF l \in Streaming THEN {s} ELSE {}) :
            /\ turn' = [turn EXCEPT ![l].spent = s, ![l].seen = f]
            /\ actual' = actual + (s - turn[l].spent)
      BY <3>0
    <3>2. s \in 0..MaxSpend /\ f \in 0..MaxSpend /\ s - turn[l].spent \in Nat
      BY <1>1, <3>1 DEF Attempt
    <3>3. [turn[l] EXCEPT !.spent = s, !.seen = f] \in Attempt
      BY <1>1, <3>2 DEF Attempt
    <3>4. turn' = [turn EXCEPT ![l] = [turn[l] EXCEPT !.spent = s, !.seen = f]]
      BY <1>1, <3>1
    <3> HIDE DEF TypeOK
    <3>5. turn' \in [Labels -> Attempt]
      BY <3>3, <3>4 DEF TypeOK
    <3>6. [turn[l] EXCEPT !.spent = s, !.seen = f].at = "live"
      BY <1>1 DEF Attempt
    <3>7. Busy' = Busy
      BY <1>1, <3>4, <3>6 DEF Busy, TypeOK
    <3> QED BY <3>1, <3>2, <3>5, <3>7 DEF TypeOK
  <2>2. CASE ChildEnds(l)
    <3>1. PICK how \in HowItMayEnd(l), told \in 0..turn[l].spent :
            turn' = [turn EXCEPT ![l].at = how, ![l].told = told]
      BY <2>2 DEF ChildEnds
    <3>2. how \in Ends /\ told \in 0..MaxSpend
      BY <1>1, <3>1 DEF Attempt, HowItMayEnd, Ends
    <3>3. [turn[l] EXCEPT !.at = how, !.told = told] \in Attempt
      BY <1>1, <3>2 DEF Attempt
    <3>4. turn' = [turn EXCEPT ![l] = [turn[l] EXCEPT !.at = how, !.told = told]]
      BY <1>1, <3>1
    <3>5. turn' \in [Labels -> Attempt]
      BY <3>3, <3>4
    <3>6. [turn[l] EXCEPT !.at = how, !.told = told].at # "idle"
      BY <1>1, <3>2 DEF Attempt, Ends
    <3>7. Busy' = Busy
      BY <1>1, <3>4, <3>6 DEF Busy
    <3> QED BY <2>2, <3>5, <3>7 DEF ChildEnds
  <2> QED BY <2>1, <2>2
<1>3. Merged(mem, turn', Live) \in Ledgers /\ Merged(mem, turn, Live) \in Ledgers
  BY <1>2, LedgerTypes, 0 \in Nat DEF Live
<1>4. Merged(mem, turn', Live) \in Ledgers /\ Noted(Merged(mem, turn', Live))
        => mem' \in Ledgers /\ disk' \in Ledgers /\ faults' \in Nat
  BY SavesKeepTypes
<1>5. Merged(mem, turn, Live) \in Ledgers /\ Noted(Merged(mem, turn, Live))
        => mem' \in Ledgers /\ disk' \in Ledgers /\ faults' \in Nat
  BY SavesKeepTypes
<1>6. mem' \in Ledgers /\ disk' \in Ledgers /\ faults' \in Nat
  BY <1>3, <1>4, <1>5 DEF Line, ChildEnds
<1> QED BY <1>2, <1>6 DEF Line, ChildEnds, bounds

\* A turn that is charged leaves its label idle, and never starts a rotation.
LEMMA EndedTypes ==
  ASSUME TypeOK, NEW l \in Labels, turn[l].at # "idle", Ended(l)
  PROVE  turn' \in [Labels -> Attempt] /\ Busy' = Busy \ {l} /\ pc = "run"
<1> USE DEF TypeOK
<1>1. NoTurn \in Attempt /\ NoTurn.at = "idle"
  BY ChargeAssumption DEF Attempt, NoTurn
<1>2. turn' = [turn EXCEPT ![l] = NoTurn]
  BY DEF Ended
<1>3. turn' \in [Labels -> Attempt]
  BY <1>1, <1>2
<1>4. Busy' = Busy \ {l}
  BY <1>1, <1>2 DEF Busy
<1>5. pc = "run"
  BY DEF Busy
<1> QED BY <1>3, <1>4, <1>5

LEMMA WorkIsChargedTypes ==
  ASSUME TypeOK, NEW l \in Work, ChargeOk(l) \/ ChargeAndThrow(l) \/ WaitCancelled(l)
  PROVE  TypeOK'
<1> USE DEF TypeOK
<1>1. l \in Labels /\ l # Compact
  BY ChargeAssumption DEF Labels
<1>2. turn[l].at # "idle" /\ Ended(l)
  BY DEF ChargeOk, ChargeAndThrow, WaitCancelled, Ends
<1>3. turn' \in [Labels -> Attempt] /\ Busy' = Busy \ {l} /\ pc = "run"
  BY <1>1, <1>2, EndedTypes
<1>4. rotation # "alone"
  BY <1>1, <1>2 DEF Busy
<1>5. Charged(mem, l, turn[l].told) \in Ledgers /\ FailureCharged(l) \in Ledgers
  <2>1. turn[l].told \in Nat /\ FailureCharged(l) \in Ledgers
    BY <1>1, CostTypes
  <2> QED BY <1>1, <2>1, LedgerTypes
<1>6. mem' \in Ledgers /\ disk' \in Ledgers /\ faults' \in Nat
  BY <1>5 DEF ChargeOk, ChargeAndThrow, WaitCancelled, Noted, Saved, Unsaved
<1>7. ending' \in BOOLEAN
  BY DEF ChargeOk, ChargeAndThrow, WaitCancelled
<1> QED BY <1>3, <1>4, <1>6, <1>7 DEF ChargeOk, ChargeAndThrow, WaitCancelled, Kept, bounds

LEMMA RetryTypes ==
  ASSUME TypeOK, NEW l \in Work, ChargeAndRetry(l)
  PROVE  TypeOK'
<1> USE DEF TypeOK
<1>1. l \in Labels /\ turn[l] \in Attempt /\ turn[l].at \in {"limited", "cutoff"}
  BY DEF Labels, ChargeAndRetry, Retries
<1> DEFINE c == turn[l].cut \/ turn[l].at = "cutoff"
<1>2. c \in BOOLEAN
  OBVIOUS
<1>3. turn' = [turn EXCEPT ![l] = [NoTurn EXCEPT !.at = "waiting", !.cut = c]]
  BY DEF ChargeAndRetry
<1> HIDE DEF c
<1>4. /\ [NoTurn EXCEPT !.at = "waiting", !.cut = c] \in Attempt
      /\ [NoTurn EXCEPT !.at = "waiting", !.cut = c].at = "waiting"
  BY <1>2, NewAttempt
<1>5. turn' \in [Labels -> Attempt] /\ Busy' = Busy
  BY <1>1, <1>3, <1>4 DEF Busy
<1>6. FailureCharged(l) \in Ledgers
  BY <1>1, CostTypes
<1>7. mem' \in Ledgers /\ disk' \in Ledgers /\ faults' \in Nat
  BY <1>6, SavesKeepTypes DEF ChargeAndRetry
<1> QED BY <1>5, <1>7 DEF ChargeAndRetry, Kept, bounds

LEMMA RotationTypes ==
  ASSUME TypeOK, CompactOk \/ CompactFailed
  PROVE  TypeOK'
<1> USE DEF TypeOK
<1>1. Compact \in Labels
  BY DEF Labels
<1>2. turn[Compact].at # "idle" /\ \E what : Raises(what)
  BY DEF CompactOk, CompactFailed
<1>3. turn' \in [Labels -> Attempt] /\ Busy' = Busy \ {Compact} /\ pc = "run"
  BY <1>1, <1>2, EndedTypes DEF Raises
<1>4. Charged(mem, Compact, turn[Compact].told) \in Ledgers /\ FailureCharged(Compact) \in Ledgers
  <2>1. turn[Compact].told \in Nat /\ FailureCharged(Compact) \in Ledgers
    BY <1>1, CostTypes
  <2> QED BY <1>1, <2>1, LedgerTypes
<1>5. mem' \in Ledgers /\ disk' \in Ledgers /\ faults' \in Nat
  BY <1>4 DEF CompactOk, CompactFailed, Noted, Saved, Unsaved
<1>6. /\ rotation' \in {"none", "held", "done"}
      /\ ending' \in BOOLEAN /\ deferred' \in BOOLEAN
  BY <1>2 DEF Raises
<1>7. UNCHANGED <<pc, cancel, attempts, resumes, actual>>
  BY <1>2 DEF Raises, Kept, bounds
<1> QED BY <1>3, <1>5, <1>6, <1>7

\* The process's own steps, and the two that touch no turn.
LEMMA ProcessTypes ==
  ASSUME TypeOK,
         \/ Beat \/ PhaseEnds \/ AnotherSave \/ Exit \/ Killed \/ ReleaseForced
         \/ Recovered \/ Preflight \/ UNCHANGED vars
         \/ \E forced \in BOOLEAN : Resume(forced)
         \/ \E l \in Labels : Recover(l)
  PROVE  TypeOK'
<1> USE DEF TypeOK
<1>1. CASE Beat
  <2>1. Merged(mem, turn, Live) \in Ledgers
    BY LedgerTypes, 0 \in Nat, Compact \in Labels DEF Live, Labels
  <2>2. mem' \in Ledgers /\ disk' \in Ledgers /\ faults' \in Nat
    BY <1>1, <2>1, SavesKeepTypes DEF Beat
  <2>3. cancel' \in BOOLEAN
    BY <1>1 DEF Beat
  <2> QED BY <1>1, <2>2, <2>3 DEF Beat, Busy, bounds
<1>2. CASE PhaseEnds
  BY <1>2 DEF PhaseEnds, Busy, bounds
<1>3. CASE AnotherSave
  BY <1>3 DEF AnotherSave, Saved, Busy, bounds
<1>4. CASE Exit \/ Killed
  <2>1. NoTurn \in Attempt /\ NoTurn.at = "idle"
    BY ChargeAssumption DEF Attempt, NoTurn
  <2>2. ProcessOver /\ disk' \in Ledgers /\ faults' \in Nat
    BY <1>4 DEF Exit, Killed
  <2>3. turn' \in [Labels -> Attempt] /\ Busy' = {}
    BY <2>1, <2>2 DEF ProcessOver, Busy
  <2>4. UNCHANGED <<attempts, resumes, actual>>
    BY <1>4 DEF Exit, Killed, bounds
  <2>5. ending' \in BOOLEAN /\ cancel' \in BOOLEAN /\ deferred' \in BOOLEAN
    BY <2>2 DEF ProcessOver
  <2>6. mem' \in Ledgers /\ pc' = "off" /\ rotation' = "none"
    BY <2>2 DEF ProcessOver
  <2> QED BY <2>2, <2>3, <2>4, <2>5, <2>6
<1>5. CASE ReleaseForced
  <2>1. [mem EXCEPT !.list = [l \in Labels |-> Absent]] \in Ledgers
    BY LedgerTypes, 0 \in Nat, Compact \in Labels, {} \in SUBSET Labels DEF Labels
  <2>2. mem' \in Ledgers /\ disk' \in Ledgers /\ faults' \in Nat
    BY <1>5, <2>1 DEF ReleaseForced, Saved, Unsaved
  <2>3. ending' \in BOOLEAN /\ pc' \in {"release", "preflight"} /\ pc = "release"
    BY <1>5 DEF ReleaseForced
  <2>4. UNCHANGED <<turn, rotation, cancel, attempts, resumes, actual, deferred>>
    BY <1>5 DEF ReleaseForced, bounds
  <2> QED BY <2>2, <2>3, <2>4 DEF Busy
<1>6. CASE Recovered
  BY <1>6 DEF Recovered, Busy, bounds
<1>7. CASE Preflight
  <2>1. PICK n \in 0..1 :
          /\ mem' = [mem EXCEPT !.used = @ + n] /\ disk' \in {disk, mem'}
          /\ faults' \in {faults, faults + 1} /\ actual' = actual + n
    BY <1>7 DEF Preflight, Saved, Unsaved
  <2>2. mem' \in Ledgers
    BY <2>1 DEF Ledgers
  <2>3. actual' \in Nat /\ faults' \in Nat /\ disk' \in Ledgers
    BY <2>1, <2>2
  <2>4. ending' \in BOOLEAN
    BY <1>7 DEF Preflight
  <2> QED BY <1>7, <2>2, <2>3, <2>4 DEF Preflight, Busy, bounds
<1>8. CASE UNCHANGED vars
  BY <1>8 DEF vars, Busy
<1>9. ASSUME NEW forced \in BOOLEAN, Resume(forced) PROVE TypeOK'
  <2>1. deferred' \in BOOLEAN
    BY <1>9, ChargeAssumption DEF Resume, Over
  <2> QED BY <1>9, <2>1 DEF Resume, Busy
<1>10. ASSUME NEW l \in Labels, Recover(l) PROVE TypeOK'
  <2>1. Charged(mem, l, Amount(mem, l)) \in Ledgers
    <3>1. Amount(mem, l) \in Nat
      BY CostTypes, ChargeAssumption
    <3> QED BY <3>1, LedgerTypes, {} \in SUBSET Labels
  <2>2. mem' \in Ledgers /\ disk' \in Ledgers /\ faults' \in Nat
    BY <1>10, <2>1 DEF Recover, Saved, Unsaved
  <2>3. ending' \in BOOLEAN /\ pc' \in {"run", "recover"}
    BY <1>10 DEF Recover
  <2> QED BY <1>10, <2>2, <2>3 DEF Recover, Busy, bounds
<1> QED BY <1>1, <1>2, <1>3, <1>4, <1>5, <1>6, <1>7, <1>8, <1>9, <1>10

LEMMA StepTypeOK == TypeOK /\ [Next]_vars => TypeOK'
<1>1. \A l \in Work : l \in Labels
  BY DEF Labels
<1> QED BY <1>1, BeginTypes, RunningTypes, WorkIsChargedTypes, RetryTypes, RotationTypes,
        ProcessTypes DEF Next, Labels

\* The types of every variable.
THEOREM TypeCorrect == Spec => []TypeOK
<1>1. Init => TypeOK
  BY InitIInv DEF IInv
<1> QED BY <1>1, StepTypeOK, PTL DEF Spec

-----------------------------------------------------------------------------
(***************************************************************************)
(* The brake, one action at a time.                                        *)
(***************************************************************************)

LEMMA BeginKeepsBrake ==
  ASSUME IInv, NEW l \in Labels, (l \in Work /\ BeginWork(l)) \/ (l = Compact /\ BeginCompact)
  PROVE  Brake'
<1> USE DEF IInv, TypeOK
<1>1. Start(l) /\ pc = "run" /\ ~ending
  BY DEF BeginWork, BeginCompact, MayStart
<1>2. mem'.used = mem.used
  <2>1. mem' = Merged(mem, turn', Live \cup {l})
    BY <1>1, SavesKeepTypes DEF Start, Noted, Saved, Unsaved
  <2> QED BY <2>1 DEF Merged, Ledgers
<1>3. turn'[Compact] # turn[Compact] => l = Compact
  BY <1>1 DEF Start
<1>4. l = Compact => turn'[Compact].at = "live" /\ rotation' \in {"alone", "beside"}
  BY <1>1, ChargeAssumption DEF Start, NoTurn, BeginWork, BeginCompact, Labels
<1>5. l # Compact => UNCHANGED rotation
  BY DEF BeginWork, BeginCompact
<1>6. UNCHANGED <<pc, ending, deferred>>
  BY <1>1 DEF Start
<1> QED BY <1>1, <1>2, <1>3, <1>4, <1>5, <1>6 DEF Brake, Over

LEMMA RunningKeepsBrake ==
  ASSUME IInv, NEW l \in Labels, Line(l) \/ ChildEnds(l)
  PROVE  Brake'
<1> USE DEF IInv, TypeOK
<1>1. pc = "run" /\ turn[l].at = "live"
  BY DEF Line, ChildEnds, Busy
<1>2. mem'.used = mem.used
  BY DEF Line, ChildEnds, Noted, Saved, Unsaved, Merged, Ledgers
<1>3. turn'[Compact].at # turn[Compact].at =>
        turn[Compact].at = "live" /\ turn'[Compact].at \in Ends
  <2>1. CASE Line(l)
    <3>1. PICK s, f : turn' = [turn EXCEPT ![l].spent = s, ![l].seen = f]
      BY <2>1 DEF Line
    <3>2. turn'[Compact].at = turn[Compact].at
      BY <3>1 DEF Attempt, Labels
    <3> QED BY <3>2
  <2>2. CASE ChildEnds(l)
    <3>1. PICK how \in HowItMayEnd(l) :
            /\ turn[l].at = "live"
            /\ \E told : turn' = [turn EXCEPT ![l].at = how, ![l].told = told]
      BY <2>2 DEF ChildEnds
    <3>2. PICK told : turn' = [turn EXCEPT ![l].at = how, ![l].told = told]
      BY <3>1
    <3>3. turn'[Compact].at = IF l = Compact THEN how ELSE turn[Compact].at
      BY <3>2 DEF Attempt, Labels
    <3> QED BY <3>1, <3>3 DEF HowItMayEnd, Ends
  <2> QED BY <2>1, <2>2
<1>4. UNCHANGED <<pc, rotation, ending, deferred>>
  BY DEF Line, ChildEnds
<1> QED BY <1>1, <1>2, <1>3, <1>4 DEF Brake, Over, Ends

LEMMA ChargesKeepBrake ==
  ASSUME IInv, NEW l \in Work,
         ChargeOk(l) \/ ChargeAndThrow(l) \/ ChargeAndRetry(l) \/ WaitCancelled(l)
  PROVE  Brake'
<1> USE DEF IInv, TypeOK
<1>1. l \in Labels /\ l # Compact /\ turn[l].at # "idle"
  BY ChargeAssumption
     DEF Labels, ChargeOk, ChargeAndThrow, ChargeAndRetry, Retries, WaitCancelled, Ends
<1>2. pc = "run" /\ UNCHANGED <<pc, rotation, deferred>>
  BY <1>1 DEF Busy, ChargeOk, ChargeAndThrow, ChargeAndRetry, WaitCancelled, Kept
<1>3. turn'[Compact] = turn[Compact]
  <2>1. PICK a : turn' = [turn EXCEPT ![l] = a]
    BY DEF ChargeOk, ChargeAndThrow, ChargeAndRetry, WaitCancelled, Ended
  <2> QED BY <1>1, <2>1 DEF Labels
<1>4. ~ending' => ~ending /\ (~Over(mem)' \/ mem' = mem)
  BY DEF ChargeOk, ChargeAndThrow, ChargeAndRetry, Retries, WaitCancelled,
         Noted, Saved, Unsaved, Over
<1> QED BY <1>2, <1>3, <1>4 DEF Brake, Over

LEMMA RotationKeepsBrake ==
  ASSUME IInv, CompactOk \/ CompactFailed
  PROVE  Brake'
<1> USE DEF IInv, TypeOK
<1>1. turn[Compact].at \notin {"idle", "waiting"} /\ rotation \in {"alone", "beside"}
  BY DEF CompactOk, CompactFailed, Brake
<1>2. PICK what \in {"ceiling", "error", "nothing"} :
        Raises(what) /\ (what = "nothing" => ~Over(mem'))
  BY DEF CompactOk, CompactFailed, CeilingOf, Noted, Saved, Unsaved
<1>3. turn'[Compact].at = "idle"
  BY <1>2 DEF Raises, Ended, NoTurn, Labels
<1>4. ~ending' /\ Over(mem') => deferred'
  BY <1>1, <1>2 DEF Raises
<1>5. pc = "run" /\ pc' = pc
  BY <1>1, <1>2 DEF Busy, Raises, Kept, Labels
<1> QED BY <1>3, <1>4, <1>5 DEF Brake, Over

LEMMA ProcessKeepsBrake ==
  ASSUME IInv,
         \/ Beat \/ PhaseEnds \/ AnotherSave \/ Exit \/ Killed \/ ReleaseForced
         \/ Recovered \/ Preflight \/ UNCHANGED vars
         \/ \E forced \in BOOLEAN : Resume(forced)
         \/ \E l \in Labels : Recover(l)
  PROVE  Brake'
<1> USE DEF IInv, TypeOK
<1>1. CASE Beat
  <2>1. mem'.used = mem.used /\ pc = "run"
    BY <1>1 DEF Beat, Noted, Saved, Unsaved, Merged, Ledgers, Live, Busy
  <2> QED BY <1>1, <2>1 DEF Beat, Brake, Over
<1>2. CASE PhaseEnds
  BY <1>2 DEF PhaseEnds, Brake, Over, Busy, Labels
<1>3. CASE AnotherSave
  BY <1>3 DEF AnotherSave, Saved, Brake, Over
<1>4. CASE Exit \/ Killed
  BY <1>4 DEF Exit, Killed, ProcessOver, Brake, Over, NoTurn, Labels
<1>5. CASE ReleaseForced
  <2>1. mem'.used = mem.used
    BY <1>5 DEF ReleaseForced, Saved, Unsaved, Ledgers
  <2> QED BY <1>5, <2>1 DEF ReleaseForced, Brake, Over
<1>6. CASE Recovered
  BY <1>6 DEF Recovered, Brake, Over
<1>7. CASE Preflight
  <2>1. PICK n \in 0..1 :
          /\ mem' = [mem EXCEPT !.used = @ + n]
          /\ ~ending' => ~(n > 0 /\ Over(mem'))
    BY <1>7 DEF Preflight, Saved, Unsaved
  <2>2. ~ending' => ~Over(mem') \/ mem'.used = mem.used
    <3>1. n = 0 => mem'.used = mem.used
      BY <2>1 DEF Ledgers
    <3> QED BY <2>1, <3>1
  <2>3. ~ending
    BY <1>7 DEF Preflight, Brake
  <2> QED BY <1>7, <2>2, <2>3 DEF Preflight, Brake, Over
<1>8. CASE UNCHANGED vars
  BY <1>8 DEF vars, Brake, Over
<1>9. ASSUME NEW forced \in BOOLEAN, Resume(forced) PROVE Brake'
  BY <1>9 DEF Resume, Brake, Over
<1>10. ASSUME NEW l \in Labels, Recover(l) PROVE Brake'
  <2>1. Amount(mem, l) \in Nat
    BY CostTypes, ChargeAssumption
  <2>2. Charged(mem, l, Amount(mem, l)).used = mem.used + Amount(mem, l)
    BY <2>1, LedgerTypes, {} \in SUBSET Labels
  <2>3. mem' = Charged(mem, l, Amount(mem, l))
    BY <1>10 DEF Recover, Saved, Unsaved
  <2>4. ~ending' => ~Over(mem') \/ mem'.used = mem.used
    <3>1. Amount(mem, l) = 0 => mem'.used = mem.used
      BY <2>2, <2>3 DEF Ledgers
    <3>2. ~ending' => ~(Over(mem') /\ Amount(mem, l) > 0)
      BY <1>10, <2>3 DEF Recover
    <3> QED BY <2>1, <3>1, <3>2
  <2>5. pc = "recover" /\ ~ending /\ UNCHANGED <<turn, rotation, deferred>>
    BY <1>10 DEF Recover, Brake
  <2>6. pc' = IF ending' THEN "run" ELSE "recover"
    BY <1>10 DEF Recover
  <2> QED BY <2>4, <2>5, <2>6 DEF Brake, Over
<1> QED BY <1>1, <1>2, <1>3, <1>4, <1>5, <1>6, <1>7, <1>8, <1>9, <1>10

LEMMA StepIInv == IInv /\ [Next]_vars => IInv'
<1>1. \A l \in Work : l \in Labels
  BY DEF Labels
<1>2. IInv /\ [Next]_vars => Brake'
  BY <1>1, BeginKeepsBrake, RunningKeepsBrake, ChargesKeepBrake, RotationKeepsBrake,
     ProcessKeepsBrake DEF Next, Labels
<1> QED BY <1>2, StepTypeOK DEF IInv

\* Only Start makes a turn live, and only in a process that goes on.
LEMMA OnlyStartsAreNew ==
  ASSUME IInv, [Next]_vars, NEW l \in Labels, turn[l].at # "live", turn'[l].at = "live"
  PROVE  MayStart
<1> USE DEF IInv, TypeOK
<1>1. ASSUME NEW k \in Work, BeginWork(k) PROVE MayStart
  BY <1>1 DEF BeginWork
<1>2. CASE BeginCompact
  BY <1>2 DEF BeginCompact
<1>3. ASSUME NEW k \in Work,
             ChargeOk(k) \/ ChargeAndThrow(k) \/ ChargeAndRetry(k) \/ WaitCancelled(k)
      PROVE  FALSE
  <2>1. PICK a : turn' = [turn EXCEPT ![k] = a] /\ a.at # "live"
    BY <1>3 DEF ChargeOk, ChargeAndThrow, ChargeAndRetry, WaitCancelled, Ended, NoTurn
  <2> QED BY <2>1
<1>4. ASSUME NEW k \in Labels, Line(k) \/ ChildEnds(k) PROVE FALSE
  BY <1>4 DEF Line, ChildEnds, HowItMayEnd, Attempt
<1>5. ASSUME CompactOk \/ CompactFailed PROVE FALSE
  BY <1>5 DEF CompactOk, CompactFailed, Raises, Ended, NoTurn
<1>6. ASSUME Exit \/ Killed PROVE FALSE
  BY <1>6 DEF Exit, Killed, ProcessOver, NoTurn
<1>7. ASSUME \/ Beat \/ PhaseEnds \/ AnotherSave \/ ReleaseForced \/ Recovered \/ Preflight
             \/ UNCHANGED vars
             \/ \E forced \in BOOLEAN : Resume(forced)
             \/ \E k \in Labels : Recover(k)
      PROVE  FALSE
  BY <1>7 DEF Beat, PhaseEnds, AnotherSave, ReleaseForced, Recovered, Preflight, Resume,
              Recover, vars
<1> QED BY <1>1, <1>2, <1>3, <1>4, <1>5, <1>6, <1>7 DEF Next

\* A turn is started over the ceiling only in a process that was left there.
THEOREM TheBrakeHolds == Spec => NoTurnOverTheCeiling
<1>1. IInv /\ [Next]_vars
        => [\A l \in Labels :
              turn[l].at # "live" /\ turn'[l].at = "live" /\ Over(mem) => deferred]_vars
  BY OnlyStartsAreNew DEF IInv, Brake, MayStart
<1> QED BY <1>1, InitIInv, StepIInv, PTL DEF Spec, NoTurnOverTheCeiling

-----------------------------------------------------------------------------
(***************************************************************************)
(* The books: what was charged and what is in flight against what the      *)
(* attempts really spent.                                                  *)
(***************************************************************************)

Lists == [Labels -> {Absent} \cup (0..MaxSpend)]

Count(list) == Cardinality(Tokens(list))

\* What is charged, or observed beyond the charge.
Known(m) == m.used + m.noted

\* What state.json accounts for, as memory has it and as the file does.
Accounts(m) == Known(m) + Count(m.list)

Running(l) == turn[l].at \notin {"idle", "waiting"}

\* What may still be charged for each label: all that its attempt has spent, or
\* what the list keeps of one that is over.
Claims == [l \in Labels |-> IF Running(l) THEN turn[l].spent ELSE mem.list[l]]

\* Figures lag behind what they are of, and a turn that streams none has none.
Figures ==
  \A l \in Labels : Running(l) =>
    /\ mem.list[l] <= turn[l].seen /\ turn[l].seen <= turn[l].spent
    /\ turn[l].told <= turn[l].spent
    /\ l \notin Streaming => turn[l].seen = 0

\* A process that goes on has nothing in the list for turns that are over.
Settled ==
  pc = "preflight" \/ (pc = "run" /\ ~ending) =>
    \A l \in Labels : ~Running(l) => mem.list[l] <= 0

\* Nothing is charged that was not spent, and the file never says more than
\* memory does, unless a forced release threw away what memory had.
Books ==
  /\ Figures /\ Settled
  /\ Known(mem) + Count(Claims) <= actual
  /\ Accounts(disk) <= actual
  /\ pc # "release" => Accounts(disk) <= Accounts(mem)

Pos(n) == IF n > 0 THEN n ELSE 0

\* The number of tokens a list has figures for is the sum of its figures: it
\* grows with them, and with a figure that is replaced by what that one grew.
LEMMA CountType ==
  ASSUME NEW f \in Lists
  PROVE  IsFiniteSet(Tokens(f)) /\ Count(f) \in Nat
<1>1. IsFiniteSet(Labels)
  BY ChargeAssumption, FS_AddElement DEF Labels
<1>2. IsFiniteSet(1..MaxSpend)
  BY ChargeAssumption, FS_Interval
<1>3. IsFiniteSet(Labels \X (1..MaxSpend))
  BY <1>1, <1>2, FS_Product
<1>4. Tokens(f) \in SUBSET (Labels \X (1..MaxSpend))
  BY DEF Tokens
<1>5. IsFiniteSet(Tokens(f))
  BY <1>3, <1>4, FS_Subset
<1> QED BY <1>5, FS_CardinalityType DEF Count

LEMMA CountGrows ==
  ASSUME NEW f \in Lists, NEW g \in Lists, \A l \in Labels : f[l] <= g[l] \/ f[l] <= 0
  PROVE  Count(f) <= Count(g)
<1>1. Tokens(f) \in SUBSET Tokens(g)
  <2>1. ASSUME NEW t \in Tokens(f) PROVE t \in Tokens(g)
    <3>1. /\ t \in Labels \X (1..MaxSpend) /\ t[1] \in Labels
          /\ t[2] \in 1..MaxSpend /\ t[2] <= f[t[1]]
      BY DEF Tokens
    <3>2. f[t[1]] \in Int /\ g[t[1]] \in Int
      BY <3>1, ChargeAssumption DEF Lists, Absent
    <3>3. f[t[1]] <= g[t[1]]
      BY <3>1, <3>2
    <3>4. t[2] <= g[t[1]]
      BY <3>1, <3>2, <3>3
    <3> QED BY <3>1, <3>4 DEF Tokens
  <2> QED BY <2>1
<1>2. IsFiniteSet(Tokens(g))
  BY CountType
<1> QED BY <1>1, <1>2, FS_Subset DEF Count

\* The tokens of one label.
LEMMA CountOfOne ==
  ASSUME NEW l \in Labels, NEW n \in Nat
  PROVE  IsFiniteSet({l} \X (1..n)) /\ Cardinality({l} \X (1..n)) = n
<1>1. IsFiniteSet({l}) /\ Cardinality({l}) = 1
  BY FS_Singleton
<1>2. IsFiniteSet(1..n) /\ Cardinality(1..n) = n
  BY FS_Interval
<1>3. /\ IsFiniteSet({l} \X (1..n))
      /\ Cardinality({l} \X (1..n)) = Cardinality({l}) * Cardinality(1..n)
  BY <1>1, <1>2, FS_Product
<1>4. 1 * n = n
  OBVIOUS
<1> QED BY <1>1, <1>2, <1>3, <1>4

LEMMA CountSplits ==
  ASSUME NEW f \in Lists, NEW l \in Labels
  PROVE  /\ Cardinality({t \in Tokens(f) : t[1] # l}) \in Nat
         /\ Count(f) = Cardinality({t \in Tokens(f) : t[1] # l}) + Pos(f[l])
<1> DEFINE R == {t \in Tokens(f) : t[1] # l}
           L == {l} \X (1..Pos(f[l]))
<1>1. f[l] \in Int /\ f[l] <= MaxSpend /\ Pos(f[l]) \in Nat
  BY ChargeAssumption DEF Lists, Absent, Pos
<1>2. Tokens(f) = R \cup L
  <2>1. ASSUME NEW t \in Tokens(f), t[1] = l PROVE t \in L
    <3>1. t \in Labels \X (1..MaxSpend) /\ t[2] <= f[l]
      BY <2>1 DEF Tokens
    <3> QED BY <1>1, <2>1, <3>1 DEF Pos
  <2>2. ASSUME NEW t \in L PROVE t \in Tokens(f)
    <3>1. t[1] = l /\ t[2] \in 1..Pos(f[l]) /\ t = <<t[1], t[2]>>
      BY <2>2
    <3>2. t[2] \in 1..MaxSpend /\ t[2] <= f[t[1]]
      BY <1>1, <3>1, ChargeAssumption DEF Pos
    <3>3. t \in Labels \X (1..MaxSpend)
      BY <3>1, <3>2
    <3> QED BY <3>2, <3>3 DEF Tokens
  <2> QED BY <2>1, <2>2
<1>3. R \cap L = {}
  OBVIOUS
<1>4. IsFiniteSet(R) /\ Cardinality(R) \in Nat
  <2>1. R \in SUBSET Tokens(f)
    OBVIOUS
  <2>2. IsFiniteSet(R)
    BY <2>1, CountType, FS_Subset
  <2> QED BY <2>2, FS_CardinalityType
<1>5. IsFiniteSet(L) /\ Cardinality(L) = Pos(f[l])
  BY <1>1, CountOfOne
<1> HIDE DEF R, L
<1>6. Cardinality(R \cup L) = Cardinality(R) + Cardinality(L) - Cardinality(R \cap L)
  BY <1>4, <1>5, FS_Union
<1>7. Cardinality(R \cap L) = 0
  BY <1>3, FS_EmptySet
<1>8. Count(f) = Cardinality(R) + Pos(f[l])
  BY <1>1, <1>2, <1>4, <1>5, <1>6, <1>7 DEF Count
<1> QED BY <1>4, <1>8 DEF R

LEMMA CountReplaces ==
  ASSUME NEW f \in Lists, NEW g \in Lists, NEW l \in Labels,
         \A k \in Labels : k # l => f[k] = g[k]
  PROVE  Count(f) - Pos(f[l]) = Count(g) - Pos(g[l])
<1>1. {t \in Tokens(f) : t[1] # l} = {t \in Tokens(g) : t[1] # l}
  BY DEF Tokens
<1>2. Pos(f[l]) \in Nat /\ Pos(g[l]) \in Nat
  BY ChargeAssumption DEF Lists, Absent, Pos
<1>3. Count(f) = Cardinality({t \in Tokens(f) : t[1] # l}) + Pos(f[l])
  BY CountSplits
<1>4. /\ Cardinality({t \in Tokens(g) : t[1] # l}) \in Nat
      /\ Count(g) = Cardinality({t \in Tokens(g) : t[1] # l}) + Pos(g[l])
  BY CountSplits
<1> DEFINE n == Cardinality({t \in Tokens(g) : t[1] # l})
<1>5. n \in Nat /\ Count(f) = n + Pos(f[l]) /\ Count(g) = n + Pos(g[l])
  BY <1>1, <1>3, <1>4
<1> HIDE DEF n
<1> QED BY <1>2, <1>5

-----------------------------------------------------------------------------
(***************************************************************************)
(* The books are kept: by a step of one turn, and by the process's own.    *)
(***************************************************************************)

\* What the books are made of has its type, and a list never claims more than
\* the turns do.
Typed ==
  /\ mem.list \in Lists /\ disk.list \in Lists /\ Claims \in Lists
  /\ Known(mem) \in Nat /\ Known(disk) \in Nat /\ actual \in Nat
  /\ Accounts(mem) \in Nat /\ Accounts(disk) \in Nat /\ Count(Claims) \in Nat
  /\ \A l \in Labels : turn[l] \in Attempt /\ mem.list[l] \in Int /\ turn[l].spent \in Nat
                       /\ turn[l].seen \in Nat /\ turn[l].told \in Nat

LEMMA BooksTypes == TypeOK => Typed
<1> SUFFICES ASSUME TypeOK PROVE Typed
  OBVIOUS
<1>1. /\ mem.list \in Lists /\ disk.list \in Lists
      /\ Known(mem) \in Nat /\ Known(disk) \in Nat /\ actual \in Nat
  BY DEF TypeOK, Ledgers, Lists, Known
<1>2. \A l \in Labels : turn[l] \in Attempt
  BY DEF TypeOK
<1>3. \A l \in Labels : mem.list[l] \in Int
  BY <1>1, ChargeAssumption DEF Lists, Absent
<1>4. \A l \in Labels : turn[l].spent \in Nat /\ turn[l].spent \in 0..MaxSpend
                        /\ turn[l].seen \in Nat /\ turn[l].told \in Nat
  BY <1>2, ChargeAssumption DEF Attempt
<1>5. Claims \in Lists
  BY <1>1, <1>4 DEF Claims, Lists
<1>6. Count(mem.list) \in Nat /\ Count(disk.list) \in Nat /\ Count(Claims) \in Nat
  BY <1>1, <1>5, CountType
<1> QED BY <1>1, <1>2, <1>3, <1>4, <1>5, <1>6 DEF Accounts, Typed

LEMMA ClaimsCover == TypeOK /\ Figures => Accounts(mem) <= Known(mem) + Count(Claims)
<1> SUFFICES ASSUME TypeOK, Figures PROVE Accounts(mem) <= Known(mem) + Count(Claims)
  OBVIOUS
<1> USE BooksTypes DEF Typed
<1>1. \A l \in Labels : mem.list[l] <= Claims[l]
  BY DEF Figures, Claims
<1>2. Count(mem.list) <= Count(Claims)
  BY <1>1, CountGrows
<1>3. Count(mem.list) \in Nat
  BY CountType
<1> QED BY <1>2, <1>3 DEF Accounts

\* With no turn running, what may be charged is what the list has.
LEMMA OverClaims == Typed /\ (\A l \in Labels : ~Running(l)) => Claims = mem.list
<1> SUFFICES ASSUME Typed, \A l \in Labels : ~Running(l) PROVE Claims = mem.list
  OBVIOUS
<1>1. \A l \in Labels : Claims[l] = mem.list[l]
  BY DEF Claims
<1> QED BY <1>1 DEF Typed, Lists

\* A save brings the file up to what memory accounts for.
LEMMA BooksStep ==
  ASSUME TypeOK, Books, TypeOK', Figures', Settled', actual' >= actual,
         Known(mem') + Count(Claims') <= actual',
         disk' \in {disk, mem'},
         pc = "release" => pc' = "release" \/ disk' = mem',
         pc # "release" => \/ Accounts(mem') >= Accounts(mem)
                           \/ disk' = mem' /\ Accounts(mem') >= Accounts(disk)
  PROVE  Books' /\ (pc # "release" => Accounts(disk') >= Accounts(disk))
<1>1. /\ Accounts(mem) \in Nat /\ Accounts(disk) \in Nat /\ actual \in Nat
      /\ Accounts(mem') \in Nat /\ Accounts(disk') \in Nat /\ actual' \in Nat
      /\ Known(mem') \in Nat /\ Count(Claims') \in Nat
  <2>1. Accounts(mem) \in Nat /\ Accounts(disk) \in Nat /\ actual \in Nat
    BY BooksTypes DEF Typed
  <2>2. Typed'
    BY BooksTypes, PTL
  <2> QED BY <2>1, <2>2 DEF Typed, Accounts, Known
<1>2. Accounts(mem') <= Known(mem') + Count(Claims')
  <2>1. (Accounts(mem) <= Known(mem) + Count(Claims))'
    BY ClaimsCover, PTL
  <2> QED BY <2>1 DEF Accounts, Count, Known
<1>3. Accounts(mem') <= actual'
  BY <1>1, <1>2
<1>4. Accounts(disk') <= actual'
  BY <1>1, <1>3 DEF Books
<1>5. pc # "release" => Accounts(disk') >= Accounts(disk)
  BY <1>1 DEF Books
<1>6. pc' # "release" => Accounts(disk') <= Accounts(mem')
  BY <1>1 DEF Books
<1>7. Books'
  BY <1>4, <1>6 DEF Books
<1> QED BY <1>5, <1>7

\* A step of the turn of one label: the others' figures may be written down.
LEMMA TurnStep ==
  ASSUME TypeOK, Books, TypeOK', NEW l \in Labels,
         pc = "run", pc' = "run", ending => ending',
         \A k \in Labels : k # l => turn'[k] = turn[k],
         \A k \in Labels : k # l => \/ mem'.list[k] = mem.list[k]
                                    \/ Running(k) /\ mem'.list[k] = turn[k].seen,
         disk' \in {disk, mem'}, actual' >= actual,
         Running(l)' => /\ mem'.list[l] <= turn'[l].seen /\ turn'[l].seen <= turn'[l].spent
                        /\ turn'[l].told <= turn'[l].spent
                        /\ l \notin Streaming => turn'[l].seen = 0,
         ~Running(l)' /\ ~ending' => mem'.list[l] <= 0,
         Known(mem') + Pos(Claims'[l]) - actual' <= Known(mem) + Pos(Claims[l]) - actual,
         Known(mem') + Pos(mem'.list[l]) >= Known(mem) + Pos(mem.list[l])
  PROVE  Books' /\ Accounts(disk') >= Accounts(disk)
<1>1. /\ mem.list \in Lists /\ Claims \in Lists /\ Known(mem) \in Nat /\ actual \in Nat
      /\ Accounts(mem) \in Nat /\ Count(Claims) \in Nat
      /\ \A k \in Labels : turn[k] \in Attempt /\ mem.list[k] \in Int /\ turn[k].spent \in Nat
                           /\ turn[k].seen \in Nat
  BY BooksTypes DEF Typed
<1>2. /\ mem'.list \in Lists /\ Claims' \in Lists /\ Known(mem') \in Nat /\ actual' \in Nat
      /\ Accounts(mem') \in Nat /\ Count(Claims') \in Nat
      /\ \A k \in Labels : mem'.list[k] \in Int
  <2>1. Typed'
    BY BooksTypes, PTL
  <2> QED BY <2>1 DEF Typed, Accounts, Known
<1>3. \A k \in Labels : k # l => Running(k)' = Running(k)
  BY DEF Running
<1>4. Figures'
  BY <1>1, <1>3 DEF Books, Figures
<1>5. Settled'
  BY <1>3 DEF Books, Settled
<1>6. \A k \in Labels : k # l => Claims'[k] = Claims[k]
  <2>1. \A k \in Labels : Claims'[k] = IF Running(k)' THEN turn'[k].spent ELSE mem'.list[k]
    BY DEF Claims
  <2>2. \A k \in Labels : Claims[k] = IF Running(k) THEN turn[k].spent ELSE mem.list[k]
    BY DEF Claims
  <2> QED BY <1>3, <2>1, <2>2
<1>7. /\ Pos(Claims[l]) \in Nat /\ Pos(Claims'[l]) \in Nat
      /\ Pos(mem.list[l]) \in Nat /\ Pos(mem'.list[l]) \in Nat
  BY <1>1, <1>2, ChargeAssumption DEF Pos, Lists, Absent
<1>8. Known(mem') + Count(Claims') <= actual'
  <2>1. Count(Claims) - Pos(Claims[l]) = Count(Claims') - Pos(Claims'[l])
    BY <1>1, <1>2, <1>6, CountReplaces
  <2>2. Known(mem) + Count(Claims) <= actual
    BY DEF Books
  <2> QED BY <1>1, <1>2, <1>7, <2>1, <2>2
<1>9. Accounts(mem') >= Accounts(mem)
  <2> DEFINE g == [mem.list EXCEPT ![l] = mem'.list[l]]
  <2>1. /\ g \in Lists /\ g[l] = mem'.list[l]
        /\ \A k \in Labels : k # l => g[k] = mem.list[k]
    BY <1>1, <1>2 DEF Lists
  <2> HIDE DEF g
  <2>2. Count(mem.list) - Pos(mem.list[l]) = Count(g) - Pos(mem'.list[l])
    BY <1>1, <2>1, CountReplaces
  <2>3. \A k \in Labels : g[k] <= mem'.list[k]
    BY <1>1, <1>2, <2>1 DEF Books, Figures
  <2>4. Count(g) <= Count(mem'.list)
    BY <1>2, <2>1, <2>3, CountGrows
  <2>5. Count(g) \in Nat /\ Count(mem.list) \in Nat /\ Count(mem'.list) \in Nat
    BY <1>1, <1>2, <2>1, CountType
  <2> QED BY <1>1, <1>2, <1>7, <2>2, <2>4, <2>5 DEF Accounts
<1> QED BY <1>4, <1>5, <1>8, <1>9, BooksStep

Bookkept == Books' /\ (pc # "release" => Accounts(disk') >= Accounts(disk))

\* Whose figures a merge writes down.
LEMMA MergedList ==
  ASSUME NEW m \in Ledgers, NEW t, NEW ls
  PROVE  /\ Known(Merged(m, t, ls)) = Known(m)
         /\ \A k \in Labels : Merged(m, t, ls).list[k] = IF k \in ls THEN t[k].seen ELSE m.list[k]
BY DEF Merged, Ledgers, Known

\* A turn begins with nothing spent, in place of one that left nothing.
LEMMA StartBooks ==
  ASSUME IInv, Books, TypeOK', NEW l \in Labels,
         (l \in Work /\ BeginWork(l)) \/ (l = Compact /\ BeginCompact)
  PROVE  Bookkept
<1>1. Start(l) /\ MayStart
  BY DEF BeginWork, BeginCompact
<1>2. ~Running(l) /\ turn \in [Labels -> Attempt] /\ mem \in Ledgers
  BY DEF Running, BeginWork, BeginCompact, IInv, TypeOK, Brake
<1>3. pc = "run" /\ pc' = "run" /\ ~ending /\ actual' = actual
  BY <1>1 DEF MayStart, Start
<1>4. /\ turn'[l].at = "live" /\ turn'[l].spent = 0 /\ turn'[l].seen = 0 /\ turn'[l].told = 0
      /\ \A k \in Labels : k # l => turn'[k] = turn[k]
  BY <1>1, <1>2 DEF Start, NoTurn
<1>5. mem' = Merged(mem, turn', Live \cup {l}) /\ disk' \in {disk, mem'}
  BY <1>1 DEF Start, Noted, Saved, Unsaved
<1>6. /\ Known(mem') = Known(mem) /\ mem'.list[l] = 0
      /\ \A k \in Labels : k # l => \/ mem'.list[k] = mem.list[k]
                                    \/ Running(k) /\ mem'.list[k] = turn[k].seen
  BY <1>2, <1>4, <1>5, MergedList DEF Live, Running
<1>7. Running(l)' /\ Claims'[l] = 0 /\ Claims[l] = mem.list[l]
  BY <1>2, <1>4 DEF Running, Claims
<1>8. mem.list[l] <= 0
  BY <1>2, <1>3 DEF Books, Settled
<1>9. Typed
  BY BooksTypes DEF IInv
<1>10. /\ Known(mem') + Pos(Claims'[l]) - actual' <= Known(mem) + Pos(Claims[l]) - actual
       /\ Known(mem') + Pos(mem'.list[l]) >= Known(mem) + Pos(mem.list[l])
  BY <1>3, <1>6, <1>7, <1>8, <1>9 DEF Pos, Typed
<1>11. actual' >= actual
  BY <1>3, <1>9 DEF Typed
<1>12. /\ mem'.list[l] <= turn'[l].seen /\ turn'[l].seen <= turn'[l].spent
       /\ turn'[l].told <= turn'[l].spent
  BY <1>4, <1>6
<1>13. TypeOK /\ disk' \in {disk, mem'}
  BY <1>5 DEF IInv
<1>14. Books' /\ Accounts(disk') >= Accounts(disk)
  BY <1>3, <1>4, <1>6, <1>7, <1>10, <1>11, <1>12, <1>13, TurnStep
<1> QED BY <1>14 DEF Bookkept

\* What the child spends is claimed and spent alike, and noted or not.
LEMMA LineBooks ==
  ASSUME IInv, Books, TypeOK', NEW l \in Labels, Line(l)
  PROVE  Bookkept
<1>1. Typed /\ TypeOK /\ Figures
  BY BooksTypes DEF IInv, Books
<1>2. PICK s \in (turn[l].spent + 1)..MaxSpend :
        \E f \in {turn[l].seen} \cup (IF l \in Streaming THEN {s} ELSE {}) :
          /\ turn[l].at = "live"
          /\ turn' = [turn EXCEPT ![l].spent = s, ![l].seen = f]
          /\ actual' = actual + (s - turn[l].spent)
          /\ \/ Noted(Merged(mem, turn', Live))
             \/ UNCHANGED <<mem, disk, faults>>
  BY DEF Line
<1>3. PICK f \in {turn[l].seen} \cup (IF l \in Streaming THEN {s} ELSE {}) :
        /\ turn[l].at = "live"
        /\ turn' = [turn EXCEPT ![l].spent = s, ![l].seen = f]
        /\ actual' = actual + (s - turn[l].spent)
        /\ \/ Noted(Merged(mem, turn', Live))
           \/ UNCHANGED <<mem, disk, faults>>
  BY <1>2
<1>4. s \in Nat /\ f \in Nat /\ s > turn[l].spent /\ f >= turn[l].seen /\ f <= s
  BY <1>1, <1>3, ChargeAssumption DEF Typed, Figures, Running
<1>5. /\ turn'[l].at = "live" /\ turn'[l].spent = s /\ turn'[l].seen = f
      /\ turn'[l].told = turn[l].told
      /\ \A k \in Labels : k # l => turn'[k] = turn[k]
  BY <1>1, <1>3 DEF TypeOK, Attempt
<1>6. pc = "run" /\ UNCHANGED <<pc, ending>>
  BY <1>1, <1>3 DEF Line, TypeOK, Busy
<1>7. mem' \in {mem, Merged(mem, turn', Live)} /\ disk' \in {disk, mem'}
  BY <1>3 DEF Noted, Saved, Unsaved
<1>8. /\ Known(mem') = Known(mem) /\ mem'.list[l] \in {mem.list[l], f}
      /\ \A k \in Labels : k # l => \/ mem'.list[k] = mem.list[k]
                                    \/ Running(k) /\ mem'.list[k] = turn[k].seen
  BY <1>1, <1>5, <1>7, MergedList DEF Live, Running, TypeOK
<1>9. Running(l) /\ Running(l)' /\ Claims'[l] = s /\ Claims[l] = turn[l].spent
  BY <1>3, <1>5 DEF Running, Claims
<1>10. /\ mem'.list[l] <= f /\ turn[l].told <= s /\ (l \notin Streaming => f = 0)
       /\ mem'.list[l] >= mem.list[l]
  BY <1>1, <1>3, <1>4, <1>8, <1>9 DEF Figures, Typed
<1>11. /\ Known(mem') + Pos(Claims'[l]) - actual' <= Known(mem) + Pos(Claims[l]) - actual
       /\ Known(mem') + Pos(mem'.list[l]) >= Known(mem) + Pos(mem.list[l])
       /\ actual' >= actual
  BY <1>1, <1>3, <1>4, <1>8, <1>9, <1>10 DEF Pos, Typed
<1>12. Books' /\ Accounts(disk') >= Accounts(disk)
  BY <1>1, <1>4, <1>5, <1>6, <1>7, <1>8, <1>9, <1>10, <1>11, TurnStep
<1> QED BY <1>12 DEF Bookkept

\* The end's merge writes the last figures down, and moves none.
LEMMA ChildEndsBooks ==
  ASSUME IInv, Books, TypeOK', NEW l \in Labels, ChildEnds(l)
  PROVE  Bookkept
<1>1. Typed /\ TypeOK /\ Figures
  BY BooksTypes DEF IInv, Books
<1>3. PICK how \in HowItMayEnd(l), told \in 0..turn[l].spent :
        turn' = [turn EXCEPT ![l].at = how, ![l].told = told]
  BY DEF ChildEnds
<1>4. /\ turn[l].at = "live" /\ mem' = Merged(mem, turn, Live) /\ disk' \in {disk, mem'}
      /\ UNCHANGED <<pc, ending, actual>>
  BY DEF ChildEnds, Noted, Saved, Unsaved
<1>5. how \in Ends /\ how \notin {"idle", "waiting"}
  BY DEF HowItMayEnd, Ends
<1>6. told \in Nat /\ told <= turn[l].spent
  BY <1>1, <1>3 DEF Typed
<1>7. /\ turn'[l].at = how /\ turn'[l].told = told
      /\ turn'[l].spent = turn[l].spent /\ turn'[l].seen = turn[l].seen
      /\ \A k \in Labels : k # l => turn'[k] = turn[k]
  BY <1>1, <1>3 DEF TypeOK, Attempt
<1>8. pc = "run"
  BY <1>1, <1>4 DEF TypeOK, Busy
<1>9. /\ Known(mem') = Known(mem) /\ mem'.list[l] = turn[l].seen
      /\ \A k \in Labels : k # l => \/ mem'.list[k] = mem.list[k]
                                    \/ Running(k) /\ mem'.list[k] = turn[k].seen
  BY <1>1, <1>4, MergedList DEF Live, Running, TypeOK
<1>10. /\ Running(l) /\ Running(l)'
       /\ Claims'[l] = turn[l].spent /\ Claims[l] = turn[l].spent
  BY <1>4, <1>5, <1>7 DEF Running, Claims
<1>11. /\ mem.list[l] <= turn[l].seen /\ turn[l].seen <= turn[l].spent
       /\ l \notin Streaming => turn[l].seen = 0
  BY <1>1, <1>10 DEF Figures
<1>12. /\ Known(mem') + Pos(Claims'[l]) - actual' <= Known(mem) + Pos(Claims[l]) - actual
       /\ Known(mem') + Pos(mem'.list[l]) >= Known(mem) + Pos(mem.list[l])
       /\ actual' >= actual /\ mem'.list[l] <= turn[l].seen
  BY <1>1, <1>4, <1>9, <1>10, <1>11 DEF Pos, Typed
<1>13. Books' /\ Accounts(disk') >= Accounts(disk)
  BY <1>1, <1>4, <1>6, <1>7, <1>8, <1>9, <1>10, <1>11, <1>12, TurnStep
<1> QED BY <1>13 DEF Bookkept

\* A charge, and what it notes: together no less than the list has, and no
\* more than the turn spent.
LEMMA ChargeBooks ==
  ASSUME IInv, Books, TypeOK', NEW l \in Labels, NEW n \in Nat, Running(l), ~Running(l)',
         Pos(mem.list[l]) <= n, n <= turn[l].spent,
         Known(mem') = Known(mem) + n, mem'.list = TakeInFlight(mem, l).list,
         disk' \in {disk, mem'},
         \A k \in Labels : k # l => turn'[k] = turn[k],
         UNCHANGED <<pc, actual>>, ending => ending'
  PROVE  Bookkept
<1>1. Typed /\ TypeOK
  BY BooksTypes DEF IInv
<1>2. pc = "run"
  BY <1>1 DEF TypeOK, Busy, Running
<1>3. /\ mem'.list[l] = Absent
      /\ \A k \in Labels : k # l => mem'.list[k] = mem.list[k]
  BY <1>1 DEF TakeInFlight, TypeOK, Ledgers
<1>4. Claims'[l] = Absent /\ Claims[l] = turn[l].spent
  BY <1>3 DEF Claims
<1>5. /\ Known(mem') + Pos(Claims'[l]) - actual' <= Known(mem) + Pos(Claims[l]) - actual
      /\ Known(mem') + Pos(mem'.list[l]) >= Known(mem) + Pos(mem.list[l])
      /\ actual' >= actual /\ mem'.list[l] <= 0
  BY <1>1, <1>3, <1>4 DEF Pos, Typed, Absent
<1>6. Books' /\ Accounts(disk') >= Accounts(disk)
  BY <1>1, <1>2, <1>3, <1>5, TurnStep
<1> QED BY <1>6 DEF Bookkept

\* applyCharge moves the larger of the two figures into what is known, charged
\* or noted, and chargeFailure charges it.
LEMMA ChargeFits ==
  ASSUME TypeOK, Figures, NEW l \in Labels, Running(l)
  PROVE  /\ FailedCost(l) \in Nat /\ Pos(mem.list[l]) <= FailedCost(l)
         /\ FailedCost(l) <= turn[l].spent
         /\ Known(FailureCharged(l)) = Known(mem) + FailedCost(l)
         /\ FailureCharged(l).list = TakeInFlight(mem, l).list
         /\ Known(Charged(mem, l, turn[l].told)) = Known(mem) + FailedCost(l)
         /\ Charged(mem, l, turn[l].told).list = TakeInFlight(mem, l).list
<1>1. Typed /\ mem \in Ledgers
  BY BooksTypes DEF TypeOK
<1>2. FailedCost(l) \in Nat /\ Pos(mem.list[l]) <= FailedCost(l) /\ FailedCost(l) <= turn[l].spent
  BY <1>1 DEF Typed, Figures, FailedCost, Pos
<1>3. ASSUME NEW m \in Ledgers, NEW n \in Nat
      PROVE  /\ Known(Charged(m, l, n))
                 = m.used + n + (m.noted + (IF m.list[l] > n THEN m.list[l] - n ELSE 0))
             /\ Charged(m, l, n).list = TakeInFlight(m, l).list
  BY <1>3 DEF Charged, TakeInFlight, Known, Ledgers
<1>4. TakeInFlight(mem, l) \in Ledgers
  BY <1>1, LedgerTypes, 0 \in Nat DEF TypeOK
<1>5. /\ TakeInFlight(mem, l).used = mem.used /\ TakeInFlight(mem, l).noted = mem.noted
      /\ TakeInFlight(mem, l).list[l] = Absent
      /\ TakeInFlight(TakeInFlight(mem, l), l) = TakeInFlight(mem, l)
  BY <1>1 DEF TakeInFlight, Ledgers
<1>6. mem.used \in Nat /\ mem.noted \in Nat
  BY <1>1 DEF Ledgers
<1>7. /\ Known(FailureCharged(l)) = Known(mem) + FailedCost(l)
      /\ FailureCharged(l).list = TakeInFlight(mem, l).list
  BY <1>2, <1>3, <1>4, <1>5, <1>6 DEF FailureCharged, Known, Absent
<1>8. /\ Known(Charged(mem, l, turn[l].told)) = Known(mem) + FailedCost(l)
      /\ Charged(mem, l, turn[l].told).list = TakeInFlight(mem, l).list
  BY <1>1, <1>3, <1>6 DEF FailedCost, Typed, Known
<1> QED BY <1>2, <1>7, <1>8

\* A turn's charge; a Codex turn whose first save fails is dropped uncharged.
LEMMA WorkBooks ==
  ASSUME IInv, Books, TypeOK', NEW l \in Work,
         ChargeOk(l) \/ ChargeAndRetry(l) \/ ChargeAndThrow(l) \/ WaitCancelled(l)
  PROVE  Bookkept
<1>1. Typed /\ TypeOK /\ Figures /\ l \in Labels
  BY BooksTypes DEF IInv, Books, Labels
<1>2. /\ UNCHANGED <<pc, actual>> /\ (ending => ending') /\ ~Running(l)'
      /\ \A k \in Labels : k # l => turn'[k] = turn[k]
  <2>1. PICK a : turn' = [turn EXCEPT ![l] = a] /\ a.at \in {"idle", "waiting"}
    <3>1. CASE Ended(l)
      <4>1. NoTurn.at = "idle" /\ turn' = [turn EXCEPT ![l] = NoTurn]
        BY <3>1 DEF Ended, NoTurn
      <4> QED BY <4>1
    <3>2. CASE ChargeAndRetry(l)
      <4> DEFINE c == turn[l].cut \/ turn[l].at = "cutoff"
      <4>1. turn' = [turn EXCEPT ![l] = [NoTurn EXCEPT !.at = "waiting", !.cut = c]]
        BY <3>2 DEF ChargeAndRetry
      <4>2. c \in BOOLEAN
        BY <1>1 DEF TypeOK, Attempt
      <4> HIDE DEF c
      <4>3. [NoTurn EXCEPT !.at = "waiting", !.cut = c].at = "waiting"
        BY <4>2, NewAttempt
      <4> QED BY <4>1, <4>3
    <3> QED BY <3>1, <3>2 DEF ChargeOk, ChargeAndThrow, WaitCancelled
  <2>2. UNCHANGED <<pc, actual>> /\ (ending => ending')
    <3>1. UNCHANGED <<pc, actual>>
      BY DEF ChargeOk, ChargeAndRetry, ChargeAndThrow, WaitCancelled, Kept
    <3>2. ending => ending'
      <4>1. CASE ChargeOk(l)
        BY <4>1 DEF ChargeOk
      <4>2. CASE ChargeAndRetry(l)
        BY <4>2 DEF ChargeAndRetry
      <4>3. CASE ChargeAndThrow(l)
        BY <4>3 DEF ChargeAndThrow
      <4>4. CASE WaitCancelled(l)
        BY <4>4 DEF WaitCancelled
      <4> QED BY <4>1, <4>2, <4>3, <4>4
    <3> QED BY <3>1, <3>2
  <2> QED BY <1>1, <2>1, <2>2 DEF Running, TypeOK
<1>3. CASE ChargeAndRetry(l) \/ ChargeAndThrow(l)
  <2>1. Running(l)
    BY <1>3 DEF ChargeAndRetry, ChargeAndThrow, Retries, Running, Ends
  <2>2. mem' = FailureCharged(l) /\ disk' \in {disk, mem'}
    BY <1>3 DEF ChargeAndRetry, ChargeAndThrow, Noted, Saved, Unsaved
  <2> QED BY <1>1, <1>2, <2>1, <2>2, ChargeFits, ChargeBooks
<1>4. CASE ChargeOk(l)
  <2>1. Running(l) /\ turn[l].at = "ok"
    BY <1>4 DEF ChargeOk, Running
  <2>3. CASE mem' = Charged(mem, l, turn[l].told) /\ disk' \in {disk, mem'}
    BY <1>1, <1>2, <2>1, <2>3, ChargeFits, ChargeBooks
  <2>4. CASE l \notin Claude /\ mem' = mem /\ disk' = disk
    <3>1. l \notin Streaming
      BY <2>4, ChargeAssumption DEF Streaming
    <3>2. mem.list[l] <= 0 /\ mem.list[l] <= turn[l].spent
      BY <1>1, <2>1, <3>1 DEF Figures, Typed
    <3>3. Claims'[l] = mem.list[l] /\ Claims[l] = turn[l].spent
      BY <1>1, <1>2, <2>1, <2>4 DEF Claims
    <3>4. Known(mem') + Pos(Claims'[l]) - actual' <= Known(mem) + Pos(Claims[l]) - actual
      BY <1>1, <1>2, <2>4, <3>2, <3>3 DEF Pos, Typed
    <3>5. Known(mem') + Pos(mem'.list[l]) >= Known(mem) + Pos(mem.list[l]) /\ actual' >= actual
      BY <1>1, <1>2, <2>4 DEF Pos, Typed
    <3>6. pc = "run"
      BY <1>1, <2>1 DEF TypeOK, Busy, Running
    <3>7. Books' /\ Accounts(disk') >= Accounts(disk)
      BY <1>1, <1>2, <2>4, <3>2, <3>4, <3>5, <3>6, TurnStep
    <3> QED BY <3>7 DEF Bookkept
  <2> QED BY <1>4, <2>3, <2>4 DEF ChargeOk, Saved, Unsaved
<1>5. CASE WaitCancelled(l)
  <2>1. ~Running(l) /\ mem' = mem /\ disk' = disk /\ ending' /\ turn[l].at = "waiting"
    BY <1>5 DEF WaitCancelled, Running
  <2>2. Claims'[l] = Claims[l]
    BY <1>1, <1>2, <2>1 DEF Claims
  <2>3. /\ Claims[l] \in Int /\ Known(mem') + Pos(mem'.list[l]) >= Known(mem) + Pos(mem.list[l])
        /\ actual' >= actual
    BY <1>1, <1>2, <2>1, ChargeAssumption DEF Pos, Typed, Lists, Absent
  <2>4. Known(mem') + Pos(Claims'[l]) - actual' <= Known(mem) + Pos(Claims[l]) - actual
    BY <1>1, <1>2, <2>1, <2>2, <2>3 DEF Pos, Typed
  <2>5. pc = "run"
    BY <1>1, <2>1 DEF TypeOK, Busy
  <2>6. Books' /\ Accounts(disk') >= Accounts(disk)
    BY <1>1, <1>2, <2>1, <2>3, <2>4, <2>5, TurnStep
  <2> QED BY <2>6 DEF Bookkept
<1> QED BY <1>3, <1>4, <1>5

\* The handoff turn's charge.
LEMMA RotationBooks ==
  ASSUME IInv, Books, TypeOK', CompactOk \/ CompactFailed
  PROVE  Bookkept
<1>1. Typed /\ TypeOK /\ Figures /\ Compact \in Labels
  BY BooksTypes DEF IInv, Books, Labels
<1>2. PICK what : Raises(what)
  BY DEF CompactOk, CompactFailed
<1>3. /\ UNCHANGED <<pc, actual>> /\ (ending => ending') /\ ~Running(Compact)'
      /\ \A k \in Labels : k # Compact => turn'[k] = turn[k]
  BY <1>1, <1>2 DEF Raises, Kept, Ended, NoTurn, Running, TypeOK
<1>4. Running(Compact)
  BY DEF CompactOk, CompactFailed, Running
<1>5. CASE CompactOk
  <2>1. mem' = Charged(mem, Compact, turn[Compact].told) /\ disk' \in {disk, mem'}
    BY <1>5 DEF CompactOk, Saved, Unsaved
  <2> QED BY <1>1, <1>3, <1>4, <2>1, ChargeFits, ChargeBooks
<1>6. CASE CompactFailed
  <2>1. mem' = FailureCharged(Compact) /\ disk' \in {disk, mem'}
    BY <1>6 DEF CompactFailed, Noted, Saved, Unsaved
  <2> QED BY <1>1, <1>3, <1>4, <2>1, ChargeFits, ChargeBooks
<1> QED BY <1>5, <1>6

\* A step that moves no figure, or charges what is spent as it is charged.
LEMMA StillBooks ==
  ASSUME IInv, Books, TypeOK', NEW n \in Nat, turn' = turn,
         mem'.list = mem.list, Known(mem') = Known(mem) + n, actual' = actual + n,
         disk' \in {disk, mem'}, Settled',
         pc = "release" => pc' = "release" \/ disk' = mem'
  PROVE  Bookkept
<1>1. Typed /\ TypeOK
  BY BooksTypes DEF IInv
<1>2. Claims' = Claims
  BY DEF Claims, Running
<1>3. Known(mem') + Count(Claims') <= actual'
  BY <1>1, <1>2 DEF Books, Typed
<1>4. Figures'
  BY DEF Books, Figures, Running
<1>5. Accounts(mem') >= Accounts(mem) /\ actual' >= actual
  <2>1. Count(mem.list) \in Nat /\ Known(mem) \in Nat /\ actual \in Nat
    BY <1>1, CountType DEF Typed
  <2>2. Accounts(mem') = Known(mem') + Count(mem.list) /\ Accounts(mem) = Known(mem) + Count(mem.list)
    BY DEF Accounts
  <2> QED BY <2>1, <2>2
<1> QED BY <1>1, <1>3, <1>4, <1>5, BooksStep DEF Bookkept

\* The timer changes no attempt: its merge is that of any one turn's step.
LEMMA BeatBooks ==
  ASSUME IInv, Books, TypeOK', Beat
  PROVE  Bookkept
<1>1. Typed /\ TypeOK /\ Figures /\ Compact \in Labels
  BY BooksTypes DEF IInv, Books, Labels
<1>2. /\ UNCHANGED <<pc, turn, ending, actual>> /\ Live # {}
      /\ mem' \in {mem, Merged(mem, turn, Live)} /\ disk' \in {disk, mem'}
  BY DEF Beat, Noted, Saved, Unsaved
<1>3. pc = "run"
  BY <1>1, <1>2 DEF TypeOK, Live, Busy
<1>4. /\ Known(mem') = Known(mem)
      /\ \A k \in Labels : \/ mem'.list[k] = mem.list[k]
                           \/ Running(k) /\ mem'.list[k] = turn[k].seen
  <2>1. CASE mem' = mem
    BY <2>1
  <2>2. CASE mem' = Merged(mem, turn, Live)
    <3>1. mem \in Ledgers
      BY <1>1 DEF TypeOK
    <3>2. \A k \in Live : Running(k)
      BY DEF Live, Running
    <3> QED BY <2>2, <3>1, <3>2, MergedList
  <2> QED BY <1>2, <2>1, <2>2
<1>5. Running(Compact)' = Running(Compact)
  BY <1>2 DEF Running
<1>6. /\ Running(Compact) => /\ mem.list[Compact] <= turn[Compact].seen
                             /\ mem'.list[Compact] >= mem.list[Compact]
                             /\ mem'.list[Compact] <= turn[Compact].seen
                             /\ Claims'[Compact] = Claims[Compact]
      /\ ~Running(Compact) => /\ mem'.list[Compact] = mem.list[Compact]
                              /\ Claims'[Compact] = Claims[Compact]
  BY <1>1, <1>2, <1>4, <1>5 DEF Figures, Claims, Typed
<1>7. Claims'[Compact] = Claims[Compact] /\ Claims[Compact] \in Int
  BY <1>1, <1>6, ChargeAssumption DEF Typed, Lists, Absent
<1>8. mem'.list[Compact] >= mem.list[Compact] /\ mem'.list[Compact] \in Int
  BY <1>1, <1>4, <1>6 DEF Typed
<1>9. /\ Known(mem') + Pos(Claims'[Compact]) - actual' <= Known(mem) + Pos(Claims[Compact]) - actual
      /\ Known(mem') + Pos(mem'.list[Compact]) >= Known(mem) + Pos(mem.list[Compact])
      /\ actual' >= actual
  BY <1>1, <1>2, <1>4, <1>7, <1>8 DEF Pos, Typed
<1>10. Running(Compact)' =>
         /\ mem'.list[Compact] <= turn'[Compact].seen /\ turn'[Compact].seen <= turn'[Compact].spent
         /\ turn'[Compact].told <= turn'[Compact].spent
         /\ Compact \notin Streaming => turn'[Compact].seen = 0
  BY <1>1, <1>2, <1>5, <1>6 DEF Figures
<1>11. ~Running(Compact)' /\ ~ending' => mem'.list[Compact] <= 0
  BY <1>1, <1>2, <1>3, <1>5, <1>6 DEF Books, Settled
<1>12. Books' /\ Accounts(disk') >= Accounts(disk)
  BY <1>1, <1>2, <1>3, <1>4, <1>9, <1>10, <1>11, TurnStep
<1> QED BY <1>12 DEF Bookkept

\* Recovery charges an entry for what it was worth, and takes it out.
LEMMA RecoverBooks ==
  ASSUME IInv, Books, TypeOK', NEW l \in Labels, Recover(l)
  PROVE  Bookkept
<1>1. Typed /\ TypeOK
  BY BooksTypes DEF IInv
<1>2. /\ pc = "recover" /\ pc' = (IF ending' THEN "run" ELSE "recover")
      /\ UNCHANGED <<turn, actual>>
      /\ mem' = Charged(mem, l, Amount(mem, l)) /\ disk' \in {disk, mem'}
  BY Zenon DEF Recover, Saved, Unsaved
<1>3. \A k \in Labels : ~Running(k) /\ ~Running(k)'
  BY <1>1, <1>2 DEF TypeOK, Busy, Running
<1>4. /\ Known(mem') = Known(mem) + Pos(mem.list[l]) /\ mem'.list[l] = Absent
      /\ \A k \in Labels : k # l => mem'.list[k] = mem.list[k]
  <2>1. mem \in Ledgers /\ Amount(mem, l) = Pos(mem.list[l]) /\ Pos(mem.list[l]) \in Nat
    BY <1>1 DEF TypeOK, Amount, Pos, Typed
  <2>2. ~(mem.list[l] > Amount(mem, l))
    BY <1>1 DEF Amount, Typed
  <2>3. /\ mem'.used = mem.used + Amount(mem, l) /\ mem'.noted = mem.noted + 0
        /\ mem'.list = [mem.list EXCEPT ![l] = Absent]
    BY <1>2, <2>1, <2>2 DEF Charged, TakeInFlight, Ledgers
  <2>4. mem.used \in Nat /\ mem.noted \in Nat
    BY <2>1 DEF Ledgers
  <2> QED BY <1>1, <2>1, <2>3, <2>4 DEF Known, Typed, Lists
<1>5. mem'.list \in Lists
  BY DEF TypeOK, Ledgers, Lists
<1>6. Pos(mem.list[l]) \in Nat /\ Pos(mem'.list[l]) = 0
  BY <1>1, <1>4 DEF Typed, Pos, Absent
<1>7. Count(mem.list) \in Nat /\ Count(mem'.list) \in Nat
  BY <1>1, <1>5, CountType DEF Typed
<1>8. Count(mem.list) - Pos(mem.list[l]) = Count(mem'.list)
  <2>1. Count(mem.list) - Pos(mem.list[l]) = Count(mem'.list) - Pos(mem'.list[l])
    BY <1>1, <1>4, <1>5, CountReplaces DEF Typed
  <2> QED BY <1>6, <1>7, <2>1
<1>9. Accounts(mem') = Accounts(mem)
  BY <1>1, <1>4, <1>6, <1>7, <1>8 DEF Accounts, Typed
<1>10. Claims = mem.list /\ Claims' = mem'.list
  <2>1. Typed'
    BY BooksTypes, PTL
  <2>2. Claims' \in Lists
    BY <2>1 DEF Typed
  <2>3. \A k \in Labels : Claims'[k] = mem'.list[k]
    BY <1>3 DEF Claims
  <2>4. Claims' = mem'.list
    BY <1>5, <2>2, <2>3 DEF Lists
  <2> QED BY <1>1, <1>3, <2>4, OverClaims
<1>11. Known(mem') + Count(Claims') <= actual' /\ actual' >= actual
  BY <1>1, <1>2, <1>4, <1>6, <1>7, <1>8, <1>10 DEF Books, Typed
<1>12. Figures' /\ Settled'
  BY <1>2, <1>3 DEF Figures, Settled
<1>13. Accounts(mem) \in Nat
  BY <1>1 DEF Typed
<1> QED BY <1>1, <1>2, <1>9, <1>11, <1>12, <1>13, BooksStep DEF Bookkept

\* A release takes every entry out, in the file as soon as it is saved.
LEMMA ReleaseBooks ==
  ASSUME IInv, Books, TypeOK', ReleaseForced
  PROVE  Bookkept
<1>1. Typed /\ TypeOK /\ Figures
  BY BooksTypes DEF IInv, Books
<1>2. Typed'
  BY BooksTypes, PTL
<1>3. /\ pc = "release" /\ UNCHANGED <<turn, actual>>
      /\ mem' = [mem EXCEPT !.list = [l \in Labels |-> Absent]]
      /\ disk' \in {disk, mem'} /\ pc' \in {"release", "preflight"}
      /\ pc' = "release" \/ disk' = mem'
  BY DEF ReleaseForced, Saved, Unsaved
<1>4. Known(mem') = Known(mem) /\ \A l \in Labels : mem'.list[l] = Absent
  BY <1>1, <1>3 DEF TypeOK, Ledgers, Known
<1>5. \A l \in Labels : ~Running(l)'
  BY <1>1, <1>3 DEF TypeOK, Busy, Running
<1>6. \A l \in Labels : Claims'[l] <= 0
  BY <1>4, <1>5 DEF Claims, Absent
<1>7. Claims \in Lists /\ Claims' \in Lists
  BY <1>1, <1>2 DEF Typed
<1>8. Count(Claims') <= Count(Claims) /\ Count(Claims') \in Nat /\ Count(Claims) \in Nat
  BY <1>6, <1>7, CountGrows, CountType
<1>9. Known(mem') + Count(Claims') <= actual' /\ actual' >= actual
  BY <1>1, <1>3, <1>4, <1>8 DEF Books, Typed
<1>10. Figures' /\ Settled'
  BY <1>4, <1>5 DEF Figures, Settled, Absent
<1> QED BY <1>1, <1>3, <1>9, <1>10, BooksStep DEF Bookkept

\* The next process has what the file says: what this one saved last, or has
\* just saved.
LEMMA EndBooks ==
  ASSUME IInv, Books, TypeOK', Exit \/ Killed
  PROVE  Bookkept
<1>1. Typed /\ TypeOK /\ Figures
  BY BooksTypes DEF IInv, Books
<1>2. /\ ProcessOver /\ actual' = actual /\ disk' \in {disk, mem}
      /\ pc' = "off" /\ mem' = disk'
  BY DEF Exit, Killed, ProcessOver
<1>3. \A l \in Labels : ~Running(l)'
  BY <1>2 DEF ProcessOver, NoTurn, Running
<1>4. Typed'
  BY BooksTypes, PTL
<1>5. Claims' = mem'.list
  <2>1. Claims' \in Lists /\ mem'.list \in Lists
    BY <1>4 DEF Typed
  <2>2. \A k \in Labels : Claims'[k] = mem'.list[k]
    BY <1>3 DEF Claims
  <2> QED BY <2>1, <2>2 DEF Lists
<1>6. Accounts(mem) <= actual /\ Accounts(disk) <= actual
  <2>1. Accounts(mem) <= Known(mem) + Count(Claims) /\ Known(mem) + Count(Claims) <= actual
    BY <1>1, ClaimsCover DEF Books
  <2> QED BY <1>1, <2>1 DEF Books, Typed
<1>7. Known(mem') + Count(Claims') <= actual'
  BY <1>2, <1>5, <1>6 DEF Accounts
<1>8. pc # "release" => Accounts(mem') >= Accounts(disk)
  BY <1>1, <1>2 DEF Books, Typed
<1>9. Figures' /\ Settled' /\ actual' >= actual
  BY <1>1, <1>2, <1>3 DEF Figures, Settled, Typed
<1> QED BY <1>1, <1>2, <1>7, <1>8, <1>9, BooksStep DEF Bookkept

\* The process's own steps.
LEMMA ProcessBooks ==
  ASSUME IInv, Books, TypeOK',
         \/ Beat \/ PhaseEnds \/ AnotherSave \/ Exit \/ Killed \/ ReleaseForced
         \/ Recovered \/ Preflight \/ UNCHANGED vars
         \/ \E forced \in BOOLEAN : Resume(forced)
         \/ \E l \in Labels : Recover(l)
  PROVE  Bookkept
<1>1. Typed /\ TypeOK /\ Settled
  BY BooksTypes DEF IInv, Books
<1>2. Known(mem) = Known(mem) + 0 /\ actual = actual + 0 /\ 0 \in Nat
  BY <1>1 DEF Typed
<1>3. CASE PhaseEnds \/ AnotherSave \/ UNCHANGED vars
  <2>1. UNCHANGED <<mem, turn, pc, actual>> /\ disk' \in {disk, mem'}
    BY <1>3 DEF PhaseEnds, AnotherSave, Saved, bounds, vars
  <2>2. ending => ending'
    BY <1>3, <1>1 DEF PhaseEnds, AnotherSave, vars, TypeOK
  <2>3. Settled'
    BY <1>1, <2>1, <2>2 DEF Settled, Running
  <2>4. pc = "release" => pc' = "release" \/ disk' = mem'
    BY <2>1
  <2> QED BY <1>2, <2>1, <2>3, <2>4, StillBooks
<1>4. CASE Recovered
  <2>1. UNCHANGED <<mem, disk, turn, actual>> /\ pc = "recover" /\ Entries = {}
    BY <1>4 DEF Recovered
  <2>2. Settled'
    BY <2>1 DEF Settled, Entries, Absent
  <2> QED BY <1>2, <2>1, <2>2, StillBooks
<1>5. ASSUME NEW forced \in BOOLEAN, Resume(forced) PROVE Bookkept
  <2>1. /\ UNCHANGED <<mem, disk, turn, actual>> /\ pc = "off"
        /\ pc' \in {"release", "recover"}
    BY <1>5 DEF Resume
  <2>2. Settled'
    BY <2>1 DEF Settled
  <2> QED BY <1>2, <2>1, <2>2, StillBooks
<1>6. CASE Preflight
  <2>1. PICK n \in 0..1 :
          /\ mem' = [mem EXCEPT !.used = @ + n] /\ disk' \in {disk, mem'}
          /\ actual' = actual + n
    BY <1>6 DEF Preflight, Saved, Unsaved
  <2>2. pc = "preflight" /\ turn' = turn
    BY <1>6 DEF Preflight
  <2>3. mem'.list = mem.list /\ Known(mem') = Known(mem) + n /\ n \in Nat
    BY <1>1, <2>1 DEF TypeOK, Ledgers, Known
  <2>4. Settled'
    BY <1>1, <2>2, <2>3 DEF Settled, Running
  <2> QED BY <2>1, <2>2, <2>3, <2>4, StillBooks
<1> QED BY <1>3, <1>4, <1>5, <1>6, BeatBooks, EndBooks, ReleaseBooks, RecoverBooks

LEMMA StepBooks == IInv /\ Books /\ [Next]_vars => Bookkept
<1> SUFFICES ASSUME IInv, Books, [Next]_vars PROVE Bookkept
  OBVIOUS
<1>1. TypeOK'
  BY StepIInv DEF IInv
<1>2. \A l \in Work : l \in Labels
  BY DEF Labels
<1>3. Compact \in Labels
  BY DEF Labels
<1>4. ASSUME NEW l \in Work, BeginWork(l) PROVE Bookkept
  BY <1>1, <1>2, <1>4, StartBooks
<1>5. CASE BeginCompact
  BY <1>1, <1>3, <1>5, StartBooks
<1>6. ASSUME NEW l \in Labels, Line(l) \/ ChildEnds(l) PROVE Bookkept
  BY <1>1, <1>6, LineBooks, ChildEndsBooks
<1>7. ASSUME NEW l \in Work,
             ChargeOk(l) \/ ChargeAndRetry(l) \/ ChargeAndThrow(l) \/ WaitCancelled(l)
      PROVE  Bookkept
  BY <1>1, <1>7, WorkBooks
<1>8. CASE CompactOk \/ CompactFailed
  BY <1>1, <1>8, RotationBooks
<1> QED BY <1>1, <1>4, <1>5, <1>6, <1>7, <1>8, ProcessBooks DEF Next

LEMMA InitBooks == Init => Books
<1> SUFFICES ASSUME Init PROVE Books
  OBVIOUS
<1>1. TypeOK /\ Typed
  BY InitIInv, BooksTypes DEF IInv
<1>2. /\ Known(mem) = 0 /\ actual = 0 /\ pc = "preflight" /\ disk = mem
      /\ \A l \in Labels : mem.list[l] = Absent /\ ~Running(l)
  BY DEF Init, Running, NoTurn, Known
<1>3. Claims = mem.list
  BY <1>1, <1>2, OverClaims
<1>4. Count(mem.list) = 0
  <2>1. Tokens(mem.list) = {}
    <3>1. ASSUME NEW t \in Tokens(mem.list) PROVE FALSE
      <4>1. t \in Labels \X (1..MaxSpend) /\ t[2] <= mem.list[t[1]]
        BY DEF Tokens
      <4>2. t[1] \in Labels /\ t[2] >= 1 /\ t[2] \in Int
        BY <4>1
      <4> QED BY <1>2, <4>1, <4>2 DEF Absent
    <3> QED BY <3>1
  <2> QED BY <2>1, FS_EmptySet DEF Count
<1>5. Figures /\ Settled
  BY <1>2 DEF Figures, Settled, Absent
<1> QED BY <1>2, <1>3, <1>4, <1>5 DEF Books, Accounts

\* The books are kept in every state a run reaches.
THEOREM BooksAreKept == Spec => []Books
<1>1. Init => IInv /\ Books
  BY InitIInv, InitBooks
<1>2. IInv /\ Books /\ [Next]_vars => IInv' /\ Books'
  BY StepIInv, StepBooks DEF Bookkept
<1> QED BY <1>1, <1>2, PTL DEF Spec

\* Nothing is charged twice: in the process and in the file, the total and
\* what a recovery would add to it stay within what the attempts spent.
THEOREM NoTokenIsChargedTwice == Spec => []NothingChargedTwice
<1>1. TypeOK /\ Books => NothingChargedTwice
  <2> SUFFICES ASSUME TypeOK, Books PROVE NothingChargedTwice
    OBVIOUS
  <2>1. Typed /\ Accounts(mem) <= Known(mem) + Count(Claims)
    BY BooksTypes, ClaimsCover DEF Books
  <2>2. Accounts(mem) <= actual /\ Accounts(disk) <= actual
    BY <2>1 DEF Books, Typed
  <2>3. /\ mem.used \in Nat /\ mem.noted \in Nat /\ disk.used \in Nat /\ disk.noted \in Nat
        /\ Count(mem.list) \in Nat /\ Count(disk.list) \in Nat
    BY <2>1, CountType DEF TypeOK, Ledgers, Typed
  <2> QED BY <2>1, <2>2, <2>3 DEF NothingChargedTwice, Accounts, Known, Count, InFlight, Typed
<1> QED BY <1>1, TypeCorrect, BooksAreKept, PTL

\* No step but a forced release makes state.json account for less.
THEOREM NoFigureIsLost == Spec => NothingObservedIsLost
<1>1. IInv /\ Books /\ [Next]_vars
        => [disk'.used + InFlight(disk') + disk'.noted >= disk.used + InFlight(disk) + disk.noted
            \/ pc = "release"]_vars
  <2> SUFFICES ASSUME IInv, Books, [Next]_vars
               PROVE  \/ disk'.used + InFlight(disk') + disk'.noted
                           >= disk.used + InFlight(disk) + disk.noted
                      \/ pc = "release"
    OBVIOUS
  <2>1. pc # "release" => Accounts(disk') >= Accounts(disk)
    BY StepBooks DEF Bookkept
  <2>2. TypeOK /\ TypeOK'
    BY StepIInv DEF IInv
  <2>3. Count(disk.list) \in Nat /\ Count(disk'.list) \in Nat
    BY <2>2, CountType DEF TypeOK, Ledgers, Lists
  <2>4. /\ disk.used \in Nat /\ disk'.used \in Nat
        /\ disk.noted \in Nat /\ disk'.noted \in Nat
    BY <2>2 DEF TypeOK, Ledgers
  <2> QED BY <2>1, <2>3, <2>4 DEF Accounts, Known, Count, InFlight
<1>2. Spec => []IInv
  BY InitIInv, StepIInv, PTL DEF Spec
<1> QED BY <1>1, <1>2, BooksAreKept, PTL DEF Spec, NothingObservedIsLost

=============================================================================

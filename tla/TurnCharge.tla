------------------------------ MODULE TurnCharge -------------------------------
(***************************************************************************)
(* What a run's turns spend and what state.json says they spent: the list  *)
(* of turns in flight that the heartbeat keeps (progress.ts, markActivity),*)
(* the charge that ends each entry (charge.ts), the session rotation that  *)
(* may run beside a turn (context.ts), and the recovery of what a killed   *)
(* process left behind (cli.ts).                                           *)
(*                                                                         *)
(* `mem` is the process's RunState and `disk` the state.json a save makes  *)
(* of it, atomically; a save may fail.  Node runs one callback at a time,  *)
(* so a step is what one callback does between two awaits, and a kill      *)
(* comes between any two steps.                                            *)
(***************************************************************************)
EXTENDS Integers, FiniteSets, FiniteSetsExt

CONSTANTS
  Work,         \* labels of the dispatched turns
  Claude,       \* those of them that Claude holds; Codex holds the others
  Ceiling,      \* budget.maxTokens, in force
  MaxSpend,     \* bound: tokens one attempt may spend
  MaxAttempts,  \* bound: attempts over the run's life
  MaxResumes,   \* bound: times the run is resumed
  MaxFaults     \* bound: saves that fail

Compact == "compact"   \* the label of the rotation's handoff turn

ASSUME ChargeAssumption ==
  /\ Work \subseteq STRING /\ IsFiniteSet(Work) /\ Compact \notin Work
  /\ Claude \subseteq Work
  /\ {Ceiling, MaxSpend} \subseteq Nat \ {0}
  /\ {MaxAttempts, MaxResumes, MaxFaults} \subseteq Nat

VARIABLES
  mem,       \* RunState in the process: [used, list, noted]
  disk,      \* state.json: the same
  pc,        \* off, release, recover, preflight or run
  turn,      \* each label's attempt
  rotation,  \* the phase's session rotation
  ending,    \* an error is on its way to execute; no turn starts any more
  cancel,    \* the guard's requestCancel
  attempts, resumes, faults,   \* counted against their bounds
  actual,    \* (history) tokens every attempt really spent
  deferred   \* (history) this process was left over the ceiling on purpose

vars == <<mem, disk, pc, turn, rotation, ending, cancel,
          attempts, resumes, faults, actual, deferred>>
bounds == <<attempts, resumes>>

Labels == Work \cup {Compact}

\* Labels whose stream says what it spends while it spends it.
Streaming == Claude \cup {Compact}

\* No entry in the list; an entry without a figure is 0.
Absent == -1

NoTurn == [at |-> "idle", spent |-> 0, seen |-> 0, told |-> 0, cut |-> FALSE]

Ends == {"ok", "limited", "cutoff", "failed", "cancelled"}

Live    == {l \in Labels : turn[l].at = "live"}
Busy    == {l \in Labels : turn[l].at # "idle"}
Entries == {l \in Labels : mem.list[l] # Absent}

Over(m) == m.used > Ceiling

\* What a list entry is worth to recovery.
Amount(m, l) == IF m.list[l] > 0 THEN m.list[l] ELSE 0

\* The tokens a list has figures for, one element each.
Tokens(list) == {t \in Labels \X (1..MaxSpend) : t[2] <= list[t[1]]}

InFlight(m) == Cardinality(Tokens(m.list))

Init ==
  /\ mem = [used |-> 0, list |-> [l \in Labels |-> Absent], noted |-> 0]
  /\ disk = mem
  /\ pc = "preflight"
  /\ turn = [l \in Labels |-> NoTurn]
  /\ rotation = "none"
  /\ ending = FALSE /\ cancel = FALSE
  /\ attempts = 0 /\ resumes = 0 /\ faults = 0
  /\ actual = 0 /\ deferred = FALSE

-----------------------------------------------------------------------------
(***************************************************************************)
(* The ledger.                                                             *)
(***************************************************************************)

\* saveState, and a save that throws.
Saved(m) == mem' = m /\ disk' = m /\ UNCHANGED faults
Unsaved(m) ==
  /\ faults < MaxFaults
  /\ faults' = faults + 1
  /\ mem' = m
  /\ UNCHANGED disk

\* A save whose failure the caller swallows.
Noted(m) == Saved(m) \/ Unsaved(m)

\* mergeInFlight: the figure replaces the entry's, and removes nothing.
Merged(m, t, ls) ==
  [m EXCEPT !.list = [l \in Labels |-> IF l \in ls THEN t[l].seen ELSE @[l]]]

\* (wrong: the entry outlives the charge that paid for it)
TakeInFlightKept(m, l) == m

TakeInFlight(m, l) == [m EXCEPT !.list[l] = Absent]

\* applyCharge: what was observed beyond the charge goes into the charge's event
\* (observedTokens), not into the total.
Charged(m, l, n) ==
  [used  |-> m.used + n,
   list  |-> TakeInFlight(m, l).list,
   noted |-> m.noted + (IF m.list[l] > n THEN m.list[l] - n ELSE 0)]

\* (wrong: the provider's figure alone)
FailedCostReported(l) == turn[l].told

\* What chargeFailure charges: the larger of the two figures, never their sum.
FailedCost(l) ==
  IF mem.list[l] > turn[l].told THEN mem.list[l] ELSE turn[l].told

\* It takes the entry before applyCharge could compare the two.
FailureCharged(l) == Charged(TakeInFlight(mem, l), l, FailedCost(l))

Ended(l) == turn' = [turn EXCEPT ![l] = NoTurn]

-----------------------------------------------------------------------------
(***************************************************************************)
(* A turn: begin, the lines of its child, the heartbeat, the child's end.  *)
(***************************************************************************)

MayStart == pc = "run" /\ ~ending /\ ~cancel /\ attempts < MaxAttempts

\* begin: the 'start' notification writes the list at once.
Start(l) ==
  /\ turn' = [turn EXCEPT ![l] = [NoTurn EXCEPT !.at = "live", !.cut = turn[l].cut]]
  /\ Noted(Merged(mem, turn', Live \cup {l}))
  /\ attempts' = attempts + 1
  /\ UNCHANGED <<pc, ending, cancel, resumes, actual, deferred>>

\* A dispatched turn, or its retry after a rate limit or a cut-off.
BeginWork(l) ==
  /\ MayStart
  /\ turn[l].at \in {"idle", "waiting"}
  /\ rotation # "alone"
  /\ Start(l)
  /\ UNCHANGED rotation

\* rotateSession: once in a phase, beside the turns or before any of them.
BeginCompact ==
  /\ MayStart
  /\ rotation = "none"
  /\ Start(Compact)
  /\ rotation' = IF Busy = {} THEN "alone" ELSE "beside"

\* onLine: the child spent; its first figure is written at once, the others
\* when the throttle allows.
Line(l) ==
  \E s \in (turn[l].spent + 1)..MaxSpend :
  \E f \in {turn[l].seen} \cup (IF l \in Streaming THEN {s} ELSE {}) :
    /\ turn[l].at = "live"
    /\ turn' = [turn EXCEPT ![l].spent = s, ![l].seen = f]
    /\ actual' = actual + (s - turn[l].spent)
    /\ \/ Noted(Merged(mem, turn', Live))
       \/ /\ f = 0 \/ turn[l].seen > 0
          /\ UNCHANGED <<mem, disk, faults>>
    /\ UNCHANGED <<pc, rotation, ending, cancel, bounds, deferred>>

\* The timer: guardTurnSpend adds the live turns' figures to the total.
Beat ==
  /\ Live # {}
  /\ cancel' = (cancel \/ mem.used + MapThenSumSet(LAMBDA l : turn[l].seen, Live) >= Ceiling)
  /\ Noted(Merged(mem, turn, Live)) \/ UNCHANGED <<mem, disk, faults>>
  /\ UNCHANGED <<pc, turn, rotation, ending, bounds, actual, deferred>>

HowItMayEnd(l) ==
  {"ok", "failed"} \cup (IF ending \/ cancel THEN {"cancelled"} ELSE {})
                   \cup (IF l \in Work THEN {"limited"} ELSE {})
                   \cup (IF l \in Work \ Claude THEN {"cutoff"} ELSE {})

\* withHeartbeat's catch and finally: the last figure is merged before the
\* charge looks for it.  The provider's figure, of a turn that completed or of
\* an error, may be less than the turn spent or the stream has shown.
ChildEnds(l) ==
  \E how \in HowItMayEnd(l), told \in 0..turn[l].spent :
    /\ turn[l].at = "live"
    /\ turn' = [turn EXCEPT ![l].at = how, ![l].told = told]
    /\ Noted(Merged(mem, turn, Live))
    /\ UNCHANGED <<pc, rotation, ending, cancel, bounds, actual, deferred>>

-----------------------------------------------------------------------------
(***************************************************************************)
(* The charge of a dispatched turn.  A seat may absorb an error that is    *)
(* neither an escalation nor a stop, after asking the ceilings again.      *)
(***************************************************************************)

Kept == UNCHANGED <<pc, cancel, bounds, actual>>

\* applyCharge throws what its save throws; a Codex turn with a new thread
\* saves once more before it is charged.
ChargeOk(l) ==
  \E absorbed \in BOOLEAN :
  LET m == Charged(mem, l, turn[l].told)
  IN /\ turn[l].at = "ok"
     /\ \/ Saved(m) /\ ending' = (ending \/ Over(m))
        \/ Unsaved(m) /\ ending' = (ending \/ Over(m) \/ ~absorbed)
        \/ /\ l \notin Claude
           /\ Unsaved(mem)
           /\ ending' = (ending \/ Over(mem) \/ ~absorbed)
     /\ Ended(l)
     /\ Kept /\ UNCHANGED <<rotation, deferred>>

\* (wrong: the retry is made without asking the ceilings)
RetriesUnasked(l) ==
  \/ turn[l].at = "limited"
  \/ turn[l].at = "cutoff" /\ ~turn[l].cut

\* withRateLimitRetry and cutOffRetry: what is tried again, and how often.
Retries(l) ==
  /\ ~Over(FailureCharged(l))
  /\ \/ turn[l].at = "limited"
     \/ turn[l].at = "cutoff" /\ ~turn[l].cut

\* chargeFailure, then a wait or a retry: the ceiling it returns is dropped
\* and asked for again.
ChargeAndRetry(l) ==
  /\ Retries(l)
  /\ Noted(FailureCharged(l))
  /\ turn' = [turn EXCEPT ![l] =
       [NoTurn EXCEPT !.at = "waiting", !.cut = turn[l].cut \/ turn[l].at = "cutoff"]]
  /\ Kept /\ UNCHANGED <<rotation, ending, deferred>>

\* Only an error that is neither an escalation nor a stop can be absorbed.
MayAbsorb(l) ==
  \/ turn[l].at = "failed"
  \/ turn[l].at = "cutoff" /\ turn[l].cut

ChargeAndThrow(l) ==
  \E absorbed \in BOOLEAN :
    /\ turn[l].at \in Ends \ {"ok"}
    /\ turn[l].at = "cutoff" => ~Retries(l)
    /\ absorbed => MayAbsorb(l)
    /\ Noted(FailureCharged(l))
    /\ ending' = (ending \/ Over(FailureCharged(l)) \/ ~absorbed)
    /\ Ended(l)
    /\ Kept /\ UNCHANGED <<rotation, deferred>>

\* sleepUnlessCancelled wakes early, and a child asked for after a stop is
\* refused: either way Cancelled.
WaitCancelled(l) ==
  /\ turn[l].at = "waiting"
  /\ ending \/ cancel
  /\ ending' = TRUE
  /\ Ended(l)
  /\ Kept /\ UNCHANGED <<mem, disk, faults, rotation, deferred>>

-----------------------------------------------------------------------------
(***************************************************************************)
(* The charge of a rotation.  Alone, what it throws ends the run.  Beside  *)
(* a turn, a ceiling is held until that turn is over and any other error   *)
(* is swallowed.                                                           *)
(***************************************************************************)

\* The rotation throws a ceiling, throws something else, or returns.
Raises(what) ==
  /\ Ended(Compact)
  /\ rotation' = CASE rotation = "alone"     -> "none"
                   [] what = "ceiling"       -> "held"
                   [] OTHER                  -> "done"
  /\ ending' = (ending \/ (rotation = "alone" /\ what # "nothing"))
  /\ deferred' = (deferred \/ (rotation = "beside" /\ Over(mem')))
  /\ Kept

CeilingOf(m) == IF Over(m) THEN "ceiling" ELSE "nothing"

CompactOk ==
  LET m == Charged(mem, Compact, turn[Compact].told)
  IN /\ turn[Compact].at = "ok"
     /\ \/ Saved(m) /\ Raises(CeilingOf(m))
        \/ Unsaved(m) /\ Raises("error")

\* A rotation on a measured overflow drops the ceiling and throws the error;
\* one on a conversation nothing has measured rotates anyway and holds it.
CompactFailed ==
  /\ turn[Compact].at \in {"failed", "cancelled"}
  /\ \/ Noted(FailureCharged(Compact)) /\ Raises("error")
     \/ Saved(FailureCharged(Compact)) /\ Raises(CeilingOf(mem'))

\* withConcurrentCompaction returns: a ceiling that was held is thrown.
PhaseEnds ==
  /\ pc = "run" /\ Busy = {} /\ rotation \in {"done", "held"}
  /\ rotation' = "none"
  /\ ending' = (ending \/ rotation = "held")
  /\ UNCHANGED <<mem, disk, pc, turn, cancel, bounds, faults, actual, deferred>>

-----------------------------------------------------------------------------
(***************************************************************************)
(* The process: its other saves, its end, and what the next one does with  *)
(* the list it finds.                                                      *)
(***************************************************************************)

\* Everything else that saves the run.
AnotherSave ==
  /\ pc = "run" /\ mem # disk
  /\ Saved(mem)
  /\ UNCHANGED <<pc, turn, rotation, ending, cancel, bounds, actual, deferred>>

ProcessOver ==
  /\ pc' = "off"
  /\ mem' = disk'
  /\ turn' = [l \in Labels |-> NoTurn]
  /\ rotation' = "none"
  /\ ending' = FALSE /\ cancel' = FALSE
  /\ deferred' = FALSE

\* execute returns, or catches an error and records it.
Exit ==
  /\ pc = "run" \/ ending
  /\ Busy = {} /\ rotation = "none"
  /\ \/ disk' = mem /\ UNCHANGED faults
     \/ faults < MaxFaults /\ faults' = faults + 1 /\ UNCHANGED disk
  /\ ProcessOver
  /\ UNCHANGED <<bounds, actual>>

Killed ==
  /\ pc # "off"
  /\ UNCHANGED <<disk, faults, bounds, actual>>
  /\ ProcessOver

\* vibe resume, which reads state.json; --force may have overridden a live
\* lock, and then nothing the list holds may be charged.
Resume(forced) ==
  /\ pc = "off" /\ resumes < MaxResumes
  /\ resumes' = resumes + 1
  /\ pc' = IF forced THEN "release" ELSE "recover"
  /\ deferred' = Over(disk)
  /\ UNCHANGED <<mem, disk, turn, rotation, ending, cancel, attempts, faults, actual>>

\* releaseForced: the list is cleared and nothing is charged.
ReleaseForced ==
  LET m == [mem EXCEPT !.list = [l \in Labels |-> Absent]]
  IN /\ pc = "release" /\ ~ending
     /\ \/ Saved(m) /\ pc' = "preflight" /\ UNCHANGED ending
        \/ Entries # {} /\ Unsaved(m) /\ ending' = TRUE /\ UNCHANGED pc
     /\ UNCHANGED <<turn, rotation, cancel, bounds, actual, deferred>>

\* recoverInterrupted, one entry: a figure is charged as what was observed,
\* an entry without one is dropped.  A ceiling or a failed save ends the walk.
Recover(l) ==
  LET m == Charged(mem, l, Amount(mem, l))
      stop == Over(m) /\ Amount(mem, l) > 0
  IN /\ pc = "recover" /\ l \in Entries
     /\ \/ Saved(m) /\ ending' = stop
        \/ Unsaved(m) /\ ending' = TRUE
     /\ pc' = IF ending' THEN "run" ELSE "recover"
     /\ UNCHANGED <<turn, rotation, cancel, bounds, actual, deferred>>

Recovered ==
  /\ pc = "recover" /\ Entries = {}
  /\ pc' = "preflight"
  /\ UNCHANGED <<mem, disk, turn, rotation, ending, cancel, bounds, faults, actual, deferred>>

\* The preflight probes, skipped or charged; both are charged before a
\* ceiling is thrown.
Preflight ==
  \E n \in 0..1 :
  LET m == [mem EXCEPT !.used = @ + n]
  IN /\ pc = "preflight"
     /\ \/ Saved(m) /\ ending' = (n > 0 /\ Over(m))
        \/ n > 0 /\ Unsaved(m) /\ ending' = TRUE
     /\ pc' = "run"
     /\ actual' = actual + n
     /\ UNCHANGED <<turn, rotation, cancel, bounds, deferred>>

Next ==
  \/ \E l \in Work : \/ BeginWork(l) \/ ChargeOk(l) \/ ChargeAndRetry(l)
                     \/ ChargeAndThrow(l) \/ WaitCancelled(l)
  \/ \E l \in Labels : Line(l) \/ ChildEnds(l) \/ Recover(l)
  \/ BeginCompact \/ CompactOk \/ CompactFailed
  \/ Beat \/ PhaseEnds \/ AnotherSave \/ Exit \/ Killed
  \/ \E forced \in BOOLEAN : Resume(forced)
  \/ ReleaseForced \/ Recovered \/ Preflight

Spec == Init /\ [][Next]_vars

-----------------------------------------------------------------------------
(***************************************************************************)
(* Properties.                                                             *)
(***************************************************************************)

Ledgers == [used : Nat, list : [Labels -> {Absent} \cup (0..MaxSpend)], noted : Nat]

Attempt == [at : {"idle", "live", "waiting"} \cup Ends,
            spent : 0..MaxSpend, seen : 0..MaxSpend, told : 0..MaxSpend,
            cut : BOOLEAN]

\* Types; a child runs only in a process, and a rotation that is not beside a
\* phase's turns runs before any of them.
TypeOK ==
  /\ mem \in Ledgers /\ disk \in Ledgers
  /\ pc \in {"off", "release", "recover", "preflight", "run"}
  /\ turn \in [Labels -> Attempt]
  /\ rotation \in {"none", "alone", "beside", "done", "held"}
  /\ ending \in BOOLEAN /\ cancel \in BOOLEAN /\ deferred \in BOOLEAN
  /\ {attempts, resumes, faults, actual} \subseteq Nat
  /\ pc # "run" => Busy = {} /\ rotation = "none"
  /\ rotation = "alone" => Busy = {Compact}

\* No token is accounted for twice: the total, what a recovery would still add
\* to it and what was observed and not charged never exceed, together, what the
\* attempts really spent - in the process and in the file a kill leaves, whatever
\* saves fail, however a turn and the rotation beside it interleave, and however
\* often the run is resumed (charge.ts, takeInFlight and applyCharge; cli.ts,
\* recoverInterrupted).
NothingChargedTwice ==
  \A m \in {mem, disk} : m.used + InFlight(m) + m.noted <= actual

\* What state.json accounts for never shrinks: a token it has recorded as
\* observed is in flight, charged, or, when a completed turn reports fewer, in
\* the event of its charge ("recorded the difference", charge.ts:332), across
\* retries, failed saves, kills and recovery.  A forced release is the one
\* exception (charge.ts, chargeFailure's larger of two figures and applyCharge;
\* run.ts, mergeInFlight).
NothingObservedIsLost ==
  [][disk'.used + InFlight(disk') + disk'.noted >= disk.used + InFlight(disk) + disk.noted
     \/ pc = "release"]_vars

\* A turn is started over the ceiling only where the code means it: the run
\* was resumed over it, or a rotation beside a turn took it there and the
\* charge of that turn is to raise it.  In every other order of charges,
\* failed saves, retries and absorbed failures, the run stops first
\* (charge.ts, enforceCeilings; orchestrator.ts, withRateLimitRetry and
\* cutOffRetry; context.ts, withConcurrentCompaction).
NoTurnOverTheCeiling ==
  [][\A l \in Labels :
       turn[l].at # "live" /\ turn'[l].at = "live" /\ Over(mem) => deferred]_vars

=============================================================================

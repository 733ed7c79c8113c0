------------------------------- MODULE SeatGroup -------------------------------
(***************************************************************************)
(* One seat group: the seat turns of one review or critique round, at most *)
(* Limit of them at once, and the two stops that can reach them - the      *)
(* group's own, pulled by the first turn to fail, and the run's latch,     *)
(* pulled by a person (seat-group.ts, cancel.ts, proc.ts).                 *)
(*                                                                         *)
(* Node runs one callback at a time, so a step here is what one callback   *)
(* does between two awaits.  A task is one seat's chain of turns: it       *)
(* spawns a child, waits for it, may sleep out a rate limit, and settles.  *)
(***************************************************************************)
EXTENDS Integers, FiniteSets

CONSTANTS
  NumTasks,   \* seats in the round: tasks.length
  Limit,      \* review.maxParallel or critique.maxParallel
  MaxTurns    \* bound: children one seat may start (its parts and retries)

ASSUME GroupAssumption ==
  /\ NumTasks \in Nat
  /\ Limit \in Nat \ {0}
  /\ MaxTurns \in Nat \ {0}

VARIABLES
  reason,       \* the run's latch: has requestCancel been called?
  groupReason,  \* TurnGroup.reason: has stopTurnGroup been called?
  kills,        \* tasks with a registered child to kill
  wakes,        \* tasks with a registered rate-limit sleep to wake
  turn,         \* where each task's chain of awaits stands
  result,       \* what the awaited child or sleep gave the task
  turns,        \* children the task has started (bounded by MaxTurns)
  worker,       \* each worker: at its loop test, running a task, or returned
  next,         \* the next task to take
  running,      \* the counter the budget message quotes
  failure,      \* the first failure and how many turns were live at it
  ended         \* what the group's promise settled with

vars == <<reason, groupReason, kills, wakes, turn, result, turns,
          worker, next, running, failure, ended>>

Tasks == 1..NumTasks

Workers == 1..(IF Limit < NumTasks THEN Limit ELSE NumTasks)

NoFailure == [task |-> 0, live |-> 0]

\* The ways a child's promise can settle, and what a rejected task reports.
ChildResults == {"ok", "limited", "error", "escalation", "budget"}
Rejections   == {"cancelled", "escalation", "budget"}
Results      == ChildResults \cup Rejections \cup {"none", "absorbed"}

TurnStates == {"queued", "between", "child", "waiting", "exited", "settled"}

InFlight == {t \in Tasks : turn[t] \notin {"queued", "settled"}}

StoppedByLatchOnly == reason

\* stopReason(): the latch first, then the group this turn runs in.
Stopped == reason \/ groupReason

-----------------------------------------------------------------------------

Init ==
  /\ reason \in BOOLEAN
  /\ groupReason = FALSE
  /\ kills = {} /\ wakes = {}
  /\ turn = [t \in Tasks |-> "queued"]
  /\ result = [t \in Tasks |-> "none"]
  /\ turns = [t \in Tasks |-> 0]
  /\ worker = [w \in Workers |-> 0]
  /\ next = 1 /\ running = 0
  /\ failure = NoFailure
  /\ ended = "pending"

\* worker[w]: 0 is the loop's test, a task is the await, NumTasks + 1 returned.
Returned == NumTasks + 1

\* The loop's body up to its await: the task begins in the same callback.
TakeTask(w) ==
  /\ worker[w] = 0
  /\ failure = NoFailure /\ next <= NumTasks
  /\ worker' = [worker EXCEPT ![w] = next]
  /\ turn' = [turn EXCEPT ![next] = "between"]
  /\ next' = next + 1
  /\ running' = running + 1
  /\ UNCHANGED <<reason, groupReason, kills, wakes, result, turns, failure, ended>>

\* The loop's test fails: a group that has failed starts nothing more.
LeaveLoop(w) ==
  /\ worker[w] = 0
  /\ failure # NoFailure \/ next > NumTasks
  /\ worker' = [worker EXCEPT ![w] = Returned]
  /\ UNCHANGED <<reason, groupReason, kills, wakes, turn, result, turns,
                 next, running, failure, ended>>

\* A refusal that returns without rejecting the promise.
StartTurnRefusedSilently(t) ==
  /\ turn[t] = "between" /\ ~Stopped /\ turns[t] < MaxTurns
  /\ turn' = [turn EXCEPT ![t] = "child"]
  /\ turns' = [turns EXCEPT ![t] = @ + 1]
  /\ kills' = kills \cup {t}
  /\ UNCHANGED <<reason, groupReason, wakes, result, worker, next, running, failure, ended>>

\* proc.run: the refusal and the registration are one callback.
StartTurn(t) ==
  /\ turn[t] = "between"
  /\ UNCHANGED <<reason, groupReason, wakes, worker, next, running, failure, ended>>
  /\ IF Stopped
       THEN /\ turn' = [turn EXCEPT ![t] = "exited"]
            /\ result' = [result EXCEPT ![t] = "cancelled"]
            /\ UNCHANGED <<kills, turns>>
       ELSE /\ turns[t] < MaxTurns
            /\ turn' = [turn EXCEPT ![t] = "child"]
            /\ turns' = [turns EXCEPT ![t] = @ + 1]
            /\ kills' = kills \cup {t}
            /\ UNCHANGED result

\* The child ends by itself, however it ends, and unregisters.
ChildExits(t, r) ==
  /\ turn[t] = "child"
  /\ turn' = [turn EXCEPT ![t] = "exited"]
  /\ result' = [result EXCEPT ![t] = r]
  /\ kills' = kills \ {t}
  /\ UNCHANGED <<reason, groupReason, wakes, turns, worker, next, running, failure, ended>>

\* A part that answered, with another part of the seat's brief to run.
NextPart(t) ==
  /\ turn[t] = "exited" /\ result[t] = "ok" /\ turns[t] < MaxTurns
  /\ turn' = [turn EXCEPT ![t] = "between"]
  /\ UNCHANGED <<reason, groupReason, kills, wakes, result, turns, worker,
                 next, running, failure, ended>>

\* withRateLimitRetry: sleep out the limit unless a stop already arrived.
SleepOutLimit(t) ==
  /\ turn[t] = "exited" /\ result[t] = "limited" /\ turns[t] < MaxTurns
  /\ UNCHANGED <<reason, groupReason, kills, turns, worker, next, running, failure, ended>>
  /\ IF Stopped
       THEN /\ result' = [result EXCEPT ![t] = "cancelled"]
            /\ UNCHANGED <<turn, wakes>>
       ELSE /\ turn' = [turn EXCEPT ![t] = "waiting"]
            /\ wakes' = wakes \cup {t}
            /\ UNCHANGED result

\* The rate limit's timer fires: the turn is asked again.
TimerFires(t) ==
  /\ turn[t] = "waiting"
  /\ turn' = [turn EXCEPT ![t] = "between"]
  /\ wakes' = wakes \ {t}
  /\ UNCHANGED <<reason, groupReason, kills, result, turns, worker, next,
                 running, failure, ended>>

-----------------------------------------------------------------------------

\* Task t (or nobody, 0) settles as r, and the promises of the stopped tasks
\* are settled for them: a kill rejects with Cancelled, a wake resolves the
\* sleep with false, and both unregister on the way.
SettleAndStop(t, r, stopped) ==
  /\ turn' = [u \in Tasks |-> IF u = t THEN "settled"
                ELSE IF u \in stopped THEN "exited" ELSE turn[u]]
  /\ result' = [u \in Tasks |-> IF u = t THEN r
                ELSE IF u \in stopped THEN "cancelled" ELSE result[u]]
  /\ kills' = kills \ stopped
  /\ wakes' = wakes \ stopped

\* requestCancel: the latch, then every child, then every sleep.
RequestCancel ==
  /\ ended = "pending"
  /\ reason' = TRUE
  /\ SettleAndStop(0, "none", kills \cup wakes)
  /\ UNCHANGED <<groupReason, turns, worker, next, running, failure, ended>>

\* The task's promise as runFinderSeats leaves it: an Escalation or a Cancelled
\* is rethrown, any other failure is absorbed unless a ceiling was crossed.
Settlements(t) ==
  CASE result[t] = "ok"      -> {"ok"}
    [] result[t] = "limited" -> {"escalation", "budget"}
    [] result[t] = "error"   -> {"absorbed", "budget"}
    [] OTHER                 -> {result[t]}

LatestFailure(t) == [task |-> t, live |-> running]

\* The catch keeps the first failure, and counts its own turn as live.
FailureCaught(t) ==
  IF failure = NoFailure THEN [task |-> t, live |-> running] ELSE failure

\* The worker's await, its catch and its finally.  The first rejection stops
\* the group; what a stopped sibling reports afterwards stops nothing more.
TaskSettles(w, r) ==
  LET t == worker[w] IN
  /\ t \in Tasks /\ turn[t] = "exited" /\ r \in Settlements(t)
  /\ worker' = [worker EXCEPT ![w] = 0]
  /\ running' = running - 1
  /\ UNCHANGED <<reason, turns, next, ended>>
  /\ \/ /\ r \notin Rejections
        /\ SettleAndStop(t, r, {})
        /\ UNCHANGED <<groupReason, failure>>
     \/ /\ r \in Rejections
        /\ SettleAndStop(t, r, IF failure = NoFailure THEN kills \cup wakes ELSE {})
        /\ groupReason' = TRUE
        /\ failure' = FailureCaught(t)

\* What runSeatGroup throws once everybody is back: the first failure.
Outcome == IF failure = NoFailure THEN "ok" ELSE result[failure.task]

FirstRejectionReturns ==
  failure # NoFailure \/ \A w \in Workers : worker[w] = Returned

\* Promise.all over workers that never reject: every sibling has ended.
AllWorkersBack == \A w \in Workers : worker[w] = Returned

GroupReturns ==
  /\ ended = "pending"
  /\ AllWorkersBack
  /\ ended' = Outcome
  /\ UNCHANGED <<reason, groupReason, kills, wakes, turn, result, turns,
                 worker, next, running, failure>>

WorkerStep == \E w \in Workers :
  \/ TakeTask(w)
  \/ LeaveLoop(w)
  \/ \E r \in Results : TaskSettles(w, r)

TurnStep == \E t \in Tasks :
  \/ StartTurn(t)
  \/ \E r \in ChildResults : ChildExits(t, r)
  \/ NextPart(t)
  \/ SleepOutLimit(t)
  \/ TimerFires(t)

Next == WorkerStep \/ TurnStep \/ RequestCancel \/ GroupReturns

\* Callbacks run and timers fire; a child need never end by itself.
Fairness ==
  /\ WF_vars(WorkerStep)
  /\ WF_vars(\E t \in Tasks : StartTurn(t) \/ NextPart(t) \/ SleepOutLimit(t) \/ TimerFires(t))
  /\ WF_vars(GroupReturns)

Spec == Init /\ [][Next]_vars /\ Fairness

-----------------------------------------------------------------------------

TypeOK ==
  /\ reason \in BOOLEAN /\ groupReason \in BOOLEAN
  /\ kills \subseteq Tasks /\ wakes \subseteq Tasks
  /\ turn \in [Tasks -> TurnStates]
  /\ result \in [Tasks -> Results]
  /\ turns \in [Tasks -> 0..MaxTurns]
  /\ worker \in [Workers -> 0..Returned]
  /\ next \in 1..Returned
  /\ running \in 0..Limit
  /\ failure \in [task : 0..NumTasks, live : 0..Limit]
  /\ ended \in {"pending", "ok"} \cup Rejections

\* A stop - the latch's or the group's - reaches every child and every sleep,
\* whatever was being awaited when it came, and nothing is started after it:
\* the refusal in proc.run covers the turn that had no child to kill.
StopReachesEverything ==
  (reason \/ groupReason) => \A t \in Tasks : turn[t] \notin {"child", "waiting"}

\* The group settles only once no sibling is in flight, so nobody charges,
\* records or spawns after the orchestrator has moved on.
NothingOutlivesTheGroup ==
  ended # "pending" => InFlight = {} /\ kills = {} /\ wakes = {}

\* The Cancelled a sibling was stopped with is never the group's outcome: only
\* a person's stop makes the round end as cancelled.  cli.ts maps a Cancelled
\* to "stopped by a person", so a budget stop reported so would be a lie.
CancelledIsAPersons == ended = "cancelled" => reason

\* Only a child that never ends can hold the round open; since a stop leaves
\* no child alive, a stopped round always ends.
OnlyAChildHoldsTheRound == 
  <>(ended # "pending") \/ <>[](\E t \in Tasks : turn[t] = "child")
=============================================================================

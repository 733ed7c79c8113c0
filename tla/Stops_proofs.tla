------------------------------ MODULE Stops_proofs ------------------------------
(***************************************************************************)
(* Proofs about the two ends of a stop: the seat group that it reaches,    *)
(* however many seats and however wide, and the host that is asked for it, *)
(* with the answers and the pauses that come down the same pipe, however   *)
(* many requests are sent and however long the pipe is.                    *)
(***************************************************************************)
EXTENDS SeatGroup, ServeHost, FiniteSetTheorems, TLAPS

-----------------------------------------------------------------------------
(* A seat group.  The invariant that is inductive ties the registries of   *)
(* kills and wakes to the turns, and the first failure to what it stopped. *)

\* TypeOK without the bounds that need counting.
TypeInv ==
  /\ reason \in BOOLEAN /\ groupReason \in BOOLEAN
  /\ kills \subseteq Tasks /\ wakes \subseteq Tasks
  /\ turn \in [Tasks -> TurnStates]
  /\ result \in [Tasks -> Results]
  /\ turns \in [Tasks -> Nat]
  /\ worker \in [Workers -> 0..Returned]
  /\ next \in 1..Returned
  /\ failure \in [task : 0..NumTasks, live : Int]
  /\ running \in Int
  /\ ended \in {"pending", "ok"} \cup Rejections

\* The registries hold exactly the turns that can be killed or woken.
Registered ==
  /\ kills = {t \in Tasks : turn[t] = "child"}
  /\ wakes = {t \in Tasks : turn[t] = "waiting"}

\* The first failure stopped the group when it was caught, and its task has
\* settled as a rejection that is "cancelled" only under the run's latch.
FailureStops ==
  failure # NoFailure =>
    /\ groupReason
    /\ failure.task \in Tasks
    /\ turn[failure.task] = "settled"
    /\ result[failure.task] \in Rejections
    /\ result[failure.task] = "cancelled" => reason

\* Until the group has failed, only the latch can have cancelled a turn.
CancelInv ==
  failure = NoFailure =>
    /\ ~groupReason
    /\ \A t \in Tasks : turn[t] = "exited" /\ result[t] = "cancelled" => reason

\* Tasks are taken in order, so the next one has not begun.
Unstarted == \A t \in Tasks : t >= next => turn[t] = "queued"

\* Whoever is in flight is some worker's await.
Manned == \A t \in InFlight : \E w \in Workers : worker[w] = t

\* Once the promise has settled every worker is back.
EndInv ==
  ended # "pending" =>
    /\ \A w \in Workers : worker[w] = Returned
    /\ ended = "cancelled" => reason

GroupInv ==
  /\ TypeInv
  /\ Registered
  /\ FailureStops
  /\ CancelInv
  /\ StopReachesEverything
  /\ Unstarted
  /\ Manned
  /\ EndInv

LEMMA InitGroup == ASSUME Init PROVE GroupInv
<1> USE GroupAssumption DEF Init
<1>1. TypeInv
  <2>1. 0 \in 0..Returned /\ 1 \in 1..Returned
    BY DEF Returned
  <2>2. NoFailure \in [task : 0..NumTasks, live : Int]
    BY DEF NoFailure
  <2>3. turn \in [Tasks -> TurnStates] /\ result \in [Tasks -> Results]
    BY DEF TurnStates, Results
  <2>4. turns \in [Tasks -> Nat] /\ worker \in [Workers -> 0..Returned]
    BY <2>1
  <2>5. NumTasks \in Nat /\ next \in 1..Returned
    BY <2>1
  <2>6. failure \in [task : 0..NumTasks, live : Int] /\ running \in Int
    BY <2>2
  <2> QED BY <2>3, <2>4, <2>5, <2>6 DEF TypeInv
<1>2. Registered /\ FailureStops /\ CancelInv /\ StopReachesEverything
  BY DEF Registered, FailureStops, CancelInv, StopReachesEverything, Tasks
<1>3. Unstarted /\ Manned /\ EndInv
  BY DEF Unstarted, Manned, EndInv, InFlight
<1> QED BY <1>1, <1>2, <1>3 DEF GroupInv

\* The step of a worker whose task settles, the one that stops the group.
LEMMA SettleStep ==
  ASSUME GroupInv, NEW w \in Workers, NEW r \in Results, TaskSettles(w, r)
  PROVE  GroupInv'
<1> USE GroupAssumption DEF GroupInv
<1> DEFINE t == worker[w]
           S == IF r \in Rejections /\ failure = NoFailure THEN kills \cup wakes ELSE {}
<1>1. /\ t \in Tasks /\ turn[t] = "exited" /\ r \in Settlements(t)
      /\ worker' = [worker EXCEPT ![w] = 0] /\ running' = running - 1
      /\ turns' = turns /\ next' = next /\ ended' = ended /\ reason' = reason
  BY DEF TaskSettles
<1>2. SettleAndStop(t, r, S)
  BY DEF TaskSettles
<1>3. \A u \in S : turn[u] \in {"child", "waiting"}
  BY DEF Registered
<1>4. r \in Rejections => groupReason' = TRUE /\ failure' = FailureCaught(t)
  BY DEF TaskSettles
<1>5. r \notin Rejections => groupReason' = groupReason /\ failure' = failure
  BY DEF TaskSettles
<1>6. r = "cancelled" => r = result[t]
  BY <1>1 DEF Settlements
<1>7. TypeInv'
  <2>1. worker' \in [Workers -> 0..Returned] /\ running' \in Int
    BY <1>1 DEF TypeInv, Returned
  <2>2. turn' \in [Tasks -> TurnStates]
    BY <1>2 DEF SettleAndStop, TypeInv, TurnStates
  <2>3. result' \in [Tasks -> Results]
    BY <1>2 DEF SettleAndStop, TypeInv, Results, Rejections
  <2>4. kills' \subseteq Tasks /\ wakes' \subseteq Tasks
    BY <1>2 DEF SettleAndStop, TypeInv
  <2>5. groupReason' \in BOOLEAN
    BY <1>4, <1>5 DEF TypeInv
  <2>6. failure' \in [task : 0..NumTasks, live : Int]
    BY <1>1, <1>4, <1>5 DEF FailureCaught, TypeInv, Tasks
  <2> QED BY <1>1, <2>1, <2>2, <2>3, <2>4, <2>5, <2>6 DEF TypeInv
<1>8. Registered'
  BY <1>1, <1>2 DEF SettleAndStop, TypeInv, Registered
<1>9. StopReachesEverything'
  <2>1. CASE r \in Rejections /\ failure = NoFailure
    BY <1>2, <2>1 DEF SettleAndStop, TypeInv, Registered, StopReachesEverything
  <2>2. CASE r \in Rejections /\ failure # NoFailure
    BY <1>2, <2>2 DEF SettleAndStop, TypeInv, StopReachesEverything, FailureStops
  <2>3. CASE r \notin Rejections
    BY <1>1, <1>2, <1>5, <2>3 DEF SettleAndStop, TypeInv, StopReachesEverything
  <2> QED BY <2>1, <2>2, <2>3
<1>10. FailureStops'
  <2>1. CASE r \in Rejections /\ failure = NoFailure
    BY <1>1, <1>2, <1>4, <1>6, <2>1
    DEF SettleAndStop, TypeInv, FailureStops, FailureCaught, CancelInv
  <2>2. CASE failure # NoFailure
    <3>1. failure' = failure
      BY <1>4, <1>5, <2>2 DEF FailureCaught
    <3>2. groupReason'
      BY <1>4, <1>5, <2>2 DEF FailureStops
    <3>3. failure.task # t /\ failure.task \notin S
      BY <1>1, <1>3, <2>2 DEF FailureStops
    <3> QED BY <1>1, <1>2, <2>2, <3>1, <3>2, <3>3 DEF SettleAndStop, TypeInv, FailureStops
  <2>3. CASE r \notin Rejections /\ failure = NoFailure
    BY <1>5, <2>3 DEF FailureStops
  <2> QED BY <2>1, <2>2, <2>3
<1>11. CancelInv'
  <2>1. CASE r \in Rejections
    BY <1>1, <1>4, <2>1 DEF CancelInv, FailureCaught, NoFailure, Tasks
  <2>2. CASE r \notin Rejections
    BY <1>1, <1>2, <1>5, <2>2 DEF SettleAndStop, TypeInv, CancelInv
  <2> QED BY <2>1, <2>2
<1>12. Manned'
  BY <1>1, <1>2, <1>3 DEF SettleAndStop, TypeInv, Manned, InFlight
<1>13. EndInv'
  BY <1>1 DEF EndInv, TypeInv, Returned, Tasks
<1>14. Unstarted'
  BY <1>1, <1>2, <1>3 DEF SettleAndStop, TypeInv, Unstarted, Tasks
<1> QED BY <1>7, <1>8, <1>9, <1>10, <1>11, <1>12, <1>13, <1>14

LEMMA CancelStep == ASSUME GroupInv, RequestCancel PROVE GroupInv'
<1> USE GroupAssumption DEF GroupInv
<1>1. /\ SettleAndStop(0, "none", kills \cup wakes) /\ reason' = TRUE /\ ended = "pending"
      /\ UNCHANGED <<groupReason, turns, worker, next, running, failure, ended>>
  BY DEF RequestCancel
<1>2. turn' \in [Tasks -> TurnStates]
  BY <1>1 DEF SettleAndStop, TypeInv, TurnStates
<1>3. result' \in [Tasks -> Results]
  BY <1>1 DEF SettleAndStop, TypeInv, Results, Rejections
<1>4. TypeInv'
  BY <1>1, <1>2, <1>3 DEF SettleAndStop, TypeInv
<1>5. Registered' /\ StopReachesEverything'
  BY <1>1 DEF SettleAndStop, TypeInv, Registered, StopReachesEverything, Tasks
<1>6. FailureStops'
  BY <1>1 DEF SettleAndStop, TypeInv, FailureStops, Registered, Tasks
<1>7. CancelInv' /\ EndInv'
  BY <1>1 DEF CancelInv, EndInv
<1>8. Manned' /\ Unstarted'
  BY <1>1 DEF SettleAndStop, TypeInv, Manned, Unstarted, InFlight, Registered, Tasks
<1> QED BY <1>4, <1>5, <1>6, <1>7, <1>8

LEMMA GroupStep == ASSUME GroupInv, [Next]_vars PROVE GroupInv'
<1> USE GroupAssumption DEF GroupInv
<1>1. ASSUME NEW w \in Workers, TakeTask(w) PROVE GroupInv'
  <2>1. TypeInv'
    BY <1>1 DEF TakeTask, TypeInv, Tasks, Returned, TurnStates
  <2>2. next \in Tasks /\ next # Returned /\ worker[w] = 0 /\ turn[next] = "queued"
    BY <1>1 DEF TakeTask, TypeInv, Tasks, Returned, Unstarted
  <2>3. Registered' /\ FailureStops' /\ CancelInv' /\ StopReachesEverything'
    BY <1>1, <2>2 DEF TakeTask, TypeInv, Registered, FailureStops, CancelInv,
       StopReachesEverything
  <2>4. Manned' /\ EndInv' /\ Unstarted'
    BY <1>1, <2>2 DEF TakeTask, TypeInv, Unstarted, Manned, EndInv, InFlight, Returned, Tasks
  <2> QED BY <2>1, <2>3, <2>4
<1>2. ASSUME NEW w \in Workers, LeaveLoop(w) PROVE GroupInv'
  <2>1. TypeInv'
    BY <1>2 DEF LeaveLoop, TypeInv, Returned
  <2>2. Manned' /\ EndInv'
    BY <1>2 DEF LeaveLoop, TypeInv, Manned, EndInv, InFlight, Returned, Tasks
  <2> QED BY <1>2, <2>1, <2>2 DEF LeaveLoop, Unstarted, Registered, FailureStops, CancelInv,
                             StopReachesEverything
<1>3. ASSUME NEW w \in Workers, NEW r \in Results, TaskSettles(w, r) PROVE GroupInv'
  BY <1>3, SettleStep
<1>4. ASSUME NEW t \in Tasks, StartTurn(t) PROVE GroupInv'
  <2>1. TypeInv'
    BY <1>4 DEF StartTurn, TypeInv, TurnStates, Results, Rejections
  <2>2. Registered' /\ StopReachesEverything' /\ FailureStops'
    BY <1>4 DEF StartTurn, Stopped, TypeInv, Registered, FailureStops, StopReachesEverything
  <2>3. CancelInv' /\ EndInv'
    BY <1>4 DEF StartTurn, Stopped, TypeInv, CancelInv, EndInv
  <2>4. Manned' /\ Unstarted'
    BY <1>4 DEF StartTurn, TypeInv, Unstarted, Manned, InFlight
  <2> QED BY <2>1, <2>2, <2>3, <2>4
<1>5. ASSUME NEW t \in Tasks, NEW r \in ChildResults, ChildExits(t, r) PROVE GroupInv'
  <2>1. TypeInv'
    BY <1>5 DEF ChildExits, TypeInv, TurnStates, Results
  <2>2. Registered' /\ StopReachesEverything' /\ FailureStops'
    BY <1>5 DEF ChildExits, TypeInv, Registered, FailureStops, StopReachesEverything
  <2>3. CancelInv' /\ EndInv'
    BY <1>5 DEF ChildExits, ChildResults, TypeInv, CancelInv, EndInv
  <2>4. Manned' /\ Unstarted'
    BY <1>5 DEF ChildExits, TypeInv, Unstarted, Manned, InFlight
  <2> QED BY <2>1, <2>2, <2>3, <2>4
<1>6. ASSUME NEW t \in Tasks, NextPart(t) PROVE GroupInv'
  <2>1. TypeInv'
    BY <1>6 DEF NextPart, TypeInv, TurnStates
  <2>2. Registered' /\ StopReachesEverything' /\ FailureStops'
    BY <1>6 DEF NextPart, TypeInv, Registered, FailureStops, StopReachesEverything
  <2>3. CancelInv' /\ EndInv' /\ Manned' /\ Unstarted'
    BY <1>6 DEF NextPart, TypeInv, CancelInv, EndInv, Unstarted, Manned, InFlight
  <2> QED BY <2>1, <2>2, <2>3
<1>7. ASSUME NEW t \in Tasks, SleepOutLimit(t) PROVE GroupInv'
  <2>1. TypeInv'
    BY <1>7 DEF SleepOutLimit, TypeInv, TurnStates, Results, Rejections
  <2>2. Registered' /\ StopReachesEverything' /\ FailureStops'
    BY <1>7 DEF SleepOutLimit, Stopped, TypeInv, Registered, FailureStops, StopReachesEverything
  <2>3. CancelInv' /\ EndInv' /\ Manned' /\ Unstarted'
    BY <1>7 DEF SleepOutLimit, Stopped, TypeInv, CancelInv, EndInv, Unstarted, Manned, InFlight
  <2> QED BY <2>1, <2>2, <2>3
<1>8. ASSUME NEW t \in Tasks, TimerFires(t) PROVE GroupInv'
  <2>1. TypeInv'
    BY <1>8 DEF TimerFires, TypeInv, TurnStates
  <2>2. Registered' /\ StopReachesEverything' /\ FailureStops'
    BY <1>8 DEF TimerFires, TypeInv, Registered, FailureStops, StopReachesEverything
  <2>3. CancelInv' /\ EndInv' /\ Manned' /\ Unstarted'
    BY <1>8 DEF TimerFires, TypeInv, CancelInv, EndInv, Unstarted, Manned, InFlight
  <2> QED BY <2>1, <2>2, <2>3
<1>9. CASE RequestCancel
  BY <1>9, CancelStep
<1>10. CASE GroupReturns
  <2>1. ended' \in {"ok"} \cup Rejections /\ (ended' = "cancelled" => reason)
    BY <1>10 DEF GroupReturns, Outcome, FailureStops
  <2> QED BY <1>10, <2>1 DEF GroupReturns, AllWorkersBack, TypeInv, Registered, FailureStops,
             CancelInv, StopReachesEverything, Unstarted, Manned, EndInv, InFlight
<1>11. CASE UNCHANGED vars
  BY <1>11 DEF vars, TypeInv, Registered, FailureStops, CancelInv, StopReachesEverything,
     Unstarted, Manned, EndInv, InFlight
<1> QED BY <1>1, <1>2, <1>3, <1>4, <1>5, <1>6, <1>7, <1>8, <1>9, <1>10, <1>11
      DEF Next, WorkerStep, TurnStep

LEMMA GroupInvariant == Spec => []GroupInv
<1>1. Init => GroupInv BY InitGroup
<1>2. GroupInv /\ [Next]_vars => GroupInv' BY GroupStep
<1> QED BY <1>1, <1>2, PTL DEF Spec

\* However wide the group, a stop leaves no child running and no sleep pending.
THEOREM StopReachesAll == Spec => []StopReachesEverything
<1>1. GroupInv => StopReachesEverything BY DEF GroupInv
<1> QED BY <1>1, GroupInvariant, PTL

\* When the group's promise settles nothing of it is left running.
THEOREM GroupIsStructured == Spec => []NothingOutlivesTheGroup
<1>1. ASSUME GroupInv PROVE NothingOutlivesTheGroup
  <2>1. SUFFICES ASSUME ended # "pending" PROVE InFlight = {} /\ kills = {} /\ wakes = {}
    BY DEF NothingOutlivesTheGroup
  <2>2. InFlight = {}
    BY <1>1, <2>1, GroupAssumption DEF GroupInv, EndInv, Manned, InFlight, Tasks, Returned
  <2> QED BY <1>1, <2>2 DEF GroupInv, Registered, InFlight
<1> QED BY <1>1, GroupInvariant, PTL

\* The outcome "cancelled" is only ever a person's stop.
THEOREM SiblingStopIsNotAnOutcome == Spec => []CancelledIsAPersons
<1>1. GroupInv => CancelledIsAPersons BY DEF GroupInv, EndInv, CancelledIsAPersons
<1> QED BY <1>1, GroupInvariant, PTL

(* The width.  `running` is counted up and down; that it is the number of   *)
(* turns in flight needs every one of them to be one worker's await.        *)

Awaiting == {w \in Workers : worker[w] \in Tasks}

OneEach ==
  \A w \in Awaiting :
    /\ worker[w] \in InFlight
    /\ \A v \in Awaiting : worker[v] = worker[w] => v = w

Counted ==
  /\ running = Cardinality(Awaiting)
  /\ turns \in [Tasks -> 0..MaxTurns]
  /\ failure.live \in 0..Limit

WidthInv == GroupInv /\ OneEach /\ Counted

\* What the message of a crossed ceiling quotes is the number of turns in
\* flight, and that is never more than the configured width.
QuotedCountIsLive == running = Cardinality(InFlight) /\ running <= Limit

LEMMA WorkersAreFew ==
  /\ IsFiniteSet(Awaiting) /\ Cardinality(Awaiting) \in Nat /\ Cardinality(Awaiting) <= Limit
<1> DEFINE n == IF Limit < NumTasks THEN Limit ELSE NumTasks
<1>1. n \in Nat /\ n <= Limit /\ Limit \in Nat
  BY GroupAssumption
<1>2. IsFiniteSet(1..n) /\ Cardinality(1..n) = n
  <2> HIDE DEF n
  <2>1. Cardinality(1..n) = IF 1 > n THEN 0 ELSE n - 1 + 1
    BY <1>1, FS_Interval
  <2>2. IsFiniteSet(1..n)
    BY <1>1, FS_Interval
  <2> QED BY <1>1, <2>1, <2>2
<1>3. Workers = 1..n /\ Awaiting \in SUBSET (1..n)
  BY DEF Workers, Awaiting
<1> HIDE DEF n
<1>4. IsFiniteSet(Awaiting) /\ Cardinality(Awaiting) <= n
  BY <1>2, <1>3, FS_Subset
<1>5. Cardinality(Awaiting) \in Nat
  BY <1>4, FS_CardinalityType
<1> QED BY <1>1, <1>4, <1>5

LEMMA InitWidth == ASSUME Init PROVE WidthInv
<1>1. GroupInv
  BY InitGroup
<1>2. Awaiting = {}
  BY DEF Init, Awaiting, Tasks
<1>3. Cardinality(Awaiting) = 0
  BY <1>2, FS_EmptySet
<1>4. turns \in [Tasks -> 0..MaxTurns] /\ failure.live \in 0..Limit
  BY GroupAssumption DEF Init, NoFailure
<1> QED BY <1>1, <1>2, <1>3, <1>4 DEF Init, WidthInv, OneEach, Counted

\* Steps that leave every worker where it is, and the same turns in flight.
LEMMA StayCounted ==
  ASSUME WidthInv, worker' = worker, running' = running, failure' = failure,
         InFlight' = InFlight, turns' \in [Tasks -> 0..MaxTurns]
  PROVE  OneEach' /\ Counted'
<1>1. Awaiting' = Awaiting
  BY DEF Awaiting
<1> QED BY <1>1 DEF WidthInv, OneEach, Counted

LEMMA WidthStep == ASSUME WidthInv, [Next]_vars PROVE WidthInv'
<1> USE GroupAssumption
<1>1. GroupInv'
  BY GroupStep DEF WidthInv
<1>2. ASSUME NEW w \in Workers, TakeTask(w) PROVE OneEach' /\ Counted'
  <2>1. /\ next \in Tasks /\ worker[w] = 0 /\ turn[next] = "queued" /\ w \notin Awaiting
        /\ worker \in [Workers -> 0..Returned] /\ turn \in [Tasks -> TurnStates]
    BY <1>2 DEF TakeTask, WidthInv, GroupInv, TypeInv, Tasks, Returned, Unstarted, Awaiting
  <2>2. /\ worker' = [worker EXCEPT ![w] = next] /\ turn' = [turn EXCEPT ![next] = "between"]
        /\ running' = running + 1 /\ turns' = turns /\ failure' = failure
    BY <1>2 DEF TakeTask
  <2>3. Awaiting' = Awaiting \cup {w}
    BY <2>1, <2>2 DEF Awaiting
  <2>4. Cardinality(Awaiting') = Cardinality(Awaiting) + 1
    BY <2>1, <2>3, WorkersAreFew, FS_AddElement
  <2>5. InFlight' = InFlight \cup {next} /\ next \notin InFlight
    BY <2>1, <2>2 DEF InFlight
  <2>6. \A v \in Awaiting : worker'[v] = worker[v] /\ worker[v] # next
    BY <2>1, <2>2, <2>5 DEF WidthInv, OneEach, Awaiting
  <2>7. worker'[w] = next
    BY <2>1, <2>2
  <2>8. OneEach'
    BY <2>3, <2>5, <2>6, <2>7 DEF WidthInv, OneEach
  <2> QED BY <2>2, <2>4, <2>8 DEF WidthInv, Counted
<1>3. ASSUME NEW w \in Workers, LeaveLoop(w) PROVE OneEach' /\ Counted'
  <2>1. worker' = [worker EXCEPT ![w] = Returned] /\ UNCHANGED <<turn, turns, running, failure>>
    BY <1>3 DEF LeaveLoop
  <2>2. worker[w] = 0 /\ worker \in [Workers -> 0..Returned]
    BY <1>3 DEF LeaveLoop, WidthInv, GroupInv, TypeInv
  <2>3. Awaiting' = Awaiting /\ \A v \in Awaiting : worker'[v] = worker[v]
    BY <2>1, <2>2 DEF Awaiting, Returned, Tasks
  <2> QED BY <2>1, <2>3 DEF WidthInv, OneEach, Counted, InFlight
<1>4. ASSUME NEW w \in Workers, NEW r \in Results, TaskSettles(w, r) PROVE OneEach' /\ Counted'
  <2> DEFINE t == worker[w]
  <2>1. /\ t \in Tasks /\ w \in Awaiting /\ worker' = [worker EXCEPT ![w] = 0]
        /\ running' = running - 1 /\ turns' = turns
        /\ worker \in [Workers -> 0..Returned] /\ turn \in [Tasks -> TurnStates]
    BY <1>4 DEF TaskSettles, WidthInv, GroupInv, TypeInv, Awaiting
  <2>2. PICK stopped \in SUBSET (kills \cup wakes) : SettleAndStop(t, r, stopped)
    BY <1>4 DEF TaskSettles
  <2>3. \A u \in stopped : u \in Tasks /\ turn[u] \notin {"queued", "settled"}
    BY <2>2 DEF WidthInv, GroupInv, Registered
  <2>4. InFlight' = InFlight \ {t}
    BY <2>1, <2>2, <2>3 DEF SettleAndStop, InFlight
  <2>5. Awaiting' = Awaiting \ {w}
    BY <2>1 DEF Awaiting, Tasks
  <2>6. Cardinality(Awaiting') = Cardinality(Awaiting) - 1
    BY <2>1, <2>5, WorkersAreFew, FS_RemoveElement
  <2>7. \A v \in Awaiting : v # w => worker'[v] = worker[v] /\ worker[v] # t
    BY <2>1 DEF WidthInv, OneEach, Awaiting
  <2>8. OneEach'
    BY <2>4, <2>5, <2>7 DEF WidthInv, OneEach
  <2>9. failure'.live \in 0..Limit
    <3>1. running \in 0..Limit
      BY WorkersAreFew DEF WidthInv, Counted
    <3>2. failure' = failure \/ failure' = [task |-> t, live |-> running]
      BY <1>4 DEF TaskSettles, FailureCaught
    <3> QED BY <3>1, <3>2 DEF WidthInv, Counted
  <2> QED BY <2>1, <2>6, <2>8, <2>9 DEF WidthInv, Counted
<1>5. ASSUME NEW t \in Tasks, StartTurn(t) PROVE OneEach' /\ Counted'
  <2>1. /\ turn \in [Tasks -> TurnStates] /\ turns \in [Tasks -> 0..MaxTurns]
        /\ turn[t] = "between" /\ UNCHANGED <<worker, running, failure>>
    BY <1>5 DEF StartTurn, WidthInv, GroupInv, TypeInv, Counted
  <2>2. InFlight' = InFlight
    BY <1>5, <2>1 DEF StartTurn, InFlight
  <2>3. turns' \in [Tasks -> 0..MaxTurns]
    <3>1. turns' = turns \/ (turns[t] < MaxTurns /\ turns' = [turns EXCEPT ![t] = @ + 1])
      BY <1>5 DEF StartTurn
    <3>2. turns[t] < MaxTurns => turns[t] + 1 \in 0..MaxTurns
      BY <2>1
    <3> QED BY <2>1, <3>1, <3>2
  <2> QED BY <2>1, <2>2, <2>3, StayCounted
<1>6. ASSUME NEW t \in Tasks,
             \/ \E r \in ChildResults : ChildExits(t, r)
             \/ NextPart(t) \/ SleepOutLimit(t) \/ TimerFires(t)
      PROVE OneEach' /\ Counted'
  <2>1. turn \in [Tasks -> TurnStates] /\ turns \in [Tasks -> 0..MaxTurns]
    BY DEF WidthInv, GroupInv, TypeInv, Counted
  <2>2. UNCHANGED <<worker, running, failure, turns>>
    BY <1>6 DEF ChildExits, NextPart, SleepOutLimit, TimerFires
  <2>3. InFlight' = InFlight
    BY <1>6, <2>1 DEF ChildExits, NextPart, SleepOutLimit, TimerFires, InFlight
  <2> QED BY <2>1, <2>2, <2>3, StayCounted
<1>7. CASE RequestCancel
  <2>1. UNCHANGED <<worker, running, failure, turns>> /\ SettleAndStop(0, "none", kills \cup wakes)
    BY <1>7 DEF RequestCancel
  <2>2. \A u \in kills \cup wakes : turn[u] \notin {"queued", "settled"}
    BY DEF WidthInv, GroupInv, Registered
  <2>3. InFlight' = InFlight
    BY <2>1, <2>2 DEF SettleAndStop, InFlight, Tasks
  <2>4. turns' \in [Tasks -> 0..MaxTurns]
    BY <2>1 DEF WidthInv, Counted
  <2> QED BY <1>1, <2>1, <2>3, <2>4, StayCounted DEF WidthInv
<1>8. CASE GroupReturns \/ UNCHANGED vars
  <2>1. UNCHANGED <<worker, running, failure, turns, turn>>
    BY <1>8 DEF GroupReturns, vars
  <2>2. InFlight' = InFlight /\ turns' \in [Tasks -> 0..MaxTurns]
    BY <2>1 DEF InFlight, WidthInv, Counted
  <2> QED BY <1>1, <2>1, <2>2, StayCounted DEF WidthInv
<1> QED BY <1>1, <1>2, <1>3, <1>4, <1>5, <1>6, <1>7, <1>8
      DEF WidthInv, Next, WorkerStep, TurnStep

LEMMA WidthInvariant == Spec => []WidthInv
<1>1. Init => WidthInv BY InitWidth
<1>2. WidthInv /\ [Next]_vars => WidthInv' BY WidthStep
<1> QED BY <1>1, <1>2, PTL DEF Spec

\* Every variable of a group keeps its type and its bound, the counter included.
THEOREM GroupTypes == Spec => []TypeOK
<1>1. ASSUME WidthInv PROVE TypeOK
  <2>1. running \in 0..Limit
    BY <1>1, WorkersAreFew, GroupAssumption DEF WidthInv, Counted
  <2>2. failure \in [task : 0..NumTasks, live : 0..Limit]
    BY <1>1 DEF WidthInv, GroupInv, TypeInv, Counted
  <2> QED BY <1>1, <2>1, <2>2 DEF WidthInv, GroupInv, TypeInv, Counted, TypeOK
<1> QED BY <1>1, WidthInvariant, PTL

\* At most review.maxParallel or critique.maxParallel turns are in flight, and the
\* counter says how many (runSeatGroup in seat-group.ts).
THEOREM AtMostLimit == Spec => []QuotedCountIsLive
<1>1. ASSUME WidthInv PROVE QuotedCountIsLive
  <2> DEFINE f == [w \in Awaiting |-> worker[w]]
  <2>1. f \in Injection(Awaiting, InFlight)
    BY <1>1 DEF WidthInv, OneEach, Injection, IsInjective
  <2>2. \A t \in InFlight : \E w \in Awaiting : f[w] = t
    BY <1>1 DEF WidthInv, GroupInv, Manned, Awaiting, InFlight
  <2>3. f \in Surjection(Awaiting, InFlight)
    BY <2>1, <2>2 DEF Injection, Surjection
  <2>4. Cardinality(InFlight) = Cardinality(Awaiting)
    BY <2>1, <2>3, WorkersAreFew, FS_Surjection
  <2> QED BY <1>1, <2>4, WorkersAreFew DEF WidthInv, Counted, QuotedCountIsLive
<1> QED BY <1>1, WidthInvariant, PTL

-----------------------------------------------------------------------------
(* The host.  Gates are numbered over all runs, so an answer in the pipe   *)
(* names one gate for good; and a boundary that holds has taken the pause  *)
(* it holds for, while the end of a run takes one that held nothing.       *)

\* What a client may put in the pipe, and what the properties remember.
Requests == [kind : Kinds, id : Nat, gate : Nat]

Past == [runs : Nat, stops : SUBSET Nat, gates : Nat, mistaken : BOOLEAN,
         pauses : Nat, holds : Nat, pressedIn : Nat]

HostTyped == HostTypeOK /\ past \in Past

\* An answer is to the gate whose number it carries, however long it has been in
\* the pipe, because gates are counted over all runs.
AnswersNameTheirGate ==
    \A i \in 1..Len(wire) : wire[i].kind = "answer" => wire[i].id = wire[i].gate

\* The host waits at most for the gate it opened last, and nothing else is drawn.
LastGateOnly ==
    /\ nextAsk = past.gates
    /\ asks = IF at = "held" THEN {nextAsk} ELSE {}
    /\ draws.gate \in {0, nextAsk}

\* The pause that is armed has held nothing yet, and was pressed for this run.
ArmedPauseIsOfThisRun ==
    /\ past.holds + (IF pause THEN 1 ELSE 0) <= past.pauses
    /\ pause => past.pressedIn = IF Running THEN past.runs ELSE past.runs + 1

HostInv ==
    /\ HostTyped
    /\ AnswersNameTheirGate
    /\ LastGateOnly
    /\ StaleAnswersDecideNothing
    /\ ArmedPauseIsOfThisRun

-----------------------------------------------------------------------------
\* A session begins with nothing asked, armed or drawn.
LEMMA InitHost == ASSUME HostInit PROVE HostInv
<1> USE ServeAssumption DEF HostInit
<1>1. HostTyped
  <2>1. MaxRequests \in Nat /\ MaxSteps \in Nat
    OBVIOUS
  <2>2. NoFlags \in Flags
    BY DEF NoFlags, Flags
  <2>3. draws \in [flags : Flags, gate : Nat] /\ past \in Past
    BY <2>2 DEF Past
  <2>4. wire \in Seq([kind : Kinds, id : Nat, gate : Nat]) /\ sent \in 0..MaxRequests
    BY <2>1
  <2>5. steps \in 0..MaxSteps /\ asks \subseteq Nat /\ nextAsk \in Nat
    BY <2>1
  <2> HIDE DEF HostInit
  <2>6. /\ at = "idle" /\ pause = FALSE /\ cancel = FALSE /\ said = NoFlags
        /\ shuttingDown = FALSE /\ departed = "no"
    BY DEF HostInit
  <2> QED BY <2>2, <2>3, <2>4, <2>5, <2>6 DEF HostTyped, HostTypeOK
<1>2. AnswersNameTheirGate /\ LastGateOnly
  BY DEF AnswersNameTheirGate, LastGateOnly
<1>3. StaleAnswersDecideNothing /\ ArmedPauseIsOfThisRun
  BY DEF StaleAnswersDecideNothing, ArmedPauseIsOfThisRun
<1> QED BY <1>1, <1>2, <1>3 DEF HostInv

\* A request that names its own gate may join the pipe.
LEMMA SendStep ==
  ASSUME HostInv, NEW q \in Requests, q.kind = "answer" => q.id = q.gate, Send(q)
  PROVE  HostInv'
<1> USE ServeAssumption DEF HostInv, Send, run, controls, gates, leaving
<1>1. wire \in Seq(Requests)
  BY DEF HostTyped, HostTypeOK, Requests
<1>2. /\ wire' \in Seq(Requests) /\ Len(wire') = Len(wire) + 1
      /\ \A i \in 1..Len(wire') : wire'[i] = IF i <= Len(wire) THEN wire[i] ELSE q
  BY <1>1
<1>3. HostTyped'
  BY <1>2 DEF HostTyped, HostTypeOK, Requests
<1>4. AnswersNameTheirGate'
  BY <1>1, <1>2 DEF AnswersNameTheirGate
<1>5. (LastGateOnly /\ StaleAnswersDecideNothing /\ ArmedPauseIsOfThisRun)'
  BY DEF LastGateOnly, StaleAnswersDecideNothing, ArmedPauseIsOfThisRun, Running
<1> QED BY <1>3, <1>4, <1>5

\* What is left of the pipe when its first request has been read.
LEMMA ReceiveStep ==
  ASSUME HostInv, NEW kind, Receive(kind)
  PROVE  /\ wire' \in Seq(Requests) /\ sent' \in 0..MaxRequests
         /\ AnswersNameTheirGate'
         /\ Head(wire) \in Requests
         /\ Head(wire).kind = kind
         /\ kind = "answer" => Head(wire).id = Head(wire).gate
<1> USE DEF HostInv, Receive
<1>1. wire \in Seq(Requests) /\ wire # <<>> /\ wire' = Tail(wire)
  BY DEF HostTyped, HostTypeOK, Requests
<1>2. /\ Len(wire) >= 1 /\ Head(wire) = wire[1] /\ wire[1] \in Requests
      /\ wire' \in Seq(Requests) /\ Len(wire') = Len(wire) - 1
      /\ \A i \in 1..Len(wire') : wire'[i] = wire[i + 1] /\ i + 1 \in 1..Len(wire)
  BY <1>1
<1>3. AnswersNameTheirGate'
  BY <1>2 DEF AnswersNameTheirGate
<1>4. sent' \in 0..MaxRequests
  BY DEF HostTyped, HostTypeOK
<1>5. 1 \in 1..Len(wire)
  BY <1>1, <1>2
<1> QED BY <1>2, <1>3, <1>4, <1>5 DEF AnswersNameTheirGate

\* The client's drawing of the flags changes no gate it draws.
LEMMA Drawn ==
  ASSUME NEW d \in [flags : Flags, gate : Nat], NEW a \in BOOLEAN, NEW b \in BOOLEAN
  PROVE  /\ [d EXCEPT !.flags = [pausing |-> a, stopping |-> b]] \in [flags : Flags, gate : Nat]
         /\ [d EXCEPT !.flags = [pausing |-> a, stopping |-> b]].gate = d.gate
BY DEF Flags

\* Saying the controls, as a receive does, and what it leaves true.
LEMMA SayStep ==
  ASSUME HostTyped, NEW a \in BOOLEAN, NEW b \in BOOLEAN,
         SayControls([pausing |-> a, stopping |-> b])
  PROVE  said' \in Flags /\ draws' \in [flags : Flags, gate : Nat] /\ draws'.gate = draws.gate
<1> DEFINE now == [pausing |-> a, stopping |-> b]
<1>1. draws \in [flags : Flags, gate : Nat]
  BY DEF HostTyped, HostTypeOK
<1>2. said' = now /\ now \in Flags
  BY DEF SayControls, Flags
<1>3. CASE draws' = draws
  BY <1>1, <1>2, <1>3
<1>4. CASE DrawControls(now)
  <2> DEFINE p == now.pausing /\ ~Giving /\ draws.gate = 0
             s == now.stopping /\ ~Giving
  <2>1. p \in BOOLEAN /\ s \in BOOLEAN
    OBVIOUS
  <2>2. draws' = [draws EXCEPT !.flags = [pausing |-> p, stopping |-> s]]
    BY <1>4 DEF DrawControls
  <2> HIDE DEF p, s
  <2> QED BY <1>1, <1>2, <2>1, <2>2, Drawn
<1> QED BY <1>3, <1>4 DEF SayControls

\* Each request the host reads, whatever the run is doing.
LEMMA ReceivesStep == ASSUME HostInv, Receives PROVE HostInv'
<1> USE DEF HostInv, run, controls, gates, leaving
<1> DEFINE Kept == wire' \in Seq([kind : Kinds, id : Nat, gate : Nat]) /\ sent' \in 0..MaxRequests
<1>1. CASE ReceiveInvoke
  <2>1. Kept /\ AnswersNameTheirGate'
    BY <1>1, ReceiveStep DEF ReceiveInvoke, Requests
  <2> USE <1>1, ServeAssumption DEF ReceiveInvoke
  <2>2. past' \in Past
    <3>1. past \in Past /\ past.runs + 1 \in Nat
      BY DEF HostTyped, Past
    <3>2. past' = past \/ past' = [past EXCEPT !.runs = past.runs + 1]
      OBVIOUS
    <3> QED BY <3>1, <3>2 DEF Past
  <2>3. HostTyped'
    <3>1. steps' = steps \/ steps' = 0
      OBVIOUS
    <3>2. steps' \in 0..MaxSteps
      BY <3>1 DEF HostTyped, HostTypeOK
    <3> QED BY <2>1, <2>2, <3>2 DEF HostTyped, HostTypeOK
  <2>4. (LastGateOnly /\ StaleAnswersDecideNothing /\ ArmedPauseIsOfThisRun)'
    BY DEF LastGateOnly, StaleAnswersDecideNothing, ArmedPauseIsOfThisRun, Running, HostTyped, HostTypeOK, Past
  <2> QED BY <2>1, <2>3, <2>4
<1>2. CASE ReceivePause
  <2>1. Kept /\ AnswersNameTheirGate'
    BY <1>2, ReceiveStep DEF ReceivePause, Requests
  <2>2. said' \in Flags /\ draws' \in [flags : Flags, gate : Nat] /\ draws'.gate = draws.gate
    BY <1>2, SayStep DEF ReceivePause, HostTyped, HostTypeOK
  <2> USE <1>2 DEF ReceivePause
  <2>3. HostTyped'
    <3> DEFINE armed == IF Running THEN past.runs ELSE past.runs + 1
    <3>1. past \in Past /\ past.pauses + 1 \in Nat /\ armed \in Nat
      BY DEF HostTyped, Past
    <3>2. past' = [past EXCEPT !.pauses = past.pauses + 1, !.pressedIn = armed]
      OBVIOUS
    <3> HIDE DEF armed
    <3>3. past' \in Past
      BY <3>1, <3>2 DEF Past
    <3> QED BY <2>1, <2>2, <3>3 DEF HostTyped, HostTypeOK
  <2>4. (LastGateOnly /\ StaleAnswersDecideNothing /\ ArmedPauseIsOfThisRun)'
    BY <2>2 DEF LastGateOnly, StaleAnswersDecideNothing, ArmedPauseIsOfThisRun, Running, HostTyped, HostTypeOK, Past
  <2> QED BY <2>1, <2>3, <2>4
<1>3. CASE ReceiveUnpause
  <2>1. Kept /\ AnswersNameTheirGate'
    BY <1>3, ReceiveStep DEF ReceiveUnpause, Requests
  <2>2. said' \in Flags /\ draws' \in [flags : Flags, gate : Nat] /\ draws'.gate = draws.gate
    BY <1>3, SayStep DEF ReceiveUnpause, HostTyped, HostTypeOK
  <2> USE <1>3 DEF ReceiveUnpause
  <2>3. HostTyped'
    BY <2>1, <2>2 DEF HostTyped, HostTypeOK
  <2>4. (LastGateOnly /\ StaleAnswersDecideNothing /\ ArmedPauseIsOfThisRun)'
    BY <2>2 DEF LastGateOnly, StaleAnswersDecideNothing, ArmedPauseIsOfThisRun, Running, HostTyped, HostTypeOK, Past
  <2> QED BY <2>1, <2>3, <2>4
<1>4. CASE ReceiveCancel
  <2>1. Kept /\ AnswersNameTheirGate'
    BY <1>4, ReceiveStep DEF ReceiveCancel, Requests
  <2>2. said' \in Flags /\ draws' \in [flags : Flags, gate : Nat] /\ draws'.gate = draws.gate
    BY <1>4, SayStep DEF ReceiveCancel, HostTyped, HostTypeOK
  <2> USE <1>4 DEF ReceiveCancel
  <2>3. HostTyped'
    BY <2>1, <2>2 DEF HostTyped, HostTypeOK, Past
  <2>4. (LastGateOnly /\ StaleAnswersDecideNothing /\ ArmedPauseIsOfThisRun)'
    BY <2>2 DEF LastGateOnly, StaleAnswersDecideNothing, ArmedPauseIsOfThisRun, Running, HostTyped, HostTypeOK, Past
  <2> QED BY <2>1, <2>3, <2>4
<1>5. CASE ReceiveAnswer
  <2>1. Kept /\ AnswersNameTheirGate' /\ Head(wire).id = Head(wire).gate
    BY <1>5, ReceiveStep DEF ReceiveAnswer, Requests
  <2>2. CASE Head(wire).id \in asks
    \* The gate it lets go of is the last one, which its number says it is to.
    <3>1. Head(wire).gate = past.gates
      BY <2>1, <2>2 DEF LastGateOnly
    <3>2. /\ asks' = asks \ {Head(wire).id}
          /\ past' = [past EXCEPT !.mistaken = @ \/ Head(wire).gate # past.gates]
          /\ \/ at' = "going" /\ draws' = [draws EXCEPT !.gate = 0]
             \/ at' = "over" /\ DrawOver
          /\ UNCHANGED <<steps, controls, nextAsk, leaving>>
      BY <1>5, <2>2 DEF ReceiveAnswer
    <3>3. past' \in Past /\ ~past'.mistaken /\ past'.gates = past.gates /\ past'.holds = past.holds
          /\ past'.pauses = past.pauses /\ past'.pressedIn = past.pressedIn /\ past'.runs = past.runs
      BY <3>1, <3>2 DEF HostTyped, Past, StaleAnswersDecideNothing
    <3>4. draws' \in [flags : Flags, gate : Nat] /\ draws'.gate = 0
      <4>1. draws \in [flags : Flags, gate : Nat] /\ NoFlags \in Flags
        BY DEF HostTyped, HostTypeOK, NoFlags, Flags
      <4>2. draws' = [draws EXCEPT !.gate = 0] \/ draws' = [flags |-> NoFlags, gate |-> 0]
        BY <3>2 DEF DrawOver
      <4> QED BY <4>1, <4>2
    <3>5. HostTyped'
      BY <2>1, <3>2, <3>3, <3>4 DEF HostTyped, HostTypeOK
    <3>6. LastGateOnly' /\ StaleAnswersDecideNothing'
      <4>1. at' # "held" /\ nextAsk' = nextAsk /\ asks' = asks \ {Head(wire).id}
        BY <3>2
      <4>2. asks = {nextAsk} /\ asks' = {}
        BY <2>2, <4>1 DEF LastGateOnly
      <4> QED BY <3>3, <3>4, <4>1, <4>2 DEF LastGateOnly, StaleAnswersDecideNothing
    <3>7. at = "held" /\ Running /\ Running'
      BY <2>2, <3>2 DEF LastGateOnly, Running, DrawOver
    <3>8. ArmedPauseIsOfThisRun'
      BY <3>2, <3>3, <3>7 DEF ArmedPauseIsOfThisRun
    <3> QED BY <2>1, <3>5, <3>6, <3>8
  <2>3. CASE Head(wire).id \notin asks
    <3>1. UNCHANGED <<asks, at, draws, past, steps, controls, nextAsk, leaving>>
      BY <1>5, <2>3 DEF ReceiveAnswer
    <3> QED BY <2>1, <3>1 DEF HostTyped, HostTypeOK, LastGateOnly, StaleAnswersDecideNothing,
                              ArmedPauseIsOfThisRun, Running
  <2> QED BY <2>2, <2>3
<1>6. CASE ReceiveShutdown
  <2>1. Kept /\ AnswersNameTheirGate'
    BY <1>6, ReceiveStep DEF ReceiveShutdown, Requests
  <2> QED BY <2>1, <1>6 DEF ReceiveShutdown, SettleIfDone, HostTyped, HostTypeOK, LastGateOnly,
            StaleAnswersDecideNothing, ArmedPauseIsOfThisRun, Running
<1> QED BY <1>1, <1>2, <1>3, <1>4, <1>5, <1>6 DEF Receives

\* Each step of the run: the boundaries take the pause, and the end forgets it.
LEMMA RunStepsStep == ASSUME HostInv, RunSteps PROVE HostInv'
<1> USE ServeAssumption DEF HostInv, run, controls, gates, leaving, Steps
<1> DEFINE Rest == (LastGateOnly /\ StaleAnswersDecideNothing /\ ArmedPauseIsOfThisRun)'
<1>1. wire' = wire /\ AnswersNameTheirGate'
  BY DEF RunSteps, Begin, PassBoundary, StopAtBoundary, HoldAtBoundary, TurnStarts, TurnEnds,
         Returns, AnswersNameTheirGate
<1>2. steps' \in 0..MaxSteps
  <2>1. MaxSteps \in Nat /\ steps \in 0..MaxSteps
    BY DEF HostTyped, HostTypeOK
  <2>2. \/ steps' = steps \/ steps' = steps + 0
        \/ steps' = steps + 1 /\ steps + 1 <= MaxSteps
    BY DEF RunSteps, Begin, PassBoundary, StopAtBoundary, HoldAtBoundary, TurnStarts, TurnEnds, Returns
  <2> QED BY <2>1, <2>2
<1>3. NoFlags \in Flags /\ [said EXCEPT !.pausing = FALSE] \in Flags
  BY DEF NoFlags, Flags, HostTyped, HostTypeOK
<1>4. DrawOver => draws' \in [flags : Flags, gate : Nat] /\ draws'.gate = 0
  BY <1>3 DEF DrawOver
<1>5. CASE Begin
  <2> USE <1>5 DEF Begin
  <2>1. HostTyped'
    BY <1>1, <1>2 DEF HostTyped, HostTypeOK
  <2>2. Rest
    BY DEF LastGateOnly, StaleAnswersDecideNothing, ArmedPauseIsOfThisRun, Running
  <2> QED BY <1>1, <2>1, <2>2
<1>6. CASE PassBoundary
  <2> USE <1>6 DEF PassBoundary, TakePause
  <2>1. HostTyped'
    BY <1>1, <1>2, <1>3 DEF HostTyped, HostTypeOK
  <2>2. Rest
    BY DEF LastGateOnly, StaleAnswersDecideNothing, ArmedPauseIsOfThisRun, Running
  <2> QED BY <1>1, <2>1, <2>2
<1>7. CASE StopAtBoundary
  <2> USE <1>7 DEF StopAtBoundary, TakePause
  <2>1. HostTyped'
    BY <1>1, <1>2, <1>3, <1>4 DEF HostTyped, HostTypeOK
  <2>2. Rest
    BY <1>4 DEF LastGateOnly, StaleAnswersDecideNothing, ArmedPauseIsOfThisRun, Running, HostTyped, Past
  <2> QED BY <1>1, <2>1, <2>2
<1>8. CASE HoldAtBoundary
  <2> USE <1>8 DEF HoldAtBoundary, TakePause
  <2>1. nextAsk \in Nat /\ asks = {} /\ past \in Past
    BY DEF HostTyped, HostTypeOK, LastGateOnly
  <2>2. draws' \in [flags : Flags, gate : Nat] /\ draws'.gate = nextAsk + 1
    <3>1. [draws.flags EXCEPT !.pausing = FALSE] \in Flags
      BY DEF HostTyped, HostTypeOK, Flags
    <3> QED BY <2>1, <3>1 DEF DrawGate
  <2>3. /\ past' \in Past /\ past'.mistaken = past.mistaken /\ past'.gates = past.gates + 1
        /\ past'.holds = past.holds + (IF pause THEN 1 ELSE 0) /\ past'.pauses = past.pauses
    <3> DEFINE held == IF pause THEN past.holds + 1 ELSE past.holds
    <3>1. past.gates + 1 \in Nat /\ held \in Nat
      BY <2>1 DEF Past
    <3>2. pause \in BOOLEAN
      BY DEF HostTyped, HostTypeOK
    <3>3. past' = [past EXCEPT !.gates = past.gates + 1, !.holds = held]
      OBVIOUS
    <3> HIDE DEF held
    <3>4. past' \in Past /\ past'.gates = past.gates + 1 /\ past'.holds = held
      BY <2>1, <3>1, <3>3 DEF Past
    <3>5. past'.mistaken = past.mistaken /\ past'.pauses = past.pauses
      BY <2>1, <3>3 DEF Past
    <3>6. held = past.holds + (IF pause THEN 1 ELSE 0)
      BY <2>1, <3>2 DEF held, Past
    <3> QED BY <3>4, <3>5, <3>6
  <2>4. HostTyped'
    BY <1>1, <1>2, <1>3, <2>1, <2>2, <2>3 DEF HostTyped, HostTypeOK
  <2>5. LastGateOnly' /\ StaleAnswersDecideNothing'
    BY <2>1, <2>2, <2>3 DEF LastGateOnly, StaleAnswersDecideNothing
  <2>6. ArmedPauseIsOfThisRun'
    BY <2>1, <2>3 DEF ArmedPauseIsOfThisRun, Past
  <2> QED BY <1>1, <2>4, <2>5, <2>6
<1>9. CASE TurnStarts
  <2> USE <1>9 DEF TurnStarts
  <2>1. HostTyped'
    BY <1>1, <1>2, <1>4 DEF HostTyped, HostTypeOK
  <2>2. Rest
    BY <1>4 DEF LastGateOnly, StaleAnswersDecideNothing, ArmedPauseIsOfThisRun, Running
  <2> QED BY <1>1, <2>1, <2>2
<1>10. CASE TurnEnds
  <2> USE <1>10 DEF TurnEnds
  <2>1. HostTyped'
    BY <1>1, <1>2, <1>4 DEF HostTyped, HostTypeOK
  <2>2. Rest
    BY <1>4 DEF LastGateOnly, StaleAnswersDecideNothing, ArmedPauseIsOfThisRun, Running
  <2> QED BY <1>1, <2>1, <2>2
<1>11. CASE Returns
  <2> USE <1>11 DEF Returns, Forgets, SettleIfDone
  <2>1. HostTyped'
    BY <1>1, <1>2, <1>3, <1>4 DEF HostTyped, HostTypeOK
  <2>2. Rest
    BY <1>4 DEF LastGateOnly, StaleAnswersDecideNothing, ArmedPauseIsOfThisRun, HostTyped, Past
  <2> QED BY <1>1, <2>1, <2>2
<1> QED BY <1>5, <1>6, <1>7, <1>8, <1>9, <1>10, <1>11 DEF RunSteps

\* One step of a client, of the host or of the run.
LEMMA HostStep == ASSUME HostInv, [HostNext]_hostVars PROVE HostInv'
<1>1. CASE Asks
  <2>1. PICK kind \in {"invoke", "pause", "unpause", "cancel", "shutdown"} : Send(Request(kind, 0, 0))
    BY <1>1 DEF Asks
  <2>2. Request(kind, 0, 0) \in Requests /\ Request(kind, 0, 0).id = Request(kind, 0, 0).gate
    BY <2>1 DEF Request, Requests, Kinds
  <2> QED BY <2>1, <2>2, SendStep
<1>2. CASE Answers
  \* What a client draws is the gate opened last.
  <2>1. draws.gate = past.gates /\ past.gates \in Nat
    BY <1>2 DEF Answers, HostInv, LastGateOnly, HostTyped, Past
  <2>2. /\ Request("answer", draws.gate, past.gates) \in Requests
        /\ Request("answer", draws.gate, past.gates).id = Request("answer", draws.gate, past.gates).gate
    BY <2>1 DEF Request, Requests, Kinds
  <2> QED BY <1>2, <2>2, SendStep DEF Answers
<1>3. CASE Closes
  BY <1>3 DEF Closes, HostInv, HostTyped, HostTypeOK, AnswersNameTheirGate, LastGateOnly,
     StaleAnswersDecideNothing, ArmedPauseIsOfThisRun, Running, run, controls, gates, leaving
<1>4. CASE UNCHANGED hostVars
  BY <1>4 DEF hostVars, HostInv, HostTyped, HostTypeOK, AnswersNameTheirGate, LastGateOnly,
     StaleAnswersDecideNothing, ArmedPauseIsOfThisRun, Running
<1> QED BY <1>1, <1>2, <1>3, <1>4, ReceivesStep, RunStepsStep DEF HostNext

\* The invariant holds of every host, whatever its clients send and however the
\* run's turns end.
THEOREM HostIsOrdered == HostSpec => []HostInv
<1>1. HostInit => HostInv
  BY InitHost
<1>2. HostInv /\ [HostNext]_hostVars => HostInv'
  BY HostStep
<1> QED BY <1>1, <1>2, PTL DEF HostSpec

\* The host's session and the pipe keep their types and their bounds.
THEOREM HostTypes == HostSpec => []HostTypeOK
<1>1. HostInv => HostTypeOK
  BY DEF HostInv, HostTyped
<1> QED BY <1>1, HostIsOrdered, PTL

\* A late answer lets go of no gate but its own, over any number of runs: the
\* ids of the gates are never given out twice (nextAsk in serve.ts).
THEOREM LateAnswersDecideNothing == HostSpec => []StaleAnswersDecideNothing
<1>1. HostInv => StaleAnswersDecideNothing
  BY DEF HostInv
<1> QED BY <1>1, HostIsOrdered, PTL

\* A pause holds at most once, and only the run it was pressed for (takePause and
\* the finally of runInvoke in serve.ts).
THEOREM PausesHoldTheirRun == HostSpec => []PauseIsOfThisRun
<1>1. HostInv => PauseIsOfThisRun
  BY DEF HostInv, HostTyped, Past, ArmedPauseIsOfThisRun, PauseIsOfThisRun
<1> QED BY <1>1, HostIsOrdered, PTL
=============================================================================

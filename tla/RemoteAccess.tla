---------------------------- MODULE RemoteAccess ----------------------------
(***************************************************************************)
(* The desktop's remote access switch, the one endpoint it starts and      *)
(* stops, the phones that connect to it, and the ways a phone is removed   *)
(* (mod.rs, endpoint.rs, bridge.rs, store.rs and settings.rs under         *)
(* src/app/src-tauri/src/remote), together with pairing.                   *)
(*                                                                         *)
(* Every change of the switch runs under the transition lock: a task holds *)
(* it from Take to Done.  The lock of Running is held across a removal the *)
(* window asks for, so no task touches Running meanwhile.  The settings    *)
(* that matter here are the switch and the relay.  A phone has at most one *)
(* connection at a time.                                                   *)
(***************************************************************************)
EXTENDS RemotePairing, FiniteSets

CONSTANTS
    Relays,         \* relays a person may choose
    FirstRelay,     \* the one remote.json names at launch
    Endpoints       \* numbers for the endpoints that listen at one time

ASSUME EndpointAssumption == Endpoints \subseteq Nat \ {0} /\ FirstRelay \in Relays

VARIABLES
    settings,   \* remote.json: [enabled, relay]
    running,    \* Running: off, nokey, failed, starting, or up with its endpoint
    bound,      \* the endpoints that listen
    conn,       \* each phone's vibe/remote/1 connection and its handler
    task,       \* the changes under way, by who asked
    removal,    \* the removal the window asked for
    gone        \* remembered: removed to the end, and not back on the list since

accessVars == <<settings, running, bound, conn, task, removal, gone>>
vars == <<pairingVars, accessVars>>

Askers == {"window", "phone", "start"}
Changes == [enabled : BOOLEAN, relay : Relays]

\* call: what became of this phone's remote_set.  stalled: its stream takes no
\* more bytes.  leaving: how far its Unpair is, and the list that read.
\* missed: remembered, that a revoke found no endpoint installed to close it in.
NoConn == [at |-> "off", open |-> FALSE, stalled |-> FALSE, missed |-> FALSE,
           call |-> "none", leaving |-> "no", read |-> {}]
NoRemoval == [at |-> "off", phone |-> Nobody, read |-> {}]
NoChange == [enabled |-> FALSE, relay |-> "none"]
NoTask == [at |-> "off", asker |-> Nobody, ep |-> 0, want |-> NoChange, again |-> FALSE]
Down(at) == [at |-> at, ep |-> 0, relay |-> "none"]

Init ==
    /\ PairingInit
    /\ settings \in [enabled : BOOLEAN, relay : {FirstRelay}]
    /\ running = Down("off")
    /\ bound = {}
    /\ conn = [p \in Phones |-> NoConn]
    /\ task = [k \in Askers |-> IF k = "start" THEN [NoTask EXCEPT !.at = "lock"] ELSE NoTask]
    /\ removal = NoRemoval
    /\ gone = {}

\* (wrong: set_remote_from_phone drops the lock when it answers)
TransitionFreeButForPhone == \A k \in Askers \ {"phone"} : task[k].at \in {"off", "lock"}

TransitionFree == \A k \in Askers : task[k].at \in {"off", "lock"}
RunningFree == removal.at = "off"

\* Dropping a phone's handler drops its call, unless that call has become a
\* task of the desktop's own.
WithoutCallsOf(dropped) ==
    IF task["phone"].at = "lock" /\ task["phone"].asker \in dropped
    THEN [task EXCEPT !["phone"] = NoTask] ELSE task

-----------------------------------------------------------------------------
(* A phone's connection: the hook, the registration and the second check.  *)

Dials(p) ==
    /\ conn[p].at = "off" /\ bound # {} /\ p \in list /\ Spend("dials")
    /\ conn' = [conn EXCEPT ![p] = [NoConn EXCEPT !.at = "hooked", !.open = TRUE]]
    /\ UNCHANGED <<pairing, settings, running, bound, task, removal, gone>>

\* From here on Live.close finds it.
Registers(p) ==
    /\ conn[p].at = "hooked"
    /\ conn' = [conn EXCEPT ![p].at = "registered"]
    /\ UNCHANGED <<pairingVars, settings, running, bound, task, removal, gone>>

\* (wrong: what the hook saw is trusted)
AdmitsUnchecked(p) ==
    /\ conn[p].at = "registered"
    /\ conn' = [conn EXCEPT ![p].at = "served"]
    /\ UNCHANGED <<pairingVars, settings, running, bound, task, removal, gone>>

\* The gate is asked again.
Admits(p) ==
    /\ conn[p].at = "registered"
    /\ conn' = [conn EXCEPT ![p].at = "served", ![p].open = @ /\ p \in list]
    /\ UNCHANGED <<pairingVars, settings, running, bound, task, removal, gone>>

\* A list that cannot be read admits nobody.
AdmitsNobody(p) ==
    /\ conn[p].at = "registered" /\ Fault
    /\ conn' = [conn EXCEPT ![p].at = "served", ![p].open = FALSE]
    /\ UNCHANGED <<pairing, settings, running, bound, task, removal, gone>>

\* The phone closes, or its network does.
Drops(p) ==
    /\ conn[p].open
    /\ conn' = [conn EXCEPT ![p].open = FALSE]
    /\ UNCHANGED <<pairingVars, settings, running, bound, task, removal, gone>>

\* The phone stops reading, and what is queued for it fills the stream; later it
\* may read again.  It makes a difference while an answer is on its way.
StopsReading(p) ==
    /\ conn[p].open /\ ~conn[p].stalled /\ conn[p].call \in {"asked", "written"}
    /\ conn' = [conn EXCEPT ![p].stalled = TRUE]
    /\ UNCHANGED <<pairingVars, settings, running, bound, task, removal, gone>>

ReadsAgain(p) ==
    /\ conn[p].open /\ conn[p].stalled /\ conn[p].call \in {"asked", "written"}
    /\ conn' = [conn EXCEPT ![p].stalled = FALSE]
    /\ UNCHANGED <<pairingVars, settings, running, bound, task, removal, gone>>

\* The handler sees the close: its calls are aborted.
Ends(p) ==
    /\ conn[p].at = "served" /\ ~conn[p].open /\ conn[p].leaving = "no"
    /\ conn' = [conn EXCEPT ![p] = NoConn]
    /\ task' = WithoutCallsOf({p})
    /\ UNCHANGED <<pairingVars, settings, running, bound, removal, gone>>

-----------------------------------------------------------------------------
(* Removing a phone: store.remove, then Live.close.                        *)

\* Whoever is written back on the list is not gone.
WriteList(phones) == list' = phones /\ gone' = gone \ phones

Closed(phones) ==
    [p \in Phones |-> IF p \in phones /\ conn[p].at \in {"registered", "served"}
                      THEN [conn[p] EXCEPT !.open = FALSE] ELSE conn[p]]

RevokeBegins(p) ==
    /\ RunningFree /\ Spend("removals")
    /\ removal' = [at |-> "load", phone |-> p, read |-> {}]
    /\ UNCHANGED <<pairing, settings, running, bound, conn, task, gone>>

RevokeLoads ==
    /\ removal.at = "load"
    /\ removal' = [removal EXCEPT !.read = list,
                                  !.at = IF removal.phone \in list THEN "write" ELSE "close"]
    /\ UNCHANGED <<pairingVars, settings, running, bound, conn, task, gone>>

RevokeWrites ==
    /\ removal.at = "write"
    /\ WriteList(removal.read \ {removal.phone})
    /\ removal' = [removal EXCEPT !.at = "close"]
    /\ UNCHANGED <<key, code, prompt, waiting, dial, yes, added, left>>
    /\ UNCHANGED <<settings, running, bound, conn, task>>

\* Only an endpoint that is installed has connections to close: NoConnections
\* stands for one that listens before or after that.
RevokeCloses ==
    /\ removal.at = "close"
    /\ conn' = IF running.at = "up" THEN Closed({removal.phone})
               ELSE [conn EXCEPT ![removal.phone].missed = conn[removal.phone].at = "served"]
    /\ gone' = gone \cup ({removal.phone} \ list)
    /\ removal' = NoRemoval
    /\ UNCHANGED <<pairingVars, settings, running, bound, task>>

RevokeFails ==
    /\ removal.at \in {"load", "write"} /\ Fault
    /\ removal' = NoRemoval
    /\ UNCHANGED <<pairing, settings, running, bound, conn, task, gone>>

\* The same removal by the phone itself, in its own handler and under no lock.
Unpairs(p) ==
    /\ conn[p].at = "served" /\ conn[p].open /\ conn[p].leaving = "no" /\ Spend("removals")
    /\ conn' = [conn EXCEPT ![p].leaving = "load"]
    /\ UNCHANGED <<pairing, settings, running, bound, task, removal, gone>>

UnpairLoads(p) ==
    /\ conn[p].leaving = "load"
    /\ conn' = [conn EXCEPT ![p].read = list, ![p].leaving = IF p \in list THEN "write" ELSE "close"]
    /\ UNCHANGED <<pairingVars, settings, running, bound, task, removal, gone>>

UnpairWrites(p) ==
    /\ conn[p].leaving = "write"
    /\ WriteList(conn[p].read \ {p})
    /\ conn' = [conn EXCEPT ![p].leaving = "close", ![p].read = {}]
    /\ UNCHANGED <<key, code, prompt, waiting, dial, yes, added, left>>
    /\ UNCHANGED <<settings, running, bound, task, removal>>

UnpairCloses(p) ==
    /\ conn[p].leaving = "close"
    /\ conn' = [Closed({p}) EXCEPT ![p].leaving = "no", ![p].read = {}]
    /\ gone' = gone \cup ({p} \ list)
    /\ UNCHANGED <<pairingVars, settings, running, bound, task, removal>>

UnpairFails(p) ==
    /\ conn[p].leaving \in {"load", "write"} /\ Fault
    /\ conn' = [conn EXCEPT ![p].leaving = "no", ![p].read = {}]
    /\ UNCHANGED <<pairing, settings, running, bound, task, removal, gone>>

-----------------------------------------------------------------------------
(* The switch.                                                             *)

\* The window's remote_set.
WindowAsks ==
    /\ task["window"].at = "off" /\ Spend("changes")
    /\ \E want \in Changes :
          task' = [task EXCEPT !["window"] = [NoTask EXCEPT !.at = "lock", !.want = want]]
    /\ UNCHANGED <<pairing, settings, running, bound, conn, removal, gone>>

\* (wrong: the patch is written, and then the lock is taken)
PhoneAsksWritingFirst(p) ==
    /\ conn[p].at = "served" /\ conn[p].open /\ conn[p].leaving = "no" /\ conn[p].call = "none"
    /\ task["phone"].at = "off" /\ Spend("changes")
    /\ \E want \in Changes :
          /\ settings' = want
          /\ task' = [task EXCEPT !["phone"] = [NoTask EXCEPT !.at = "lock", !.asker = p, !.want = want]]
    /\ conn' = [conn EXCEPT ![p].call = "written"]
    /\ UNCHANGED <<pairing, running, bound, removal, gone>>

\* A phone's, in a task of its connection.
PhoneAsks(p) ==
    /\ conn[p].at = "served" /\ conn[p].open /\ conn[p].leaving = "no" /\ conn[p].call = "none"
    /\ task["phone"].at = "off" /\ Spend("changes")
    /\ \E want \in Changes :
          task' = [task EXCEPT !["phone"] = [NoTask EXCEPT !.at = "lock", !.asker = p, !.want = want]]
    /\ conn' = [conn EXCEPT ![p].call = "asked"]
    /\ UNCHANGED <<pairing, settings, running, bound, removal, gone>>

\* pair_begin: a code, and a reconcile for the key it may have made.
AsksForCode ==
    /\ BeginCode
    /\ task' = [task EXCEPT !["start"] =
                   IF @.at \in {"off", "lock"} THEN [NoTask EXCEPT !.at = "lock"] ELSE [@ EXCEPT !.again = TRUE]]
    /\ UNCHANGED <<settings, running, bound, conn, removal, gone>>

ClosesConnections(want) ==
    running.at = "up" /\ (~want.enabled \/ running.relay # want.relay)

\* patch_locked: the lock, then the patch.  A phone whose connection the change
\* closes gets its answer before the stop; for any other the asker is forgotten.
Take(k) ==
    /\ task[k].at = "lock" /\ TransitionFree
    /\ k = "phone" => RunningFree
    /\ settings' = IF k = "start" THEN settings ELSE task[k].want
    /\ LET answered == IF k = "phone" /\ ClosesConnections(task[k].want) THEN task[k].asker ELSE Nobody IN
          /\ task' = [task EXCEPT ![k].at = "stop", ![k].asker = answered]
          /\ conn' = [p \in Phones |-> IF k = "phone" /\ p = task[k].asker
                                       THEN [conn[p] EXCEPT !.call = IF p = answered THEN "written" ELSE "none"]
                                       ELSE conn[p]]
    /\ UNCHANGED <<pairingVars, running, bound, removal, gone>>

\* remote.json cannot be written: the change is refused.
TakeFails(k) ==
    /\ k # "start" /\ task[k].at = "lock" /\ TransitionFree /\ Fault
    /\ task' = [task EXCEPT ![k] = NoTask]
    /\ conn' = [p \in Phones |-> IF p = task[k].asker THEN [conn[p] EXCEPT !.call = "none"] ELSE conn[p]]
    /\ UNCHANGED <<pairing, settings, running, bound, removal, gone>>

At(k, at) == [task EXCEPT ![k].at = at]
Done(k) == [task EXCEPT ![k] = IF @.again THEN [NoTask EXCEPT !.at = "lock"] ELSE NoTask]

\* reconcile_locked reads the settings and takes an endpoint it must stop.
Stop(k) ==
    /\ task[k].at = "stop" /\ RunningFree
    /\ IF ClosesConnections(settings)
       THEN /\ running' = Down("off")
            /\ task' = [task EXCEPT ![k].at = IF task[k].asker # Nobody THEN "wait" ELSE "shut",
                                    ![k].ep = running.ep, ![k].want = settings]
       ELSE /\ running' = IF settings.enabled THEN running ELSE Down("off")
            /\ task' = IF running.at = "up" \/ ~settings.enabled THEN Done(k)
                       ELSE [task EXCEPT ![k].at = "key", ![k].want = settings]
    /\ UNCHANGED <<pairingVars, settings, bound, conn, removal, gone>>

\* The phone reads its answer.
Hears(p) ==
    /\ conn[p].call = "written" /\ conn[p].open /\ ~conn[p].stalled
    /\ conn' = [conn EXCEPT ![p].call = "heard"]
    /\ UNCHANGED <<pairingVars, settings, running, bound, task, removal, gone>>

\* Its answer waits in write_message, which no ceiling bounds: the one for the
\* acknowledgement begins once the answer has been written.
Unwritable(p) == conn[p].open /\ conn[p].stalled /\ conn[p].call = "written"

\* (wrong: the wait for the acknowledgement has no ceiling)
WaitEndsOnAnswer(k) ==
    /\ task[k].at = "wait"
    /\ conn[task[k].asker].open => conn[task[k].asker].call = "heard"
    /\ task' = At(k, "shut")
    /\ UNCHANGED <<pairingVars, settings, running, bound, conn, removal, gone>>

\* The answer has reached the phone, its connection is gone, or the ceiling has
\* passed since it was written: then it is late.
WaitEnds(k) ==
    /\ task[k].at = "wait" /\ ~Unwritable(task[k].asker)
    /\ conn' = [conn EXCEPT ![task[k].asker].call = IF @ = "written" THEN "late" ELSE @]
    /\ task' = At(k, "shut")
    /\ UNCHANGED <<pairingVars, settings, running, bound, removal, gone>>

\* What stopping an endpoint ends: its connections, and its handlers but for
\* one in the middle of an Unpair, which runs to its end.
Hanging == [p \in Phones |-> IF dial[p].at = "off" THEN dial[p]
                             ELSE [dial[p] EXCEPT !.at = "off", !.open = FALSE]]
Ended == [p \in Phones |-> IF conn[p].leaving = "no" THEN NoConn ELSE [conn[p] EXCEPT !.open = FALSE]]

\* close_all, when the switch is off, and ep.stop.
Shut(k) ==
    /\ task[k].at = "shut"
    /\ bound' = bound \ {task[k].ep}
    /\ dial' = Hanging /\ conn' = Ended
    /\ task' = LET kept == WithoutCallsOf(Phones) IN
                  [kept EXCEPT ![k] = IF @.want.enabled /\ running.at # "up" THEN [@ EXCEPT !.at = "key"]
                                      ELSE IF @.again THEN [NoTask EXCEPT !.at = "lock"] ELSE NoTask]
    /\ UNCHANGED <<list, key, code, prompt, waiting, yes, added, left>>
    /\ UNCHANGED <<settings, running, removal, gone>>

\* No key to start with, or a keychain that cannot be read.
FindsNoKey(k) ==
    /\ task[k].at = "key" /\ RunningFree
    /\ \/ ~key /\ running' = Down("nokey") /\ UNCHANGED left
       \/ Fault /\ running' = Down("failed")
    /\ task' = Done(k)
    /\ UNCHANGED <<pairing, settings, bound, conn, removal, gone>>

FindsKey(k) ==
    /\ task[k].at = "key" /\ RunningFree /\ key
    /\ running' = Down("starting")
    /\ task' = At(k, "bind")
    /\ UNCHANGED <<pairingVars, settings, bound, conn, removal, gone>>

\* The endpoint listens before it is installed.
Bind(k) ==
    /\ task[k].at = "bind" /\ Endpoints \ bound # {}
    /\ LET ep == CHOOSE e \in Endpoints \ bound : TRUE IN
          /\ bound' = bound \cup {ep}
          /\ task' = [task EXCEPT ![k].at = "install", ![k].ep = ep]
    /\ UNCHANGED <<pairingVars, settings, running, conn, removal, gone>>

BindFails(k) ==
    /\ task[k].at = "bind" /\ RunningFree /\ Fault
    /\ running' = Down(IF settings = task[k].want THEN "failed" ELSE "off")
    /\ task' = Done(k)
    /\ UNCHANGED <<pairing, settings, bound, conn, removal, gone>>

\* An endpoint bound for settings that have moved since is stopped instead.
Install(k) ==
    /\ task[k].at = "install" /\ RunningFree
    /\ running' = IF settings = task[k].want
                  THEN [at |-> "up", ep |-> task[k].ep, relay |-> settings.relay] ELSE Down("off")
    /\ task' = IF settings = task[k].want THEN Done(k)
               ELSE [task EXCEPT ![k].at = "shut", ![k].want.enabled = FALSE]
    /\ UNCHANGED <<pairingVars, settings, bound, conn, removal, gone>>

-----------------------------------------------------------------------------
TaskSteps(k) ==
    \/ Take(k) \/ Stop(k) \/ WaitEnds(k) \/ Shut(k)
    \/ FindsNoKey(k) \/ FindsKey(k) \/ Bind(k) \/ Install(k)

RevokeSteps == RevokeLoads \/ RevokeWrites \/ RevokeCloses
UnpairSteps(p) == UnpairLoads(p) \/ UnpairWrites(p) \/ UnpairCloses(p)

PairingSteps ==
    \/ /\ \/ BeginCodeFails \/ CodeExpires \/ AnswersNo \/ AnswersYes \/ YesSteps
          \/ \E p \in Phones : DialSteps(p) \/ (bound # {} /\ \E n \in 1 .. code.n : SaysHello(p, n))
       /\ gone' = gone \ list'
       /\ UNCHANGED <<settings, running, bound, conn, task, removal>>
    \/ AsksForCode

Next ==
    \/ PairingSteps
    \/ \E p \in Phones :
          \/ Dials(p) \/ Registers(p) \/ Admits(p) \/ AdmitsNobody(p) \/ Drops(p) \/ Ends(p)
          \/ Unpairs(p) \/ UnpairSteps(p) \/ UnpairFails(p) \/ RevokeBegins(p)
          \/ PhoneAsks(p) \/ Hears(p) \/ StopsReading(p) \/ ReadsAgain(p)
    \/ RevokeSteps \/ RevokeFails
    \/ WindowAsks
    \/ \E k \in Askers : TaskSteps(k) \/ TakeFails(k) \/ BindFails(k)

\* The runtime polls every task, a removal is a few synchronous calls, and an
\* answer once written is waited for three seconds.  No phone need do anything:
\* nothing makes WaitEnds possible while the answer cannot be written.  But what
\* is queued before an answer is finite, and a phone that reads again and again
\* takes all of it: that is the strong fairness.
Fairness ==
    /\ \A k \in Askers : WF_vars(TaskSteps(k))
    /\ SF_vars(WaitEnds("phone"))
    /\ WF_vars(RevokeSteps)
    /\ \A p \in Phones : WF_vars(UnpairSteps(p))

Spec == Init /\ [][Next]_vars /\ Fairness

-----------------------------------------------------------------------------
Conn ==
    [at : {"off", "hooked", "registered", "served"}, open : BOOLEAN,
     stalled : BOOLEAN, missed : BOOLEAN,
     call : {"none", "asked", "written", "heard", "late"},
     leaving : {"no", "load", "write", "close"}, read : SUBSET Phones]

Task ==
    [at : {"off", "lock", "stop", "wait", "shut", "key", "bind", "install"},
     asker : Phones \cup {Nobody}, ep : Endpoints \cup {0},
     want : [enabled : BOOLEAN, relay : Relays \cup {"none"}], again : BOOLEAN]

Endpoint ==
    [at : {"off", "nokey", "failed", "starting", "up"}, ep : Endpoints \cup {0},
     relay : Relays \cup {"none"}]

Removal ==
    [at : {"off", "load", "write", "close"}, phone : Phones \cup {Nobody}, read : SUBSET Phones]

\* A change that runs has settings to run for, and an endpoint has its relay.
TypeOK ==
    /\ PairingType
    /\ settings \in Changes
    /\ running \in Endpoint
    /\ bound \subseteq Endpoints /\ gone \subseteq Phones
    /\ conn \in [Phones -> Conn]
    /\ task \in [Askers -> Task]
    /\ removal \in Removal

\* A phone that was removed is shut out: once its removal is over, whatever the
\* hook, the registration, the second check and the removal's two steps
\* interleave to, it is served no more until it is on the list again
\* (endpoint.rs: "a revoke after that point finds and closes it, and a revoke
\* before it is seen by the check").  One connection the code leaves open, and
\* this says which: the phone was already served by an endpoint that listens
\* and is not the installed one, so that the window's revoke closed nothing
\* (revoke_phone, NoConnections).
RemovedIsShutOut ==
    \A p \in gone : conn[p].at = "served" /\ conn[p].open => conn[p].missed

\* Whenever no change is under way, what listens is what Running says and what
\* the switch says: nothing when it is off, one endpoint under the chosen relay
\* when it is up, and with the switch on a start that was tried with the key
\* there is (mod.rs: "so *off* means nothing is listening any more").
EndpointMatchesSwitch ==
    (\A k \in Askers : task[k].at \in {"off", "lock"}) =>
        /\ bound = IF running.at = "up" THEN {running.ep} ELSE {}
        /\ running.at = "up" => settings.enabled /\ settings.relay = running.relay
        /\ settings.enabled /\ (\A k \in Askers : task[k].at = "off") =>
              running.at \in {"up", "failed"} \/ (running.at = "nokey" /\ ~key)

\* No endpoint is stopped over a phone that is still connected, whose change
\* was written, and that has not been answered: the stop waits until the answer
\* has reached it or the ceiling has passed (mod.rs, patch_locked: "a phone's
\* *off*, written and then waiting for the lock, was stopped by the window's
\* reconcile, and found nothing left to hold for its own answer").
AskerHearsFirst ==
    [][bound \ bound' # {} => \A p \in Phones : ~(conn[p].open /\ conn[p].call = "written")]_vars

\* A change waits for an answer that cannot be written.
StopIsHeld == \E k \in Askers : task[k].at = "wait" /\ Unwritable(task[k].asker)

\* The window's remote_set is answered, unless a phone whose own change stops
\* the endpoint stays connected and from some time on reads nothing for good.
\* A phone that reads and never acknowledges, one that goes, and one that
\* stalls for a while, do not keep remote access from turning off (bridge.rs,
\* WRITTEN_CEILING: "a phone that has stopped answering must not keep remote
\* access from turning off").
SwitchSettles == task["window"].at # "off" ~> (task["window"].at = "off" \/ []StopIsHeld)
=============================================================================

----------------------------- MODULE ServeHost -----------------------------
(***************************************************************************)
(* The host the desktop app drives a run through (createSession in         *)
(* src/src/serve.ts), the boundaries at which the run asks it something    *)
(* (src/src/orchestrator.ts) and what a client draws of the frames it      *)
(* sends back (src/app/src/cockpit/hosts.ts).  Several clients write into  *)
(* one pipe.  A request may be under way while what it was meant for is    *)
(* over: a second answer to one gate, a pause the boundary has overtaken,  *)
(* a stop for a run that has returned.                                     *)
(*                                                                         *)
(* A client's drawing is the fold of the host's frames; the flag a window  *)
(* sets of its own while its request is under way is left out.             *)
(***************************************************************************)
EXTENDS Integers, Sequences

CONSTANTS
    MaxRequests, \* bound: requests clients send
    MaxWire,     \* bound: requests in the pipe at once
    MaxSteps     \* bound: boundaries and turns of one run

ASSUME ServeAssumption == {MaxRequests, MaxWire, MaxSteps} \subseteq Nat

VARIABLES
    wire,         \* the pipe to the host, in order
    sent,         \* requests sent
    at,           \* of the run: "idle", "starting", "going", "turn", "held", "over"
    steps,        \* boundaries and turns it has had
    pause,        \* pauseRequested
    cancel,       \* the latch of cancel.ts is set
    said,         \* saidControls
    asks,         \* gates awaiting an answer, by their id
    nextAsk,
    shuttingDown,
    departed,     \* "no", "done" or "abandoned"
    draws,        \* what a client draws: the two flags and the gate's id, or 0
    past          \* history, read by the properties alone

hostVars == <<wire, sent, at, steps, pause, cancel, said, asks, nextAsk,
              shuttingDown, departed, draws, past>>

run == <<at, steps>>
controls == <<pause, cancel, said>>
gates == <<asks, nextAsk>>
leaving == <<shuttingDown, departed>>

NoFlags == [pausing |-> FALSE, stopping |-> FALSE]
Running == at # "idle"
Giving == at \in {"idle", "over"}

\* A request, and the gate of the session it is about if it is an answer.
Request(kind, id, gate) == [kind |-> kind, id |-> id, gate |-> gate]

HostInit ==
    /\ wire = <<>> /\ sent = 0
    /\ at = "idle" /\ steps = 0
    /\ pause = FALSE /\ cancel = FALSE /\ said = NoFlags
    /\ asks = {} /\ nextAsk = 0
    /\ shuttingDown = FALSE /\ departed = "no"
    /\ draws = [flags |-> NoFlags, gate |-> 0]
    /\ past = [runs |-> 0,             \* invokes accepted
               stops |-> {},           \* the runs a stop was received during
               gates |-> 0,            \* gates opened, over all runs
               mistaken |-> FALSE,     \* a gate was let go by another's answer
               pauses |-> 0,           \* pauses received
               holds |-> 0,            \* holds that were for a pause
               pressedIn |-> 0]        \* the run the armed pause is of

-----------------------------------------------------------------------------
(* The clients. *)

Send(request) ==
    /\ departed = "no" /\ sent < MaxRequests /\ Len(wire) < MaxWire
    /\ wire' = Append(wire, request) /\ sent' = sent + 1
    /\ UNCHANGED <<run, controls, gates, leaving, draws, past>>

Asks == \E kind \in {"invoke", "pause", "unpause", "cancel", "shutdown"} : Send(Request(kind, 0, 0))

\* mayAnswer: each client answers the gate it draws, once.
Answers == draws.gate # 0 /\ Send(Request("answer", draws.gate, past.gates))

\* The app is gone.
Closes ==
    /\ departed = "no" /\ shuttingDown' = TRUE
    /\ departed' = IF Running THEN "abandoned" ELSE "done"
    /\ UNCHANGED <<wire, sent, run, controls, gates, draws, past>>

\* setControls: nothing is drawn over a gate, or once the run is giving up.
DrawControls(now) ==
    draws' = [draws EXCEPT !.flags = [pausing |-> now.pausing /\ ~Giving /\ draws.gate = 0,
                                      stopping |-> now.stopping /\ ~Giving]]

\* updateRun, on a frame that opens a gate, and on one that ends the run.
DrawGate(id) == draws' = [flags |-> [draws.flags EXCEPT !.pausing = FALSE], gate |-> id]
DrawOver == draws' = [flags |-> NoFlags, gate |-> 0]

-----------------------------------------------------------------------------
(* What the host does with a request. *)

Receive(kind) ==
    /\ departed = "no" /\ wire # <<>> /\ Head(wire).kind = kind
    /\ wire' = Tail(wire) /\ UNCHANGED sent

SayControls(now) ==
    /\ said' = now
    /\ IF now # said THEN DrawControls(now) ELSE UNCHANGED draws

ReceiveInvoke ==
    /\ Receive("invoke")
    /\ IF shuttingDown \/ Running THEN UNCHANGED <<run, past>>
       ELSE /\ at' = "starting" /\ steps' = 0
            /\ past' = [past EXCEPT !.runs = @ + 1]
    /\ UNCHANGED <<controls, gates, leaving, draws>>

ReceivePause ==
    /\ Receive("pause")
    /\ pause' = TRUE
    /\ SayControls([pausing |-> TRUE, stopping |-> cancel])
    /\ past' = [past EXCEPT !.pauses = @ + 1,
                            !.pressedIn = IF Running THEN past.runs ELSE past.runs + 1]
    /\ UNCHANGED <<run, cancel, gates, leaving>>

ReceiveUnpause ==
    /\ Receive("unpause")
    /\ pause' = FALSE
    /\ SayControls([pausing |-> FALSE, stopping |-> cancel])
    /\ UNCHANGED <<run, cancel, gates, leaving, past>>

\* requestCancel sets the latch; the child it kills ends when it does.
ReceiveCancel ==
    /\ Receive("cancel")
    /\ cancel' = TRUE
    /\ SayControls([pausing |-> pause, stopping |-> TRUE])
    /\ past' = [past EXCEPT !.stops = IF Running THEN @ \cup {past.runs} ELSE @]
    /\ UNCHANGED <<run, pause, gates, leaving>>

\* The gate is let go, the run narrates it and goes on, or stops.
ReceiveAnswer ==
    /\ Receive("answer")
    /\ LET answer == Head(wire)
       IN IF answer.id \in asks
          THEN /\ asks' = asks \ {answer.id}
               /\ past' = [past EXCEPT !.mistaken = @ \/ answer.gate # past.gates]
               /\ \/ at' = "going" /\ draws' = [draws EXCEPT !.gate = 0]
                  \/ at' = "over" /\ DrawOver
          ELSE UNCHANGED <<asks, at, draws, past>>
    /\ UNCHANGED <<steps, controls, nextAsk, leaving>>

SettleIfDone(idle) ==
    departed' = IF shuttingDown' /\ idle /\ departed = "no" THEN "done" ELSE departed

ReceiveShutdown ==
    /\ Receive("shutdown")
    /\ shuttingDown' = TRUE /\ SettleIfDone(~Running)
    /\ UNCHANGED <<run, controls, gates, draws, past>>

Receives ==
    \/ ReceiveInvoke \/ ReceivePause \/ ReceiveUnpause
    \/ ReceiveCancel \/ ReceiveAnswer \/ ReceiveShutdown

-----------------------------------------------------------------------------
(* The run. *)

Steps(n) == departed = "no" /\ steps + n <= MaxSteps /\ steps' = steps + n

\* execute: the latch a previous run left is cleared.
Begin ==
    /\ at = "starting" /\ Steps(0)
    /\ at' = "going" /\ cancel' = FALSE
    /\ UNCHANGED <<wire, sent, pause, said, gates, leaving, draws, past>>

\* Host.takePause
TakePause == pause' = FALSE /\ said' = [said EXCEPT !.pausing = FALSE]

\* A boundary that takes the pause and neither holds nor stops.
PassBoundary ==
    /\ at = "going" /\ ~pause /\ Steps(1)
    /\ TakePause
    /\ UNCHANGED <<wire, sent, at, cancel, gates, leaving, draws, past>>

\* One whose row says stop: nobody is asked.
StopAtBoundary ==
    /\ at = "going" /\ Steps(1)
    /\ TakePause
    /\ at' = "over" /\ DrawOver
    /\ UNCHANGED <<wire, sent, cancel, gates, leaving, past>>

\* One that holds, because its row says so or for the pause it took.
HoldAtBoundary ==
    /\ at = "going" /\ Steps(1)
    /\ TakePause
    /\ at' = "held"
    /\ nextAsk' = nextAsk + 1 /\ asks' = asks \cup {nextAsk + 1}
    /\ DrawGate(nextAsk + 1)
    /\ past' = [past EXCEPT !.gates = @ + 1, !.holds = IF pause THEN @ + 1 ELSE @]
    /\ UNCHANGED <<wire, sent, cancel, leaving>>

\* An agent's turn, which the latch refuses.
TurnStarts ==
    /\ at = "going" /\ Steps(1)
    /\ IF cancel THEN at' = "over" /\ DrawOver ELSE at' = "turn" /\ UNCHANGED draws
    /\ UNCHANGED <<wire, sent, controls, gates, leaving, past>>

TurnEnds ==
    /\ at = "turn" /\ Steps(0)
    /\ \/ at' = "going" /\ UNCHANGED draws
       \/ at' = "over" /\ DrawOver
    /\ UNCHANGED <<wire, sent, controls, gates, leaving, past>>

\* (wrong: the next run's gates are numbered from the start again)
ForgetsTheCount ==
    /\ asks' = {} /\ nextAsk' = 0
    /\ pause' = FALSE /\ said' = NoFlags

\* (wrong: a pause no boundary took stays armed)
ForgetsNoPause ==
    /\ asks' = {} /\ UNCHANGED nextAsk
    /\ UNCHANGED pause /\ said' = NoFlags

\* What runInvoke leaves behind for the next run.
Forgets ==
    /\ asks' = {} /\ UNCHANGED nextAsk
    /\ pause' = FALSE /\ said' = NoFlags

\* (wrong: a shutdown that was waiting for the run is not settled)
ReturnsUnsettled ==
    /\ at \in {"starting", "going", "over"} /\ departed = "no"
    /\ at' = "idle" /\ UNCHANGED <<steps, cancel>>
    /\ Forgets /\ DrawOver
    /\ UNCHANGED <<leaving, wire, sent, past>>

\* The command returned: a command that is no run, a refused one, or a run.
Returns ==
    /\ at \in {"starting", "going", "over"} /\ departed = "no"
    /\ at' = "idle" /\ UNCHANGED <<steps, cancel>>
    /\ Forgets /\ DrawOver
    /\ UNCHANGED shuttingDown /\ SettleIfDone(TRUE)
    /\ UNCHANGED <<wire, sent, past>>

RunSteps ==
    \/ Begin \/ PassBoundary \/ StopAtBoundary \/ HoldAtBoundary
    \/ TurnStarts \/ TurnEnds \/ Returns

HostNext == Asks \/ Answers \/ Closes \/ Receives \/ RunSteps

\* The event loop reads what is in the pipe, and a run whose turns end (each has
\* a timeout) takes its next step.  Nobody has to answer a gate.
HostSpec == HostInit /\ [][HostNext]_hostVars /\ WF_hostVars(Receives) /\ WF_hostVars(RunSteps)

-----------------------------------------------------------------------------
(* Properties. *)

Flags == [pausing : BOOLEAN, stopping : BOOLEAN]
Kinds == {"invoke", "pause", "unpause", "cancel", "shutdown", "answer"}

HostTypeOK ==
    /\ wire \in Seq([kind : Kinds, id : Nat, gate : Nat]) /\ sent \in 0..MaxRequests
    /\ at \in {"idle", "starting", "going", "turn", "held", "over"} /\ steps \in 0..MaxSteps
    /\ pause \in BOOLEAN /\ cancel \in BOOLEAN /\ said \in Flags
    /\ asks \subseteq Nat /\ nextAsk \in Nat
    /\ shuttingDown \in BOOLEAN /\ departed \in {"no", "done", "abandoned"}
    /\ draws \in [flags : Flags, gate : Nat]

\* A gate is let go by an answer to that gate: a second client's answer to one
\* that is over, of this run or of an earlier one, decides nothing.
StaleAnswersDecideNothing == ~past.mistaken

\* A pause holds once, and only the run it was pressed during, or the next one
\* if there was none: never a later run (serve.ts, the finally of runInvoke).
PauseIsOfThisRun ==
    /\ past.holds <= past.pauses
    /\ pause => past.pressedIn = IF Running THEN past.runs ELSE past.runs + 1

\* A host that is told to go goes, with what is under way finished first, and
\* waits for nothing but an answer to the gate it holds.
LeavesWhenTold == shuttingDown ~> departed # "no" \/ at = "held"

\* A stop is a latch: no agent turn of the run it was received during starts
\* after it (serve.ts, cancel).
StopIsObeyed == [][at # "turn" /\ at' = "turn" => past.runs \notin past.stops]_hostVars
=============================================================================

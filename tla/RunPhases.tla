----------------------------- MODULE RunPhases -----------------------------
(***************************************************************************)
(* What state.phase promises to everything that reads a stored run (a      *)
(* resume, a fork, the cockpit): planning, implementing, reviewing,        *)
(* complete, one at a time and never back, each entered by a process that  *)
(* works on the run.  A plan-only run goes from planning to complete; only *)
(* a resume that is told to implement it opens it again, once, and makes   *)
(* it a run like any other.  The phases are those of runPhases in          *)
(* src/src/orchestrator.ts; PlanLoop implements the first half and         *)
(* ReviewLoop the second.                                                  *)
(***************************************************************************)
CONSTANT First  \* the phase a behaviour starts in: planning, implementing or reviewing

VARIABLES
    phase,     \* state.phase of the stored record
    planOnly,  \* state.planOnly of it
    working    \* whether a process has the run

Following == [planning |-> "implementing", implementing |-> "reviewing", reviewing |-> "complete"]

Init ==
    /\ phase = First
    /\ planOnly \in BOOLEAN /\ (planOnly => First = "planning")
    /\ working = TRUE

\* advancePhase: one save, by the process that did the phase's work.
Advance ==
    /\ working /\ phase \in DOMAIN Following
    /\ phase' = IF planOnly THEN "complete" ELSE Following[phase]
    /\ UNCHANGED <<planOnly, working>>

\* A stop of any kind, a kill included, keeps the phase it found.
Stop ==
    /\ working
    /\ working' = FALSE
    /\ UNCHANGED <<phase, planOnly>>

\* resumePhase: a resume goes on with the phase on disk, and finds a finished
\* run finished.
Resume ==
    /\ ~working /\ phase \in DOMAIN Following
    /\ working' = TRUE
    /\ UNCHANGED <<phase, planOnly>>

\* continueIntoImplementation: a plan-only run that is complete, and no other.
Continue ==
    /\ ~working /\ planOnly /\ phase = "complete"
    /\ phase' = "implementing"
    /\ planOnly' = FALSE
    /\ working' = TRUE

Next == Advance \/ Stop \/ Resume \/ Continue

Spec == Init /\ [][Next]_<<phase, planOnly, working>>
=============================================================================

----------------------------- MODULE HeadTests -----------------------------
(***************************************************************************)
(* What a run promises about the tests of its tree: each holds the version *)
(* its writer or a person wrote last, and only a newer one ever takes its  *)
(* place, but for one that a person wrote over a replay cut off, which is  *)
(* taken back.  Replaying an earlier version is invisible here: TestReplay *)
(* implements this, with the head of a file the one the saved marker names *)
(* if it names one and nobody has written since, and what the tree holds   *)
(* otherwise.                                                              *)
(***************************************************************************)
EXTENDS Integers

CONSTANT Files

VARIABLES
    head,    \* the version of each test
    behind,  \* tests written since a replay was cut off, and their versions then
    stray    \* whether a gate's process may write to the tree beside the run

Init ==
    /\ head = [f \in Files |-> 0]
    /\ behind = [f \in {} |-> 0]
    /\ stray = FALSE

Written ==
    /\ \E files \in SUBSET Files :
          /\ \A f \in files : head'[f] > head[f]
          /\ head' = [f \in Files |-> IF f \in files THEN head'[f] ELSE head[f]]
    /\ UNCHANGED <<behind, stray>>

\* A person writes a test of a replay that was cut off.
WrittenOver ==
    /\ \E f \in Files :
          /\ head'[f] > head[f]
          /\ head' = [head EXCEPT ![f] = head'[f]]
          /\ behind' = [g \in DOMAIN behind \cup {f} |-> IF g \in DOMAIN behind THEN behind[g] ELSE head[f]]
    /\ UNCHANGED stray

\* The restore, or the gate that outlived its pass, puts that replay's version back.
TakenBack ==
    /\ \E f \in DOMAIN behind :
          /\ head' = [head EXCEPT ![f] = behind[f]]
          /\ behind' = [g \in DOMAIN behind \ {f} |-> behind[g]]
    /\ UNCHANGED stray

\* A person resumes beside a process that a gate left.
GoesStray == stray' = TRUE /\ UNCHANGED <<head, behind>>

Overwritten == stray /\ DOMAIN head' = Files /\ UNCHANGED stray

Next == Written \/ WrittenOver \/ TakenBack \/ GoesStray \/ Overwritten

Spec == Init /\ [][Next]_<<head, behind, stray>>
=============================================================================

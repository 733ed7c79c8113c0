------------------------------- MODULE MCRunLock -------------------------------
(* Three commands over two run ids, one of whose configurations gives it a   *)
(* worktree: every command can want a run another has, or one beside it.     *)
(* Two commands are on one machine and can probe each other, the third is on *)
(* another and cannot be probed; it is also the one given --force.           *)
EXTENDS RunLock
CONSTANTS p1, p2, p3, r1, r2, here, there
MCProcs == {p1, p2, p3}
MCRuns == {r1, r2}
MCHosts == {here, there}
TwoHosts(p) == IF p = p3 THEN there ELSE here
MCWorktrees == {r1}
MCExisting == {r1}
MCForcers == {p3}
=============================================================================

---------------------------- MODULE MCTestReplay ----------------------------
(* Two test files, so that a batch that fails is replayed one by one.       *)
EXTENDS TestReplay
CONSTANTS f1, f2
MCFiles == {f1, f2}
=============================================================================

------------------------------ MODULE MCTurnCharge ------------------------------
(* Two dispatched turns, one of each provider, and the rotation beside them. *)
EXTENDS TurnCharge

TwoTurns == {"review", "finder"}
OnClaude == {"finder"}
=============================================================================

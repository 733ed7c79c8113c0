---------------------------- MODULE MCReviewLoop ----------------------------
(* Small instances of ReviewLoop: every boundary may stop the run.         *)
EXTENDS ReviewLoop
MCHolds == {"implemented", "verify-round", "review-round"}
=============================================================================

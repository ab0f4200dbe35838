---------------------------- MODULE MCSessionRuns ----------------------------
(* TLC instances of SessionRuns. *)
EXTENDS SessionRuns, TLC

CONSTANTS p1, p2, k1

PromptSymmetry == Permutations({p1, p2})
=============================================================================

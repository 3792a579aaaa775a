------------------------- MODULE MCRetryingCallers -------------------------
(* Instances of RetryingCallers for TLC. *)
EXTENDS RetryingCallers, TLC

CallerSymmetry == Permutations(Callers)
=============================================================================

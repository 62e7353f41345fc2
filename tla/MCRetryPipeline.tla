--------------------------- MODULE MCRetryPipeline ---------------------------
(* RetryPipeline for TLC: messages are interchangeable. *)
EXTENDS RetryPipeline, TLC

Symmetry == Permutations(Msg)
=============================================================================

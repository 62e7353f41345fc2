------------------------------ MODULE MCDispatch ------------------------------
(* Dispatch for TLC: trips, drivers and goroutines are interchangeable. *)
EXTENDS Dispatch, TLC

Symmetry == Permutations(Trip) \union Permutations(Driver) \union Permutations(Worker)
===============================================================================

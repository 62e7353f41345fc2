---------------------------- MODULE MCTripService ----------------------------
(* TripService for TLC: drivers are interchangeable, and so are trips. *)
EXTENDS TripService, TLC

Symmetry == Permutations(Driver) \union Permutations(Trip)
=============================================================================

------------------------------- MODULE MCBooking -------------------------------
(* Booking for TLC: riders are interchangeable. *)
EXTENDS Booking, TLC

Symmetry == Permutations(Rider)

\* A route of 3 km in 5 minutes.
OneRoute == {[distance |-> 3000, duration |-> 301]}
================================================================================

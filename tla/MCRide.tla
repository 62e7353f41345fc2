-------------------------------- MODULE MCRide --------------------------------
(* Ride for TLC. *)
EXTENDS Ride
================================================================================

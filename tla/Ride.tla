--------------------------------- MODULE Ride ---------------------------------
(***************************************************************************)
(* What a ride sets in motion around a trip: the sockets of rider and      *)
(* driver, the simulator that drives and reports, and the search index     *)
(* that follows the trip's events.                                         *)
(*                                                                         *)
(* The simulator's reports are notices for the sockets, which are counted  *)
(* there and may come at any time, and its completion is an event for the  *)
(* index; otherwise the sockets share nothing with the other two.  So      *)
(* "scene" lets either the sockets move or the trips: that leaves out      *)
(* interleavings of steps which do not see each other.                     *)
(***************************************************************************)
EXTENDS Sockets

CONSTANTS
  Rider,
  MaxTrips,  \* bound on trips, which are numbered
  MaxRuns    \* bound on simulated rides

ASSUME RideAssumption == None \notin Rider /\ {MaxTrips, MaxRuns} \subseteq Nat

Trip == 1 .. MaxTrips

VARIABLES
  scene,     \* what moves: "sockets" or "trips"
  owner,     \* the rider of each trip, None before it is created
  calledOff, \* cancellations the driver service has not handled
  active, drives, leg, stopped,  \* of Simulator
  docs, events                   \* of SearchIndex

Sim == INSTANCE Simulator
Index == INSTANCE SearchIndex

trips == <<owner, calledOff>>
sim == <<active, drives, leg, stopped>>
index == <<docs, events>>
tripVars == <<trips, sim, index>>
rideVars == <<vars, scene, tripVars>>

RideTypeOK ==
  /\ TypeOK /\ Sim!SimTypeOK /\ Index!IndexTypeOK
  /\ scene \in {"sockets", "trips"}
  /\ owner \in [Trip -> Rider \union {None}]
  /\ calledOff \subseteq Trip

RideInit ==
  /\ Init /\ Sim!SimInit /\ Index!IndexInit
  /\ scene \in {"sockets", "trips"}
  /\ owner = [t \in Trip |-> None]
  /\ calledOff = {}

-----------------------------------------------------------------------------
(* The trips *)

\* The trip service publishes a created trip, and publishes it again when a
\* declined or unanswered offer makes another search.
Search(t, r) ==
  /\ owner[t] \in {None, r}
  /\ owner' = [owner EXCEPT ![t] = r]
  /\ Index!Publish("created", t, r)
  /\ UNCHANGED <<calledOff, sim, docs>>

\* handleDriverResponse of the driver service has found the offer of a driver
\* who accepts; a trip may be offered again whatever has become of it.
Accept(t) ==
  /\ owner[t] # None
  /\ Sim!Start(t)
  /\ UNCHANGED <<trips, index>>

\* A rider, a driver or the search timeout calls the trip off.
Cancel(t) ==
  /\ owner[t] # None
  /\ calledOff' = calledOff \union {t}
  /\ Index!Publish("cancelled", t, owner[t])
  /\ UNCHANGED <<owner, sim, docs>>

\* handleTripCancelled of the driver service; the message may come again.
StopRide(t) ==
  /\ t \in calledOff
  /\ calledOff' \in {calledOff, calledOff \ {t}}
  /\ IF active[t] = Sim!NoRun THEN UNCHANGED sim ELSE Sim!Stop(t)
  /\ UNCHANGED <<owner, index>>

\* A report that cannot be published is only logged.
Drive(r) ==
  /\ Sim!Advance(r)
  /\ \/ leg[r] = "route" /\ Index!Publish("completed", drives[r], owner[drives[r]])
     \/ UNCHANGED events
  /\ UNCHANGED <<trips, docs>>

\* The driver's app reports the end of a ride as well.
Complete(t) ==
  /\ owner[t] # None
  /\ Index!Publish("completed", t, owner[t])
  /\ UNCHANGED <<trips, sim, docs>>

Simulate(r) == (Sim!Quit(r) \/ Sim!Leave(r)) /\ UNCHANGED <<trips, index>>

DriverServiceStops == Sim!Forget /\ UNCHANGED <<trips, index>>

FollowTrips ==
  \E e \in events : (Index!Handle(e) \/ Index!HandleFails(e)) /\ UNCHANGED <<trips, sim>>

TripsNext ==
  \/ \E t \in Trip : \/ \E r \in Rider : Search(t, r)
                     \/ Accept(t) \/ Cancel(t) \/ StopRide(t) \/ Complete(t)
  \/ \E r \in Sim!Run : Drive(r) \/ Simulate(r)
  \/ DriverServiceStops \/ FollowTrips

RideNext ==
  /\ UNCHANGED scene
  /\ \/ scene = "sockets" /\ Next /\ UNCHANGED tripVars
     \/ scene = "trips" /\ TripsNext /\ UNCHANGED vars

RideSpec == RideInit /\ [][RideNext]_rideVars
FairRideSpec == RideSpec /\ Fairness

-----------------------------------------------------------------------------
(* Properties *)

\* A ride that is being driven ends when the trip is cancelled: its cancel
\* function is in the map, unless that of a ride stopped before was (Start,
\* Stop and the deferred Delete of run in simulator.go).
DriveCanBeStopped == Sim!CanBeStopped
================================================================================

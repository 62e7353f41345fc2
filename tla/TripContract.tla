---------------------------- MODULE TripContract ----------------------------
(***************************************************************************)
(* What the trip service promises riders, drivers and the other services,  *)
(* without its table, outbox, timers, topics, retries or crashes:          *)
(*   - a trip walks the states of the transition table in                  *)
(*     state_machine_test.go, one at a time, and never leaves an end state;*)
(*   - one driver at most is assigned, when the search ends, for good;     *)
(*   - the rider hears only of the driver the trip has;                    *)
(*   - a trip reported unserved has ended without any driver, so no rider  *)
(*     is told both.                                                       *)
(* TripService implements it (property ImplementsContract there).          *)
(***************************************************************************)

CONSTANTS Trip, Driver, NoDriver

VARIABLES
  phase,      \* the state of each trip
  assignee,   \* the driver of each trip, or NoDriver
  announced,  \* pairs <<t, d>>: the rider of t was told that d is coming
  unserved    \* trips whose rider was told that the search timed out

vars == <<phase, assignee, announced, unserved>>

\* The ride itself: what follows each state once there is a driver.
AfterThis ==
  [accepted |-> "driver_arrived", driver_arrived |-> "in_progress",
   in_progress |-> "completed", completed |-> "paid"]

Init ==
  /\ phase = [t \in Trip |-> "none"]
  /\ assignee = [t \in Trip |-> NoDriver]
  /\ announced = {}
  /\ unserved = {}

Open(t) ==
  /\ phase[t] = "none"
  /\ phase' = [phase EXCEPT ![t] = "searching"]
  /\ UNCHANGED <<assignee, announced, unserved>>

Assign(t, d) ==
  /\ phase[t] = "searching"
  /\ phase' = [phase EXCEPT ![t] = "accepted"]
  /\ assignee' = [assignee EXCEPT ![t] = d]
  /\ UNCHANGED <<announced, unserved>>

Advance(t) ==
  /\ phase[t] \in DOMAIN AfterThis
  /\ phase' = [phase EXCEPT ![t] = AfterThis[@]]
  /\ UNCHANGED <<assignee, announced, unserved>>

\* Some trips are called off, each before its ride has begun.
CallOff(S) ==
  /\ \A t \in S : phase[t] \in {"searching", "accepted", "driver_arrived"}
  /\ phase' = [t \in Trip |-> IF t \in S THEN "cancelled" ELSE phase[t]]
  /\ UNCHANGED <<assignee, announced, unserved>>

Announce(t, d) ==
  /\ assignee[t] = d
  /\ t \notin unserved
  /\ announced' = announced \union {<<t, d>>}
  /\ UNCHANGED <<phase, assignee, unserved>>

ReportUnserved(t) ==
  /\ phase[t] = "cancelled"
  /\ assignee[t] = NoDriver
  /\ unserved' = unserved \union {t}
  /\ UNCHANGED <<phase, assignee, announced>>

Next ==
  \/ \E t \in Trip : Open(t) \/ Advance(t) \/ ReportUnserved(t)
  \/ \E t \in Trip, d \in Driver : Assign(t, d) \/ Announce(t, d)
  \/ \E S \in SUBSET Trip : CallOff(S)

Spec == Init /\ [][Next]_vars
=============================================================================

------------------------------- MODULE Simulator -------------------------------
(***************************************************************************)
(* The ride simulator of the driver service (simulator.go): a goroutine    *)
(* per accepted trip, "run", which drives to the pickup, waits, drives the *)
(* route and reports each, and a map from the trip to the goroutine's      *)
(* cancel function, by which a cancelled trip ends it.                     *)
(*                                                                         *)
(* An operation on the map and a status report are one step each.  The     *)
(* positions reported in between change nothing here.                      *)
(***************************************************************************)
EXTENDS Integers

CONSTANTS
  Trip,
  MaxRuns   \* bound on goroutines, which are numbered as they start

Run == 1 .. MaxRuns
NoRun == 0

VARIABLES
  active,   \* the map: whose cancel function is kept for each trip
  drives,   \* the trip of each goroutine
  leg,      \* where each goroutine is
  stopped   \* goroutines whose context was cancelled

\* The leg that follows, after a report; "leaving" is the deferred call.
After == [approach |-> "pickup", pickup |-> "route", route |-> "leaving"]
Driving == {r \in Run : leg[r] \in DOMAIN After}

SimTypeOK ==
  /\ active \in [Trip -> Run \union {NoRun}]
  /\ leg \in [Run -> DOMAIN After \union {"none", "leaving", "ended"}]
  /\ drives \in [Run -> Trip \union {NoRun}]
  /\ \A r \in Run : leg[r] # "none" => drives[r] \in Trip
  /\ stopped \subseteq Run

SimInit ==
  /\ active = [t \in Trip |-> NoRun]
  /\ drives = [r \in Run |-> NoRun]
  /\ leg = [r \in Run |-> "none"]
  /\ stopped = {}

-----------------------------------------------------------------------------

Begin(r, t) ==
  /\ leg[r] = "none" /\ \A q \in Run : q < r => leg[q] # "none"
  /\ active' = [active EXCEPT ![t] = r]
  /\ drives' = [drives EXCEPT ![r] = t]
  /\ leg' = [leg EXCEPT ![r] = "approach"]
  /\ UNCHANGED stopped

\* Mutant: Store in place of LoadOrStore.
StartAnyway(t) == \E r \in Run : Begin(r, t)

\* LoadOrStore: a trip that has an entry is being driven already.
Start(t) == active[t] = NoRun /\ \E r \in Run : Begin(r, t)

\* LoadAndDelete, then the cancel function that was found.
Stop(t) ==
  /\ active[t] # NoRun
  /\ stopped' = stopped \union {active[t]}
  /\ active' = [active EXCEPT ![t] = NoRun]
  /\ UNCHANGED <<drives, leg>>

\* driveLeg or the wait is over; then the report.  A stopped goroutine gets
\* here as well, if its timer had fired by the time of its select.
Advance(r) ==
  /\ r \in Driving
  /\ leg' = [leg EXCEPT ![r] = After[@]]
  /\ UNCHANGED <<active, drives, stopped>>

Quit(r) ==
  /\ r \in Driving /\ r \in stopped
  /\ leg' = [leg EXCEPT ![r] = "leaving"]
  /\ UNCHANGED <<active, drives, stopped>>

\* The deferred Delete, whoever's the entry is by now.
Leave(r) ==
  /\ leg[r] = "leaving"
  /\ leg' = [leg EXCEPT ![r] = "ended"]
  /\ active' = [active EXCEPT ![drives[r]] = NoRun]
  /\ UNCHANGED <<drives, stopped>>

\* The driver service restarts and forgets every ride.
Forget ==
  /\ active' = [t \in Trip |-> NoRun]
  /\ leg' = [r \in Run |-> IF leg[r] = "none" THEN "none" ELSE "ended"]
  /\ UNCHANGED <<drives, stopped>>

-----------------------------------------------------------------------------

\* A goroutine that drives can be stopped: the map has its cancel function,
\* unless one that was stopped before it deleted the entry when it ended.
CanBeStopped ==
  \A r \in Driving \ stopped :
    \/ active[drives[r]] = r
    \/ \E q \in stopped : q < r /\ drives[q] = drives[r] /\ leg[q] = "ended"
================================================================================

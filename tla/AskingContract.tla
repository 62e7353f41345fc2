---------------------------- MODULE AskingContract ----------------------------
(***************************************************************************)
(* What dispatching promises the drivers, without its searches, map,       *)
(* timers, waiting list and messages: a trip is with one driver at a time, *)
(* and no driver is asked to take the same trip twice.  Whether the driver *)
(* answers, lets the time pass or the trip is called off, the request ends *)
(* before the next driver is asked.                                        *)
(* Dispatch implements it (property ImplementsAsking there).               *)
(***************************************************************************)

CONSTANTS Trip, Driver

VARIABLES
  opened,    \* trips that were created
  asked,     \* the driver the request for each trip is with, if any
  requested  \* pairs <<t, d>>: d was asked to take t

vars == <<opened, asked, requested>>

Init ==
  /\ opened = {}
  /\ asked = [t \in Trip |-> {}]
  /\ requested = {}

Open(t) ==
  /\ t \notin opened
  /\ opened' = opened \union {t}
  /\ UNCHANGED <<asked, requested>>

Ask(t, d) ==
  /\ t \in opened
  /\ asked[t] = {}
  /\ <<t, d>> \notin requested
  /\ asked' = [asked EXCEPT ![t] = {d}]
  /\ requested' = requested \union {<<t, d>>}
  /\ UNCHANGED opened

Release(t) ==
  /\ asked' = [asked EXCEPT ![t] = {}]
  /\ UNCHANGED <<opened, requested>>

Next ==
  \/ \E t \in Trip : Open(t) \/ Release(t)
  \/ \E t \in Trip, d \in Driver : Ask(t, d)

Spec == Init /\ [][Next]_vars
===============================================================================

-------------------------- MODULE TripServiceProofs --------------------------
(***************************************************************************)
(* Theorems about TripService, for any set of trips and drivers, any lag   *)
(* and orderly drivers or not.                                             *)
(***************************************************************************)
EXTENDS TripService, TLAPS

\* What the consumers read out of a message.
LEMMA MessageFields ==
  ASSUME NEW m \in Inbound
  PROVE  /\ m.trip \in Trip
         /\ m.kind = "accept" => m.driver \in Driver
         /\ m.kind = "decline" => m.driver \in Driver
BY DEF Inbound, Message, DriverMessage, Progress

\* Every message about a trip is of its kind.
LEMMA MessageTypes ==
  ASSUME NEW t \in Trip
  PROVE  /\ Created(t) \in OutboxRow
         /\ Unserved(t) \in OutboxRow
         /\ Cancelled(t) \in OutboxRow \intersect Inbound
         /\ \A k \in Progress \union {"paid"} : [kind |-> k, trip |-> t] \in Inbound
         /\ Charge(t) \in Outbound
BY DEF OutboxRow, Inbound, Outbound, Message, Progress, Created, Unserved,
       Cancelled, Charge

\* So is every message that names a driver.
LEMMA DriverMessageTypes ==
  ASSUME NEW t \in Trip, NEW d \in Driver
  PROVE  /\ \A k \in {"accept", "decline"} : Response(k, t, d) \in Inbound
         /\ Assigned(t, d) \in Outbound
         /\ Response("driver_not_interested", t, d) \in Outbound
BY DEF Inbound, Outbound, DriverMessage, Response, Assigned

\* The guarded UPDATE leaves a table of statuses.
LEMMA UpdateTripType ==
  ASSUME status \in [Trip -> Statuses], NEW t \in Trip,
         NEW s \in {"accepted", "driver_arrived", "in_progress", "completed", "paid"},
         UpdateTrip(t, s) \/ UNCHANGED status
  PROVE  status' \in [Trip -> Statuses]
BY DEF UpdateTrip, Statuses

\* One step of the service or of its environment keeps the types.
LEMMA TypeStep == TypeOK /\ [Next]_vars => TypeOK'
<1> SUFFICES ASSUME TypeOK, [Next]_vars PROVE TypeOK'
  OBVIOUS
<1> USE DEF TypeOK
<1>1. ASSUME NEW t \in Trip, CreateTrip(t) PROVE TypeOK'
  BY <1>1, MessageTypes DEF CreateTrip, CreateTripWithOutbox, Statuses, bus
<1>2. ASSUME NEW t \in Trip, runSearchTimeout(t) PROVE TypeOK'
  BY <1>2, MessageTypes
  DEF runSearchTimeout, ExpireSearchWithOutbox, Statuses, bus
<1>3. ASSUME NEW t \in Trip, RateTrip(t) PROVE TypeOK'
  BY <1>3 DEF RateTrip, bus
<1>4. ASSUME NEW S \in SUBSET Trip, ExpireStaleSearching(S) PROVE TypeOK'
  BY <1>4 DEF ExpireStaleSearching, Statuses, bus
<1>5. ASSUME NEW r \in outbox, RelayPublish(r) PROVE TypeOK'
  BY <1>5 DEF RelayPublish, table
<1>6. ASSUME NEW m \in queue \union running, Consume(m) PROVE TypeOK'
  <2> m \in Inbound
    OBVIOUS
  <2> USE MessageFields
  <2>1. CASE handleTripAccepted(m)
    BY <2>1, UpdateTripType DEF handleTripAccepted
  <2>2. CASE publishAssigned(m)
    BY <2>2, DriverMessageTypes DEF publishAssigned, Settle, table
  <2>3. CASE handleTripDeclined(m)
    BY <2>3, DriverMessageTypes DEF handleTripDeclined, Settle, table
  <2>4. CASE handleTripCompleted(m)
    BY <2>4, UpdateTripType DEF handleTripCompleted
  <2>5. CASE publishCreateSession(m)
    BY <2>5, MessageTypes DEF publishCreateSession, Settle, table
  <2>6. CASE handleTripCancelled(m)
    BY <2>6 DEF handleTripCancelled, CancelTrip, Statuses, Settle
  <2>7. CASE handleStatusUpdate(m)
    BY <2>7, UpdateTripType DEF handleStatusUpdate, Settle
  <2>8. CASE handlePaymentSuccess(m)
    BY <2>8, UpdateTripType DEF handlePaymentSuccess, Settle
  <2>9. CASE GiveUp(m)
    BY <2>9 DEF GiveUp, table
  <2> QED
    BY <1>6, <2>1, <2>2, <2>3, <2>4, <2>5, <2>6, <2>7, <2>8, <2>9 DEF Consume
<1>7. ASSUME NEW T \in SUBSET timers, NEW M \in SUBSET running, Interrupt(T, M)
      PROVE TypeOK'
  BY <1>7 DEF Interrupt, table
<1>8. ASSUME NEW m \in Inbound, Publish(m) PROVE TypeOK'
  BY <1>8 DEF Publish, table
<1>9. ASSUME Environment PROVE \E m \in Inbound : Publish(m)
  BY <1>9, MessageTypes, DriverMessageTypes
  DEF Environment, AppCancels, PaymentSucceeds, DriverReports, DriverResponds
<1>10. CASE UNCHANGED vars
  BY <1>10 DEF vars
<1> QED
  BY <1>1, <1>2, <1>3, <1>4, <1>5, <1>6, <1>7, <1>8, <1>9, <1>10 DEF Next

\* The variables keep their types (every statement of the repository and every
\* handler of the service).
THEOREM TypeCorrect == Spec => []TypeOK
<1>1. Init => TypeOK
  BY DEF Init, TypeOK, Statuses
<1> QED
  BY <1>1, TypeStep, PTL DEF Spec

-----------------------------------------------------------------------------

\* Messages of different kinds, trips or drivers are different messages.
LEMMA MessagesDiffer ==
  /\ \A t, u \in Trip :
       /\ Created(t) # Unserved(u) /\ Created(t) # Cancelled(u)
       /\ Unserved(t) # Cancelled(u)
       /\ t # u => Created(t) # Created(u) /\ Unserved(t) # Unserved(u)
  /\ \A t \in Trip : {Created(t), Unserved(t)} \intersect (Inbound \union Outbound) = {}
  /\ \A t \in Trip, d \in Driver : Assigned(t, d) \notin Inbound \union OutboxRow
  /\ \A t, u \in Trip, d, e \in Driver :
       /\ Assigned(t, d) # Charge(u)
       /\ Assigned(t, d) # Response("driver_not_interested", u, e)
       /\ Assigned(t, d) = Assigned(u, e) => t = u /\ d = e
BY DEF Created, Unserved, Cancelled, Charge, Assigned, Response, Inbound, Outbound,
       OutboxRow, Message, DriverMessage, Progress

\* A step that only records, publishes or queues messages, none of them a
\* creation, a timeout or an assignment, keeps the invariant.
LEMMA OtherMessagesAreSafe ==
  ASSUME IInv, TypeOK', UNCHANGED table,
         running' \subseteq running,
         \A t \in Trip : /\ Recorded(Created(t))' <=> Recorded(Created(t))
                         /\ Recorded(Unserved(t))' <=> Recorded(Unserved(t))
                         /\ Recorded(Cancelled(t)) => Recorded(Cancelled(t))',
         \A t \in Trip, d \in Driver : Assigned(t, d) \in log' => Assigned(t, d) \in log
  PROVE  IInv'
BY DEF IInv, table, OutboxMatchesTable, AnnouncedDriverIsAssigned,
       DriverMatchesStatus, UnservedTripHasNoDriver, RatedTripIsFinished,
       HalfAcceptedTripIsTheirs

\* A trip that moves along its ride, or stays where it is, keeps the invariant:
\* it has a driver before and after.
LEMMA RideMoveIsSafe ==
  ASSUME IInv, TypeOK', NEW t \in Trip,
         NEW s \in {"driver_arrived", "in_progress", "completed", "paid"},
         UpdateTrip(t, s) \/ UNCHANGED status, UNCHANGED <<driver, rated, outbox, log>>,
         \A m \in running' : m.kind = "accept" => m \in running
  PROVE  IInv'
<1> USE DEF IInv, UpdateTrip, allowedFrom, cancellableStates
<1>1. status'[t] # "none" <=> status[t] # "none"
  BY DEF TypeOK
<1>2. \A u \in Trip : u # t => status'[u] = status[u]
  BY DEF TypeOK
<1>3. OutboxMatchesTable'
  BY <1>1, <1>2 DEF OutboxMatchesTable, Recorded
<1>4. DriverMatchesStatus'
  BY <1>2 DEF DriverMatchesStatus, TypeOK
<1>5. UnservedTripHasNoDriver'
  BY <1>2 DEF UnservedTripHasNoDriver, Recorded, TypeOK
<1>6. RatedTripIsFinished'
  BY <1>2 DEF RatedTripIsFinished, TypeOK
<1> QED
  BY <1>3, <1>4, <1>5, <1>6 DEF AnnouncedDriverIsAssigned, HalfAcceptedTripIsTheirs

\* Trips that are cancelled while they may be keep the invariant.
LEMMA CancelIsSafe ==
  ASSUME IInv, TypeOK', NEW S \in SUBSET Trip,
         \A t \in S : status[t] \in cancellableStates,
         status' = [t \in Trip |-> IF t \in S THEN "cancelled" ELSE status[t]],
         UNCHANGED <<driver, rated, log, running>>,
         \A t \in Trip : /\ Recorded(Created(t))' <=> Recorded(Created(t))
                         /\ Recorded(Unserved(t))' =>
                              \/ Recorded(Unserved(t))
                              \/ t \in S /\ status[t] = "searching" /\ Recorded(Cancelled(t))'
                         /\ Recorded(Cancelled(t)) => Recorded(Cancelled(t))'
  PROVE  IInv'
<1> USE DEF IInv, cancellableStates
<1>1. OutboxMatchesTable'
  BY DEF OutboxMatchesTable
<1>2. DriverMatchesStatus'
  BY DEF DriverMatchesStatus
<1>3. UnservedTripHasNoDriver'
  BY DEF DriverMatchesStatus, UnservedTripHasNoDriver
<1>4. RatedTripIsFinished'
  BY DEF RatedTripIsFinished, TypeOK
<1> QED
  BY <1>1, <1>2, <1>3, <1>4 DEF AnnouncedDriverIsAssigned, HalfAcceptedTripIsTheirs

\* Every step keeps the invariant: an acceptance, a cancellation and a timeout
\* of one trip exclude each other through the guards of their UPDATEs.
LEMMA InvStep == IInv /\ [Next]_vars => IInv'
<1> SUFFICES ASSUME IInv, [Next]_vars PROVE IInv'
  OBVIOUS
<1> TypeOK /\ TypeOK'
  BY TypeStep DEF IInv
<1>1. ASSUME NEW t \in Trip, CreateTrip(t) PROVE IInv'
  <2> USE <1>1, MessagesDiffer DEF CreateTrip, CreateTripWithOutbox, IInv, TypeOK
  <2>1. OutboxMatchesTable'
    BY DEF OutboxMatchesTable, Recorded, bus
  <2>2. DriverMatchesStatus'
    BY DEF DriverMatchesStatus
  <2>3. UnservedTripHasNoDriver'
    BY DEF UnservedTripHasNoDriver, Recorded, bus
  <2>4. RatedTripIsFinished'
    BY DEF RatedTripIsFinished
  <2> QED
    BY <2>1, <2>2, <2>3, <2>4
    DEF AnnouncedDriverIsAssigned, HalfAcceptedTripIsTheirs, bus
<1>2. ASSUME NEW t \in Trip, runSearchTimeout(t) PROVE IInv'
  <2>1. CASE status[t] = "searching"
    <3> DEFINE S == {t}
    <3>1. status' = [u \in Trip |-> IF u \in S THEN "cancelled" ELSE status[u]]
      BY <1>2, <2>1 DEF runSearchTimeout, ExpireSearchWithOutbox, TypeOK
    <3>2. \A u \in Trip :
            /\ Recorded(Created(u))' <=> Recorded(Created(u))
            /\ Recorded(Unserved(u))' => Recorded(Unserved(u)) \/ u = t
            /\ Recorded(Cancelled(u)) => Recorded(Cancelled(u))'
            /\ Recorded(Cancelled(t))'
      BY <1>2, <2>1, MessagesDiffer
      DEF runSearchTimeout, ExpireSearchWithOutbox, Recorded, bus
    <3>3. S \in SUBSET Trip /\ (\A u \in S : status[u] \in cancellableStates)
      BY <2>1 DEF cancellableStates
    <3>4. UNCHANGED <<driver, rated, log, running>>
      BY <1>2 DEF runSearchTimeout, bus
    <3>5. \A u \in Trip : Recorded(Unserved(u))' =>
            \/ Recorded(Unserved(u))
            \/ u \in S /\ status[u] = "searching" /\ Recorded(Cancelled(u))'
      BY <2>1, <3>2
    <3> HIDE DEF S
    <3> QED
      BY <3>1, <3>2, <3>3, <3>4, <3>5, CancelIsSafe
  <2>2. CASE status[t] # "searching"
    BY <1>2, <2>2, OtherMessagesAreSafe
    DEF runSearchTimeout, ExpireSearchWithOutbox, table, bus, Recorded
  <2> QED
    BY <2>1, <2>2
<1>3. ASSUME NEW t \in Trip, RateTrip(t) PROVE IInv'
  BY <1>3
  DEF RateTrip, bus, IInv, OutboxMatchesTable, Recorded, AnnouncedDriverIsAssigned,
      DriverMatchesStatus, UnservedTripHasNoDriver, RatedTripIsFinished,
      HalfAcceptedTripIsTheirs
<1>4. ASSUME NEW S \in SUBSET Trip, ExpireStaleSearching(S) PROVE IInv'
  <2>1. \A t \in S : status[t] \in cancellableStates
    BY <1>4 DEF ExpireStaleSearching, cancellableStates
  <2> QED
    BY <1>4, <2>1, CancelIsSafe DEF ExpireStaleSearching, bus, Recorded
<1>5. ASSUME NEW r \in outbox, RelayPublish(r) PROVE IInv'
  <2>1. \A x : Recorded(x)' <=> Recorded(x)
    BY <1>5 DEF RelayPublish, Recorded
  <2>2. \A t \in Trip, d \in Driver : Assigned(t, d) \in log' => Assigned(t, d) \in log
    BY <1>5, MessagesDiffer DEF RelayPublish, TypeOK
  <2> QED
    BY <1>5, <2>1, <2>2, OtherMessagesAreSafe DEF RelayPublish
<1>6. ASSUME NEW m \in queue \union running, Consume(m) PROVE IInv'
  <2> m \in Inbound /\ m.trip \in Trip
    BY MessageFields DEF TypeOK
  <2>1. CASE handleTripAccepted(m)
    <3> m.driver \in Driver
      BY <2>1, MessageFields DEF handleTripAccepted
    <3> USE <2>1 DEF handleTripAccepted, UpdateTrip, allowedFrom, IInv, TypeOK
    <3>1. OutboxMatchesTable'
      BY DEF OutboxMatchesTable, Recorded
    <3>2. AnnouncedDriverIsAssigned'
      BY DriverAssumption DEF AnnouncedDriverIsAssigned, DriverMatchesStatus
    <3>3. DriverMatchesStatus'
      BY DriverAssumption DEF DriverMatchesStatus
    <3>4. UnservedTripHasNoDriver'
      BY DEF UnservedTripHasNoDriver, Recorded
    <3>5. RatedTripIsFinished'
      BY DEF RatedTripIsFinished
    <3>6. HalfAcceptedTripIsTheirs'
      BY MessageFields, DriverAssumption DEF HalfAcceptedTripIsTheirs, DriverMatchesStatus
    <3> QED
      BY <3>1, <3>2, <3>3, <3>4, <3>5, <3>6
  <2>2. CASE publishAssigned(m)
    <3> m.driver \in Driver
      BY <2>2, MessageFields DEF publishAssigned
    <3>1. \A t \in Trip : Assigned(m.trip, m.driver) \notin {Created(t), Unserved(t), Cancelled(t)}
      BY MessagesDiffer, MessageTypes
    <3>2. AnnouncedDriverIsAssigned'
      BY <2>2, MessagesDiffer
      DEF publishAssigned, table, IInv, AnnouncedDriverIsAssigned, HalfAcceptedTripIsTheirs
    <3> QED
      BY <2>2, <3>1, <3>2
      DEF publishAssigned, table, IInv, OutboxMatchesTable, Recorded, DriverMatchesStatus,
          UnservedTripHasNoDriver, RatedTripIsFinished, HalfAcceptedTripIsTheirs
  <2>3. CASE handleTripDeclined(m)
    <3> m.driver \in Driver
      BY <2>3, MessageFields DEF handleTripDeclined
    <3> DEFINE sent == Response("driver_not_interested", m.trip, m.driver)
    <3>1. sent \in Outbound
      BY DriverMessageTypes
    <3> QED
      BY <2>3, <3>1, MessagesDiffer, OtherMessagesAreSafe
      DEF handleTripDeclined, Recorded
  <2>4. CASE handleTripCompleted(m)
    BY <2>4, RideMoveIsSafe DEF handleTripCompleted
  <2>5. CASE publishCreateSession(m)
    <3>1. Charge(m.trip) \in Outbound
      BY MessageTypes
    <3> QED
      BY <2>5, <3>1, MessagesDiffer, OtherMessagesAreSafe
      DEF publishCreateSession, Recorded
  <2>6. CASE handleTripCancelled(m)
    <3>1. CASE status[m.trip] \in cancellableStates
      <4> DEFINE S == {m.trip}
      <4>1. status' = [u \in Trip |-> IF u \in S THEN "cancelled" ELSE status[u]]
        BY <2>6, <3>1 DEF handleTripCancelled, CancelTrip, TypeOK
      <4>2. S \in SUBSET Trip /\ (\A u \in S : status[u] \in cancellableStates)
        BY <3>1
      <4> HIDE DEF S
      <4> QED
        BY <2>6, <4>1, <4>2, CancelIsSafe DEF handleTripCancelled, Recorded
    <3>2. CASE status[m.trip] \notin cancellableStates
      BY <2>6, <3>2, OtherMessagesAreSafe
      DEF handleTripCancelled, CancelTrip, Recorded, table
    <3> QED
      BY <3>1, <3>2
  <2>7. CASE handleStatusUpdate(m)
    BY <2>7, RideMoveIsSafe DEF handleStatusUpdate
  <2>8. CASE handlePaymentSuccess(m)
    BY <2>8, RideMoveIsSafe DEF handlePaymentSuccess
  <2>9. CASE GiveUp(m)
    BY <2>9, OtherMessagesAreSafe DEF GiveUp, Recorded
  <2> QED
    BY <1>6, <2>1, <2>2, <2>3, <2>4, <2>5, <2>6, <2>7, <2>8, <2>9 DEF Consume
<1>7. ASSUME NEW T \in SUBSET timers, NEW M \in SUBSET running, Interrupt(T, M)
      PROVE IInv'
  BY <1>7, OtherMessagesAreSafe DEF Interrupt, Recorded
<1>8. ASSUME NEW m \in Inbound, Publish(m) PROVE IInv'
  <2>1. \A t \in Trip : /\ Recorded(Created(t))' <=> Recorded(Created(t))
                        /\ Recorded(Unserved(t))' <=> Recorded(Unserved(t))
                        /\ Recorded(Cancelled(t)) => Recorded(Cancelled(t))'
    BY <1>8, MessagesDiffer DEF Publish, Recorded
  <2>2. \A t \in Trip, d \in Driver : Assigned(t, d) \in log' => Assigned(t, d) \in log
    BY <1>8, MessagesDiffer DEF Publish
  <2> QED
    BY <1>8, <2>1, <2>2, OtherMessagesAreSafe DEF Publish
<1>9. ASSUME Environment PROVE \E m \in Inbound : Publish(m)
  BY <1>9, MessageTypes, DriverMessageTypes
  DEF Environment, AppCancels, PaymentSucceeds, DriverReports, DriverResponds
<1>10. CASE UNCHANGED vars
  BY <1>10, OtherMessagesAreSafe DEF vars, table, Recorded
<1> QED
  BY <1>1, <1>2, <1>3, <1>4, <1>5, <1>6, <1>7, <1>8, <1>9, <1>10 DEF Next

\* The initial state of the empty database.
LEMMA InvInit == Init => IInv
BY DriverAssumption
DEF Init, IInv, TypeOK, Statuses, OutboxMatchesTable, Recorded, AnnouncedDriverIsAssigned,
    DriverMatchesStatus, UnservedTripHasNoDriver, RatedTripIsFinished,
    HalfAcceptedTripIsTheirs

\* The inductive invariant holds in every reachable state.
THEOREM InvariantHolds == Spec => []IInv
BY InvInit, InvStep, PTL DEF Spec

\* The outbox agrees with the table (CreateTripWithOutbox and
\* ExpireSearchWithOutbox, each one transaction).
THEOREM OutboxAgrees == Spec => []OutboxMatchesTable
<1>1. IInv => OutboxMatchesTable
  BY DEF IInv
<1> QED
  BY <1>1, InvariantHolds, PTL

\* The rider hears only of the driver in the row (handleTripAccepted).
THEOREM AnnouncedIsAssigned == Spec => []AnnouncedDriverIsAssigned
<1>1. IInv => AnnouncedDriverIsAssigned
  BY DEF IInv
<1> QED
  BY <1>1, InvariantHolds, PTL

\* An acceptance and the search timeout of one trip exclude each other
\* (handleTripAccepted against runSearchTimeout).
THEOREM UnservedIsDriverless == Spec => []UnservedTripHasNoDriver
<1>1. IInv => UnservedTripHasNoDriver
  BY DEF IInv
<1> QED
  BY <1>1, InvariantHolds, PTL

\* What is rated is over and was driven, whatever happens to the trip afterwards
\* (RateTrip against the sweep, the cancellations and the late reports).
THEOREM RatedIsFinished == Spec => []RatedTripIsFinished
<1>1. IInv => RatedTripIsFinished
  BY DEF IInv
<1> QED
  BY <1>1, InvariantHolds, PTL

-----------------------------------------------------------------------------

\* Only handleTripAccepted writes driver_id, of a trip that has none.
LEMMA DriverStep ==
  ASSUME IInv, [Next]_vars, NEW t \in Trip, driver[t] # NoDriver
  PROVE  driver'[t] = driver[t]
<1>1. ASSUME NEW m \in queue \union running, handleTripAccepted(m)
      PROVE  driver'[t] = driver[t]
  BY <1>1
  DEF handleTripAccepted, IInv, DriverMatchesStatus, TypeOK, allowedFrom
<1>2. ASSUME ~ \E m \in queue \union running : handleTripAccepted(m)
      PROVE  driver' = driver
  BY <1>2
  DEF Next, vars, table, CreateTrip, runSearchTimeout, RateTrip, ExpireStaleSearching,
      RelayPublish, Consume, publishAssigned, handleTripDeclined, handleTripCompleted,
      publishCreateSession, handleTripCancelled, handleStatusUpdate, handlePaymentSuccess,
      GiveUp, Interrupt, Environment, AppCancels, PaymentSucceeds, DriverReports,
      DriverResponds, Publish
<1> QED
  BY <1>1, <1>2

\* A trip's driver is never replaced nor dropped: the action property, from the
\* invariant (allowedFrom admits one acceptance).
THEOREM DriverStays == Spec => DriverIsKept
<1>1. IInv /\ [Next]_vars =>
        [\A t \in Trip : driver[t] # NoDriver => driver'[t] = driver[t]]_vars
  BY DriverStep
<1> QED
  BY <1>1, InvariantHolds, PTL DEF Spec, DriverIsKept

-----------------------------------------------------------------------------
(* TripService implements TripContract. *)

AnnouncedPairs == {p \in Trip \X Driver : Assigned(p[1], p[2]) \in log}
UnservedTrips == {t \in Trip : Unserved(t) \in log}

\* A step that publishes no assignment and no timeout tells the rider nothing.
LEMMA RiderHearsNothing ==
  ASSUME \A t \in Trip : Unserved(t) \in log' <=> Unserved(t) \in log,
         \A t \in Trip, d \in Driver : Assigned(t, d) \in log' <=> Assigned(t, d) \in log
  PROVE  UNCHANGED <<AnnouncedPairs, UnservedTrips>>
BY DEF AnnouncedPairs, UnservedTrips

\* What the environment publishes is no assignment and no timeout.
LEMMA InboundTellsNothing ==
  ASSUME NEW m \in Inbound \union Outbound, log' = log \union {m},
         \A t \in Trip, d \in Driver : m # Assigned(t, d)
  PROVE  UNCHANGED <<AnnouncedPairs, UnservedTrips>>
BY MessagesDiffer, RiderHearsNothing

\* The guarded UPDATE is a step along the ride or nothing, as is one that fails.
LEMMA RideMoveAdvances ==
  ASSUME TypeOK, NEW t \in Trip,
         NEW s \in {"driver_arrived", "in_progress", "completed", "paid"},
         UpdateTrip(t, s) \/ UNCHANGED status,
         UNCHANGED <<driver, AnnouncedPairs, UnservedTrips>>
  PROVE  [Contract!Next]_(Contract!vars)
<1>1. CASE status[t] \in allowedFrom[s] /\ UpdateTrip(t, s)
  <2> Contract!AfterThis[status[t]] = s
    BY <1>1 DEF allowedFrom, Contract!AfterThis
  <2>1. status' = [status EXCEPT ![t] = Contract!AfterThis[@]]
    BY <1>1 DEF UpdateTrip
  <2>2. status[t] \in DOMAIN Contract!AfterThis
    BY <1>1 DEF allowedFrom, Contract!AfterThis
  <2> QED
    BY <2>1, <2>2 DEF Contract!Next, Contract!Advance, AnnouncedPairs, UnservedTrips
<1>2. CASE UNCHANGED status \/ status[t] \notin allowedFrom[s]
  BY <1>2 DEF UpdateTrip, Contract!vars, AnnouncedPairs, UnservedTrips
<1> QED
  BY <1>1, <1>2

\* Trips cancelled before their ride begins are called off.
LEMMA CancelCallsOff ==
  ASSUME NEW S \in SUBSET Trip, \A t \in S : status[t] \in cancellableStates,
         status' = [t \in Trip |-> IF t \in S THEN "cancelled" ELSE status[t]],
         UNCHANGED <<driver, AnnouncedPairs, UnservedTrips>>
  PROVE  [Contract!Next]_(Contract!vars)
<1>1. Contract!CallOff(S)
  BY DEF Contract!CallOff, cancellableStates, AnnouncedPairs, UnservedTrips
<1> QED
  BY <1>1 DEF Contract!Next

\* A step that touches neither the table nor what the rider hears is a stutter.
LEMMA SilentStep ==
  ASSUME UNCHANGED <<status, driver, AnnouncedPairs, UnservedTrips>>
  PROVE  [Contract!Next]_(Contract!vars)
BY DEF Contract!vars, AnnouncedPairs, UnservedTrips

\* Every step of the service is a step of the contract or a stutter.
LEMMA ContractStep ==
  ASSUME IInv, [Next]_vars
  PROVE  [Contract!Next]_(Contract!vars)
<1> TypeOK
  BY DEF IInv
<1>1. ASSUME NEW t \in Trip, CreateTrip(t) PROVE Contract!Open(t)
  <2>1. UNCHANGED <<AnnouncedPairs, UnservedTrips>>
    BY <1>1, RiderHearsNothing DEF CreateTrip, bus
  <2> QED
    BY <1>1, <2>1
    DEF CreateTrip, CreateTripWithOutbox, Contract!Open, AnnouncedPairs, UnservedTrips
<1>2. ASSUME NEW t \in Trip, runSearchTimeout(t) PROVE [Contract!Next]_(Contract!vars)
  <2>1. UNCHANGED <<driver, AnnouncedPairs, UnservedTrips>>
    BY <1>2, RiderHearsNothing DEF runSearchTimeout, bus
  <2>2. CASE status[t] = "searching"
    <3> DEFINE S == {t}
    <3>1. status' = [u \in Trip |-> IF u \in S THEN "cancelled" ELSE status[u]]
      BY <1>2, <2>2 DEF runSearchTimeout, ExpireSearchWithOutbox, TypeOK
    <3>2. S \in SUBSET Trip /\ (\A u \in S : status[u] \in cancellableStates)
      BY <2>2 DEF cancellableStates
    <3> HIDE DEF S
    <3> QED
      BY <2>1, <3>1, <3>2, CancelCallsOff
  <2>3. CASE status[t] # "searching"
    BY <1>2, <2>1, <2>3, SilentStep DEF runSearchTimeout, ExpireSearchWithOutbox
  <2> QED
    BY <2>2, <2>3
<1>3. ASSUME NEW t \in Trip, RateTrip(t) PROVE [Contract!Next]_(Contract!vars)
  BY <1>3, RiderHearsNothing, SilentStep DEF RateTrip, bus
<1>4. ASSUME NEW S \in SUBSET Trip, ExpireStaleSearching(S)
      PROVE  [Contract!Next]_(Contract!vars)
  <2>1. UNCHANGED <<driver, AnnouncedPairs, UnservedTrips>>
    BY <1>4, RiderHearsNothing DEF ExpireStaleSearching, bus
  <2>2. \A t \in S : status[t] \in cancellableStates
    BY <1>4 DEF ExpireStaleSearching, cancellableStates
  <2> QED
    BY <1>4, <2>1, <2>2, CancelCallsOff DEF ExpireStaleSearching
<1>5. ASSUME NEW r \in outbox, RelayPublish(r) PROVE [Contract!Next]_(Contract!vars)
  <2>1. r \in OutboxRow
    BY DEF TypeOK
  <2>2. UNCHANGED <<status, driver>> /\ log' = log \union {r}
    BY <1>5 DEF RelayPublish, table
  <2>3. UNCHANGED AnnouncedPairs
    BY <2>1, <2>2, MessagesDiffer DEF AnnouncedPairs
  <2>4. ASSUME NEW t \in Trip, r = Unserved(t) PROVE Contract!ReportUnserved(t)
    <3>1. UnservedTrips' = UnservedTrips \union {t}
      BY <2>2, <2>4, MessagesDiffer DEF UnservedTrips
    <3>2. status[t] = "cancelled" /\ driver[t] = NoDriver
      BY <2>4 DEF IInv, UnservedTripHasNoDriver, Recorded
    <3> QED
      BY <2>2, <2>3, <3>1, <3>2 DEF Contract!ReportUnserved, AnnouncedPairs, UnservedTrips
  <2>5. ASSUME \A t \in Trip : r # Unserved(t) PROVE UNCHANGED UnservedTrips
    BY <2>2, <2>5 DEF UnservedTrips
  <2> QED
    BY <2>2, <2>3, <2>4, <2>5, SilentStep DEF Contract!Next
<1>6. ASSUME NEW m \in queue \union running, Consume(m)
      PROVE  [Contract!Next]_(Contract!vars)
  <2> m \in Inbound /\ m.trip \in Trip
    BY MessageFields DEF TypeOK
  <2>1. ASSUME handleTripAccepted(m) PROVE Contract!Assign(m.trip, m.driver) /\ m.driver \in Driver
    <3>1. UNCHANGED <<AnnouncedPairs, UnservedTrips>>
      BY <2>1, RiderHearsNothing DEF handleTripAccepted
    <3> QED
      BY <2>1, <3>1, MessageFields
      DEF handleTripAccepted, UpdateTrip, allowedFrom, Contract!Assign, AnnouncedPairs,
          UnservedTrips
  <2>2. ASSUME publishAssigned(m) PROVE Contract!Announce(m.trip, m.driver) /\ m.driver \in Driver
    <3>1. m.driver \in Driver
      BY <2>2, MessageFields DEF publishAssigned
    <3>2. AnnouncedPairs' = AnnouncedPairs \union {<<m.trip, m.driver>>}
      BY <2>2, <3>1, MessagesDiffer DEF publishAssigned, AnnouncedPairs
    <3>3. UNCHANGED UnservedTrips
      BY <2>2, <3>1, MessagesDiffer, DriverMessageTypes DEF publishAssigned, UnservedTrips
    <3>4. driver[m.trip] = m.driver
      BY <2>2 DEF publishAssigned, IInv, HalfAcceptedTripIsTheirs
    <3>5. m.trip \notin UnservedTrips
      BY <3>1, <3>4, DriverAssumption
      DEF IInv, UnservedTripHasNoDriver, UnservedTrips, Recorded
    <3> QED
      BY <2>2, <3>1, <3>2, <3>3, <3>4, <3>5
      DEF publishAssigned, table, Contract!Announce, AnnouncedPairs, UnservedTrips
  <2>3. CASE handleTripDeclined(m)
    <3> DEFINE sent == Response("driver_not_interested", m.trip, m.driver)
    <3>1. sent \in Outbound
      BY <2>3, MessageFields, DriverMessageTypes DEF handleTripDeclined
    <3>2. \A t \in Trip, d \in Driver : sent # Assigned(t, d)
      BY <2>3, MessageFields, MessagesDiffer DEF handleTripDeclined
    <3> QED
      BY <2>3, <3>1, <3>2, InboundTellsNothing, SilentStep DEF handleTripDeclined, table
  <2>4. CASE handleTripCompleted(m)
    BY <2>4, RiderHearsNothing, RideMoveAdvances DEF handleTripCompleted
  <2>5. CASE publishCreateSession(m)
    <3>1. Charge(m.trip) \in Outbound
      BY MessageTypes
    <3> QED
      BY <2>5, <3>1, MessagesDiffer, InboundTellsNothing, SilentStep
      DEF publishCreateSession, table
  <2>6. CASE handleTripCancelled(m)
    <3>1. UNCHANGED <<driver, AnnouncedPairs, UnservedTrips>>
      BY <2>6, RiderHearsNothing DEF handleTripCancelled
    <3>2. CASE status[m.trip] \in cancellableStates
      <4> DEFINE S == {m.trip}
      <4>1. status' = [u \in Trip |-> IF u \in S THEN "cancelled" ELSE status[u]]
        BY <2>6, <3>2 DEF handleTripCancelled, CancelTrip, TypeOK
      <4>2. S \in SUBSET Trip /\ (\A u \in S : status[u] \in cancellableStates)
        BY <3>2
      <4> HIDE DEF S
      <4> QED
        BY <3>1, <4>1, <4>2, CancelCallsOff
    <3>3. CASE status[m.trip] \notin cancellableStates
      BY <2>6, <3>1, <3>3, SilentStep DEF handleTripCancelled, CancelTrip
    <3> QED
      BY <3>2, <3>3
  <2>7. CASE handleStatusUpdate(m)
    BY <2>7, RiderHearsNothing, RideMoveAdvances DEF handleStatusUpdate
  <2>8. CASE handlePaymentSuccess(m)
    BY <2>8, RiderHearsNothing, RideMoveAdvances DEF handlePaymentSuccess
  <2>9. CASE GiveUp(m)
    BY <2>9, RiderHearsNothing, SilentStep DEF GiveUp, table
  <2> QED
    BY <1>6, <2>1, <2>2, <2>3, <2>4, <2>5, <2>6, <2>7, <2>8, <2>9
    DEF Consume, Contract!Next
<1>7. ASSUME NEW T \in SUBSET timers, NEW M \in SUBSET running, Interrupt(T, M)
      PROVE  [Contract!Next]_(Contract!vars)
  BY <1>7, RiderHearsNothing, SilentStep DEF Interrupt, table
<1>8. ASSUME NEW m \in Inbound, Publish(m) PROVE [Contract!Next]_(Contract!vars)
  BY <1>8, InboundTellsNothing, MessagesDiffer, SilentStep DEF Publish, table
<1>9. ASSUME Environment PROVE \E m \in Inbound : Publish(m)
  BY <1>9, MessageTypes, DriverMessageTypes
  DEF Environment, AppCancels, PaymentSucceeds, DriverReports, DriverResponds
<1>10. CASE UNCHANGED vars
  BY <1>10, RiderHearsNothing, SilentStep DEF vars
<1> QED
  BY <1>1, <1>2, <1>3, <1>4, <1>5, <1>6, <1>7, <1>8, <1>9, <1>10 DEF Next, Contract!Next

\* The table, the outbox and the handlers keep what TripContract promises.
THEOREM Refinement == Spec => ImplementsContract
<1>1. Init => Contract!Init
  BY DEF Init, Contract!Init
<1>2. IInv /\ [Next]_vars => [Contract!Next]_(Contract!vars)
  BY ContractStep
<1> QED
  BY <1>1, <1>2, InvariantHolds, PTL DEF Spec, ImplementsContract, Contract!Spec
==============================================================================

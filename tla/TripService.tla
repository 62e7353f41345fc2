----------------------------- MODULE TripService -----------------------------
(***************************************************************************)
(* services/trip-service: the trips table and its guarded UPDATEs, the     *)
(* transactional outbox, the in-memory search timers, the sweep of stale   *)
(* searches and the Kafka consumers, run by up to a few replicas over one  *)
(* database.  The riders, drivers, simulator and payment service are the   *)
(* environment: they publish the messages the consumers read.              *)
(*                                                                         *)
(* Every database statement or transaction is one atomic step; a handler   *)
(* that publishes after its statement takes two, and anything may happen   *)
(* in between.  Messages are delivered at least once and in no particular  *)
(* order: each topic has its own consumer, and a failed message comes back *)
(* from a retry topic minutes later.                                       *)
(***************************************************************************)
EXTENDS Naturals, FiniteSets

CONSTANTS
  Trip,     \* trip ids; a UUID each, so each is created at most once
  Driver,
  NoDriver, \* the NULL driver_id of a trip nobody has accepted
  MaxLag    \* bound: nobody publishes while so many messages wait for the
            \* trip service, which keeps the checked instances small

ASSUME DriverAssumption == NoDriver \notin Driver
ASSUME MaxLagAssumption == MaxLag \in Nat

VARIABLES
  status,   \* trips.status, "none" before the row exists
  driver,   \* trips.driver_id
  rated,    \* trips with a rating
  timers,   \* trips with a runSearchTimeout goroutine in some replica
  outbox,   \* outbox rows with published_at IS NULL
  log,      \* every message ever published, by anyone
  queue,    \* messages the trip service's consumers have not committed
  running   \* messages whose handler has updated the row but not yet published

vars == <<status, driver, rated, timers, outbox, log, queue, running>>
table == <<status, driver, rated>>
bus == <<log, queue, running>>

-----------------------------------------------------------------------------
(* Messages, named after what they say; the trip is all that is kept of    *)
(* most of them.                                                           *)

Message(kinds) == [kind : kinds, trip : Trip]
DriverMessage(kinds) == [kind : kinds, trip : Trip, driver : Driver]

Created(t)   == [kind |-> "trip_created", trip |-> t]
Unserved(t)  == [kind |-> "no_drivers_found", trip |-> t]
Cancelled(t) == [kind |-> "trip_cancelled", trip |-> t]
Charge(t)    == [kind |-> "create_session", trip |-> t]
Response(k, t, d) == [kind |-> k, trip |-> t, driver |-> d]
Assigned(t, d)    == Response("driver_assigned", t, d)

\* What is written to the outbox, what the consumers read, what they publish.
OutboxRow == Message({"trip_created", "no_drivers_found", "trip_cancelled"})
Progress  == {"driver_arrived", "in_progress", "completed"}
Inbound   == Message(Progress \union {"trip_cancelled", "paid"})
               \union DriverMessage({"accept", "decline"})
Outbound  == Message({"create_session"})
               \union DriverMessage({"driver_assigned", "driver_not_interested"})

Statuses == {"none", "searching", "accepted", "driver_arrived", "in_progress",
             "completed", "paid", "cancelled"}

TypeOK ==
  /\ status \in [Trip -> Statuses]
  /\ driver \in [Trip -> Driver \union {NoDriver}]
  /\ rated \subseteq Trip
  /\ timers \subseteq Trip
  /\ outbox \subseteq OutboxRow
  /\ log \subseteq OutboxRow \union Inbound \union Outbound
  /\ queue \subseteq Inbound
  /\ running \subseteq Inbound

Init ==
  /\ status = [t \in Trip |-> "none"]
  /\ driver = [t \in Trip |-> NoDriver]
  /\ rated = {}
  /\ timers = {}
  /\ outbox = {}
  /\ log = {}
  /\ queue = {}
  /\ running = {}

-----------------------------------------------------------------------------
(* The trips table *)

\* Mutant: a ride under way may be cancelled too.
cancellableInRide == {"searching", "accepted", "driver_arrived", "in_progress"}

\* Mutant: a finished ride may be cancelled too.
cancellableAfterRide == {"searching", "accepted", "driver_arrived", "completed"}

cancellableStates == {"searching", "accepted", "driver_arrived"}

allowedFrom ==
  [accepted |-> {"searching"}, driver_arrived |-> {"accepted"},
   in_progress |-> {"driver_arrived"}, completed |-> {"in_progress"},
   paid |-> {"completed"}, cancelled |-> cancellableStates]

\* UPDATE trips SET status = s WHERE id = t AND status = ANY(allowedFrom[s]);
\* no row is touched when the guard fails.
UpdateTrip(t, s) ==
  status' = IF status[t] \in allowedFrom[s]
            THEN [status EXCEPT ![t] = s] ELSE status

CancelTrip(t) ==
  status' = IF status[t] \in cancellableStates
            THEN [status EXCEPT ![t] = "cancelled"] ELSE status

\* Mutant: the trip without its event.
CreateTripAlone(t) ==
  /\ status' = [status EXCEPT ![t] = "searching"]
  /\ UNCHANGED outbox

\* One transaction: the trip and the event that announces it.
CreateTripWithOutbox(t) ==
  /\ status' = [status EXCEPT ![t] = "searching"]
  /\ outbox' = outbox \union {Created(t)}

\* Mutant: the messages are recorded although the UPDATE found no searching trip.
ExpireSearchUnchecked(t) ==
  /\ status' = IF status[t] = "searching"
               THEN [status EXCEPT ![t] = "cancelled"] ELSE status
  /\ outbox' = outbox \union {Unserved(t), Cancelled(t)}

\* One transaction: the search ends and both timeout messages are recorded,
\* or, when the trip is no longer searching, nothing.
ExpireSearchWithOutbox(t) ==
  IF status[t] = "searching"
  THEN /\ status' = [status EXCEPT ![t] = "cancelled"]
       /\ outbox' = outbox \union {Unserved(t), Cancelled(t)}
  ELSE UNCHANGED <<status, outbox>>

-----------------------------------------------------------------------------
(* gRPC calls and background loops *)

\* A request whose fare is the rider's own and has not expired; any other is
\* refused before the table is touched.
CreateTrip(t) ==
  /\ status[t] = "none"
  /\ CreateTripWithOutbox(t)
  /\ timers' = timers \union {t}
  /\ UNCHANGED <<driver, rated, bus>>

runSearchTimeout(t) ==
  /\ t \in timers
  /\ timers' = timers \ {t}
  /\ ExpireSearchWithOutbox(t)
  /\ UNCHANGED <<driver, rated, bus>>

\* Mutant: the sweep takes the searches that still have their timer.
SweepTimedOnly(S) ==
  /\ S # {}
  /\ S \subseteq {t \in timers : status[t] = "searching"}
  /\ status' = [t \in Trip |-> IF t \in S THEN "cancelled" ELSE status[t]]
  /\ UNCHANGED <<driver, rated, timers, outbox, bus>>

\* The sweep takes searches older than five minutes, those whose two-minute
\* timer has run or was lost with its replica.  It writes no outbox row.
ExpireStaleSearching(S) ==
  /\ S # {}
  /\ S \subseteq {t \in Trip : status[t] = "searching" /\ t \notin timers}
  /\ status' = [t \in Trip |-> IF t \in S THEN "cancelled" ELSE status[t]]
  /\ UNCHANGED <<driver, rated, timers, outbox, bus>>

RateTrip(t) ==
  /\ status[t] \in {"completed", "paid"}
  /\ rated' = rated \union {t}
  /\ UNCHANGED <<status, driver, timers, outbox, bus>>

\* Mutant: the row is marked whether or not it was published.
RelayMark(r) ==
  /\ r \in outbox
  /\ \/ log' = log /\ queue' = queue
     \/ log' = log \union {r} /\ queue' = queue \union ({r} \intersect Inbound)
  /\ outbox' = outbox \ {r}
  /\ UNCHANGED <<table, timers, running>>

\* The relay publishes a row and marks it; the mark is lost when its
\* transaction does not commit, and the row is published again.  The code takes
\* the rows by their id and stops at the first it cannot publish.
RelayPublish(r) ==
  /\ r \in outbox
  /\ log' = log \union {r}
  /\ queue' = queue \union ({r} \intersect Inbound)
  /\ outbox' \in {outbox, outbox \ {r}}
  /\ UNCHANGED <<table, timers, running>>

-----------------------------------------------------------------------------
(* Consumers *)

\* The handler's message is committed; or it is not, because the replica stops
\* or the handler failed, and comes back.
Settle(m) == queue' \in {queue, queue \ {m}}

\* A message given up: its retries end in the dead letter queue, or it was
\* committed although it could not be written to a retry topic.
GiveUp(m) ==
  /\ m \in queue \ running
  /\ queue' = queue \ {m}
  /\ UNCHANGED <<table, timers, outbox, log, running>>

\* Mutant: the handler goes on although its UPDATE matched no row.
handleTripAcceptedUnchecked(m) ==
  /\ m \in queue \ running
  /\ m.kind = "accept"
  /\ UpdateTrip(m.trip, "accepted")
  /\ driver' = IF status[m.trip] \in allowedFrom["accepted"]
               THEN [driver EXCEPT ![m.trip] = m.driver] ELSE driver
  /\ running' = running \union {m}
  /\ UNCHANGED <<rated, timers, outbox, log, queue>>

handleTripAccepted(m) ==
  /\ m \in queue \ running
  /\ m.kind = "accept"
  /\ status[m.trip] \in allowedFrom["accepted"]
  /\ UpdateTrip(m.trip, "accepted")
  /\ driver' = [driver EXCEPT ![m.trip] = m.driver]
  /\ running' = running \union {m}
  /\ UNCHANGED <<rated, timers, outbox, log, queue>>

\* The second half of handleTripAccepted.  When the publish fails the message
\* is retried, but the UPDATE no longer matches and the rider is never told.
publishAssigned(m) ==
  /\ m \in running
  /\ m.kind = "accept"
  /\ log' = log \union {Assigned(m.trip, m.driver)}
  /\ running' = running \ {m}
  /\ Settle(m)
  /\ UNCHANGED <<table, timers, outbox>>

\* Declines look at no state: the search goes on without this driver.
handleTripDeclined(m) ==
  /\ m \in queue
  /\ m.kind = "decline"
  /\ status[m.trip] # "none"
  /\ log' = log \union {Response("driver_not_interested", m.trip, m.driver)}
  /\ Settle(m)
  /\ UNCHANGED <<table, timers, outbox, running>>

\* An UPDATE that is refused or fails is only logged: the payment is requested
\* all the same.
handleTripCompleted(m) ==
  /\ m \in queue \ running
  /\ m.kind = "completed"
  /\ UpdateTrip(m.trip, "completed") \/ UNCHANGED status
  /\ running' = running \union {m}
  /\ UNCHANGED <<driver, rated, timers, outbox, log, queue>>

publishCreateSession(m) ==
  /\ m \in running
  /\ m.kind = "completed"
  /\ status[m.trip] # "none"
  /\ log' = log \union {Charge(m.trip)}
  /\ running' = running \ {m}
  /\ Settle(m)
  /\ UNCHANGED <<table, timers, outbox>>

handleTripCancelled(m) ==
  /\ m \in queue
  /\ m.kind = "trip_cancelled"
  /\ CancelTrip(m.trip)
  /\ Settle(m)
  /\ UNCHANGED <<driver, rated, timers, outbox, log, running>>

handleStatusUpdate(m) ==
  /\ m \in queue
  /\ m.kind \in {"driver_arrived", "in_progress"}
  /\ UpdateTrip(m.trip, m.kind)
  /\ Settle(m)
  /\ UNCHANGED <<driver, rated, timers, outbox, log, running>>

handlePaymentSuccess(m) ==
  /\ m \in queue
  /\ m.kind = "paid"
  /\ UpdateTrip(m.trip, "paid")
  /\ Settle(m)
  /\ UNCHANGED <<driver, rated, timers, outbox, log, running>>

Consume(m) ==
  \/ handleTripAccepted(m) \/ publishAssigned(m)
  \/ handleTripDeclined(m)
  \/ handleTripCompleted(m) \/ publishCreateSession(m)
  \/ handleTripCancelled(m)
  \/ handleStatusUpdate(m)
  \/ handlePaymentSuccess(m)
  \/ GiveUp(m)

\* A replica stops, or its calls fail: it loses the timers it held and leaves
\* the handlers it was running half done, their messages uncommitted.
Interrupt(T, M) ==
  /\ T # {} \/ M # {}
  /\ timers' = timers \ T
  /\ running' = running \ M
  /\ UNCHANGED <<table, outbox, log, queue>>

-----------------------------------------------------------------------------
(* The environment: each of these publishes one message, any number of     *)
(* times.                                                                  *)

Publish(m) ==
  /\ Cardinality(queue) < MaxLag
  /\ log' = log \union {m}
  /\ queue' = queue \union {m}
  /\ UNCHANGED <<table, timers, outbox, running>>

\* The driver service has offered the trip and the driver answers, twice,
\* late or after another driver, as it may be.
DriverResponds(k, t, d) ==
  /\ Created(t) \in log
  /\ Publish(Response(k, t, d))

\* Rider or driver cancels from the app, in whatever state the trip is.
AppCancels(t) ==
  /\ status[t] # "none"
  /\ Publish(Cancelled(t))

\* The gateway forwards whatever it is sent, in any order.
DriverReports(k, t) ==
  /\ Created(t) \in log
  /\ Publish([kind |-> k, trip |-> t])

PaymentSucceeds(t) ==
  /\ Charge(t) \in log
  /\ Publish([kind |-> "paid", trip |-> t])

-----------------------------------------------------------------------------

Environment ==
  \E t \in Trip :
    \/ AppCancels(t) \/ PaymentSucceeds(t)
    \/ \E k \in Progress : DriverReports(k, t)
    \/ \E k \in {"accept", "decline"}, d \in Driver : DriverResponds(k, t, d)

Next ==
  \/ \E t \in Trip : CreateTrip(t) \/ runSearchTimeout(t) \/ RateTrip(t)
  \/ \E S \in SUBSET Trip : ExpireStaleSearching(S)
  \/ \E r \in outbox : RelayPublish(r)
  \/ \E m \in queue \union running : Consume(m)
  \/ \E T \in SUBSET timers, M \in SUBSET running : Interrupt(T, M)
  \/ Environment

\* A goroutine's timer fires, the relay and the sweep tick for ever, on some
\* replica.  Nobody has to create, answer, report or pay, and no message has
\* to be delivered in time.
Fairness ==
  /\ \A t \in Trip : WF_vars(runSearchTimeout(t))
  /\ \A t \in Trip : WF_vars(\E S \in SUBSET Trip : t \in S /\ ExpireStaleSearching(S))
  /\ \A r \in OutboxRow : WF_vars(RelayPublish(r))

Spec == Init /\ [][Next]_vars
FairSpec == Spec /\ Fairness

-----------------------------------------------------------------------------
(* Properties *)

\* A row recorded by a committed transaction, published or not.
Recorded(r) == r \in outbox \union log

\* The outbox never disagrees with the table: a trip exists exactly when its
\* creation is recorded, and the two timeout messages are recorded together
\* (CreateTripWithOutbox and ExpireSearchWithOutbox, each one transaction).
OutboxMatchesTable ==
  \A t \in Trip :
    /\ status[t] # "none" <=> Recorded(Created(t))
    /\ Recorded(Unserved(t)) => Recorded(Cancelled(t))

\* The driver announced to the rider is the one in the row, whatever other
\* drivers answered meanwhile, in whatever order and however often
\* (handleTripAccepted publishes only after its guarded UPDATE).
AnnouncedDriverIsAssigned ==
  \A t \in Trip, d \in Driver : Assigned(t, d) \in log => driver[t] = d

\* A ride under way has a driver and an open search has none.
DriverMatchesStatus ==
  \A t \in Trip :
    /\ status[t] \in {"none", "searching"} => driver[t] = NoDriver
    /\ status[t] \in {"accepted", "driver_arrived", "in_progress", "completed", "paid"}
         => driver[t] # NoDriver

\* An acceptance that races the search timeout has one winner: a trip recorded
\* as unserved is cancelled and no driver has it.
UnservedTripHasNoDriver ==
  \A t \in Trip : Recorded(Unserved(t)) =>
    /\ status[t] = "cancelled"
    /\ driver[t] = NoDriver

\* Only a finished ride is rated (the WHERE clause of RateTrip), and neither a
\* late cancellation nor a redelivered update takes the ride back.
RatedTripIsFinished == \A t \in rated : status[t] \in {"completed", "paid"}

\* An acceptance half handled is that of the driver in the row.
HalfAcceptedTripIsTheirs ==
  \A m \in running : m.kind = "accept" => driver[m.trip] = m.driver

\* The inductive invariant: every step of the service preserves it.
IInv ==
  /\ TypeOK
  /\ OutboxMatchesTable
  /\ AnnouncedDriverIsAssigned
  /\ DriverMatchesStatus
  /\ UnservedTripHasNoDriver
  /\ RatedTripIsFinished
  /\ HalfAcceptedTripIsTheirs

\* No step replaces or drops the driver a trip has: late accepts, declines,
\* cancellations and redeliveries leave driver_id as it was.
DriverIsKept ==
  [][\A t \in Trip : driver[t] # NoDriver => driver'[t] = driver[t]]_vars

\* Every search ends, although its timer is lost with the replica that held it
\* and every message about it may be given up: the sweep is the safety net.
SearchEnds == \A t \in Trip : status[t] = "searching" ~> status[t] # "searching"

\* What a transaction recorded is published, although the relay's own
\* transactions may fail to commit.
OutboxIsPublished == \A r \in OutboxRow : r \in outbox ~> r \in log

\* The promises of TripContract, read off the table and the log.
Contract == INSTANCE TripContract WITH
  phase <- status,
  assignee <- driver,
  announced <- {p \in Trip \X Driver : Assigned(p[1], p[2]) \in log},
  unserved <- {t \in Trip : Unserved(t) \in log}

ImplementsContract == Contract!Spec
=============================================================================

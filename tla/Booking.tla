-------------------------------- MODULE Booking --------------------------------
(***************************************************************************)
(* A rider's way from a quote to a bill: the gateway's HTTP handlers for   *)
(* trips and the circuit breaker they share, the trip service's gRPC       *)
(* handlers, and the fares and trips behind it.                            *)
(*                                                                         *)
(* Riders share a browser, each in a window with one request at a time,    *)
(* and the browser keeps the quotes it was shown.  A request moves from    *)
(* the gateway to the trip service and back; every statement in the        *)
(* database is a step of its own.                                          *)
(*                                                                         *)
(* What happens to a trip between its creation and its end is TripService; *)
(* here it is one step.                                                    *)
(***************************************************************************)
EXTENDS Breaker, Fares

CONSTANTS
  Rider,
  None,
  Package,    \* the packages offered: those of getBaseFares, or some of them
  Route,      \* the routes Mapbox may answer with, [distance, duration]
  Driven,     \* the lengths a ride may have when it ends, None if not known
  MaxQuotes,  \* bound on previews that found a route
  MaxTrips,   \* bound on trips; a trip is known by its number
  MaxFaults   \* bound on failures of databases, brokers and connections

ASSUME FaresAssumption ==
  /\ Package \subseteq DOMAIN getBaseFares
  /\ Route \subseteq MapboxRouteResponse
  /\ Driven \subseteq Nat \union {None}
  /\ {MaxQuotes, MaxTrips, MaxFaults} \subseteq Nat

VARIABLES
  breaker,  \* TripBreaker
  calls,    \* each rider's request under way, or None
  fares,    \* the table ride_fares, None where there is no row
  quotes,   \* fares made so far, in previews
  trips,    \* the table trips, None where there is no row
  billed,   \* the amount the payment service was asked to charge, or None
  shown,    \* the fares the browser was shown, to whom and at which price
  told,     \* the trips each rider was told to have started
  faults

vars == <<breaker, calls, fares, quotes, trips, billed, shown, told, faults>>

-----------------------------------------------------------------------------

Trip == 1 .. MaxTrips
Fare == (1 .. MaxQuotes) \X Package
FareRow == [rider : Rider, price : Nat, route : Route, expired : BOOLEAN]
TripRow == [rider : Rider, fare : Fare, amount : Nat]
Quote == [fare : Fare, rider : Rider, price : Nat]
Op == {"preview", "start", "rate", "history"}
Code == {"OK", "Internal", "Unavailable", "InvalidArgument", "Canceled"}
Step == {"sent", "quoting", "validated", "answered"}

\* route and written are a preview's, fare a start's, trip a rating's and
\* that of an answered start.
Request == [op : Op, at : Step, fresh : BOOLEAN,
            code : Code, fare : Fare \union {None}, trip : 0 .. MaxTrips,
            quote : 0 .. MaxQuotes, route : Route \union {None},
            written : SUBSET Package, failed : SUBSET Package]

ASSUME NoneAssumption == None \notin FareRow \union TripRow \union Request \union Nat

TypeOK ==
  /\ breaker \in BreakerState
  /\ calls \in [Rider -> Request \union {None}]
  /\ fares \in [Fare -> FareRow \union {None}]
  /\ quotes \in 0 .. MaxQuotes
  /\ trips \in [Trip -> TripRow \union {None}]
  /\ billed \in [Trip -> Nat \union {None}]
  /\ shown \subseteq Quote
  /\ told \in [Rider -> SUBSET Trip]
  /\ faults \in 0 .. MaxFaults

Init ==
  /\ breaker = newBreaker
  /\ calls = [c \in Rider |-> None]
  /\ fares = [f \in Fare |-> None]
  /\ quotes = 0
  /\ trips = [t \in Trip |-> None]
  /\ billed = [t \in Trip |-> None]
  /\ shown = {} /\ told = [r \in Rider |-> {}]
  /\ faults = 0

Fault == faults < MaxFaults /\ faults' = faults + 1
NoFault == UNCHANGED faults

At(c, op, step) == calls[c] # None /\ calls[c].op = op /\ calls[c].at = step

\* A request as the gateway sends it.
Sent(op, fare, trip) ==
  [op |-> op, at |-> "sent", fresh |-> TRUE, code |-> "OK",
   fare |-> fare, trip |-> trip, quote |-> 0, route |-> None,
   written |-> {}, failed |-> {}]

\* The trip service answers the gateway, with the quote or the trip it made.
AnswerWith(c, code, quote, trip) ==
  calls' = [calls EXCEPT ![c] =
    [op |-> @.op, at |-> "answered", fresh |-> @.fresh, code |-> code,
     fare |-> None, trip |-> trip, quote |-> quote,
     route |-> IF quote = 0 THEN None ELSE @.route,
     written |-> {}, failed |-> {}]]
Answer(c, code) == AnswerWith(c, code, 0, 0)

-----------------------------------------------------------------------------
(* http.go: a request enters; Execute admits it, or it is refused at once, *)
(* which changes nothing                                                   *)

Enter(c, op, fare, trip) ==
  /\ calls[c] = None
  /\ Admits(breaker)
  /\ breaker' = Admit(breaker)
  /\ calls' = [calls EXCEPT ![c] = Sent(op, fare, trip)]
  /\ UNCHANGED <<fares, quotes, trips, billed, shown, told, faults>>

handleTripPreview(c) == Enter(c, "preview", None, 0)

\* The quote may have been shown to whoever used the browser before.
handleTripStart(c) == \E s \in shown : Enter(c, "start", s.fare, 0)

handleTripRate(c) == \E t \in told[c] : Enter(c, "rate", None, t)

\* handleTripHistory and handleDriverHistory
handleTripHistory(c) == Enter(c, "history", None, 0)

-----------------------------------------------------------------------------
(* grpc_handler.go and service.go of the trip service *)

\* Mapbox finds a route, finds none, or fails.
GetRoute(c) ==
  /\ At(c, "preview", "sent")
  /\ \/ /\ quotes < MaxQuotes
        /\ quotes' = quotes + 1
        /\ \E route \in Route :
             calls' = [calls EXCEPT ![c].at = "quoting", ![c].route = route,
                                    ![c].quote = quotes + 1]
        /\ NoFault
     \/ Answer(c, "InvalidArgument") /\ UNCHANGED quotes /\ NoFault
     \/ Answer(c, "Internal") /\ UNCHANGED quotes /\ Fault
  /\ UNCHANGED <<breaker, fares, trips, billed, shown, told>>

\* One of the parallel INSERTs.  The first that fails cancels the others,
\* which may still take effect, as may one that seems to fail.
SaveRideFare(c, p) ==
  LET call == calls[c]
      row == [rider |-> c, route |-> call.route, expired |-> FALSE,
              price |-> EstimatePackagesPriceWithRoute(Package, call.route)[p]]
      saved == [fares EXCEPT ![<<call.quote, p>>] = row]
  IN /\ At(c, "preview", "quoting")
     /\ p \in Package \ (call.written \union call.failed)
     /\ \/ /\ fares' = saved /\ NoFault
           /\ calls' = [calls EXCEPT ![c].written = @ \union {p}]
        \/ /\ fares' \in {saved, fares}
           /\ calls' = [calls EXCEPT ![c].failed = @ \union {p}]
           /\ IF call.failed = {} THEN Fault ELSE NoFault
     /\ UNCHANGED <<breaker, quotes, trips, billed, shown, told>>

\* Mutant: the error of g.Wait is dropped.
GenerateAnyway(c) ==
  LET call == calls[c]
  IN /\ At(c, "preview", "quoting")
     /\ call.written \union call.failed = Package
     /\ AnswerWith(c, "OK", call.quote, 0)
     /\ UNCHANGED <<breaker, fares, quotes, trips, billed, shown, told, faults>>

\* g.Wait: all INSERTs are over; one that failed fails the preview.
GenerateTripFares(c) ==
  LET call == calls[c]
  IN /\ At(c, "preview", "quoting")
     /\ call.written \union call.failed = Package
     /\ IF call.failed = {} THEN AnswerWith(c, "OK", call.quote, 0)
        ELSE Answer(c, "Internal")
     /\ UNCHANGED <<breaker, fares, quotes, trips, billed, shown, told, faults>>

\* Mutant: any rider's fare will do.
ValidForAnyone(f, r) == fares[f] # None /\ ~fares[f].expired

\* Whose fare it is and whether it may still be used.  Every failure, that of
\* the SELECT too, is answered as an invalid argument.
ValidFare(f, r) == fares[f] # None /\ fares[f].rider = r /\ ~fares[f].expired

GetAndValidateFare(c) ==
  /\ At(c, "start", "sent")
  /\ \/ /\ ValidFare(calls[c].fare, c)
        /\ calls' = [calls EXCEPT ![c].at = "validated"] /\ NoFault
     \/ /\ ~ValidFare(calls[c].fare, c)
        /\ Answer(c, "InvalidArgument") /\ NoFault
     \/ Answer(c, "InvalidArgument") /\ Fault
  /\ UNCHANGED <<breaker, fares, quotes, trips, billed, shown, told>>

\* A number that no trip has; MaxTrips bounds the trips.
NextTrip == CHOOSE t \in Trip : trips[t] = None

\* The row and its announcement, in one transaction.  The fare is not used
\* up.  The commit may fail, or take effect and seem to fail.
CreateTrip(c) ==
  LET t == NextTrip
      f == calls[c].fare
      row == [rider |-> fares[f].rider, fare |-> f, amount |-> fares[f].price]
      store == trips' = [trips EXCEPT ![t] = row]
  IN /\ At(c, "start", "validated")
     /\ \E u \in Trip : trips[u] = None
     /\ \/ /\ store /\ NoFault
           /\ calls' = [calls EXCEPT ![c].at = "answered", ![c].trip = t]
        \/ store /\ Answer(c, "Internal") /\ Fault
        \/ UNCHANGED trips /\ Answer(c, "Internal") /\ Fault
     /\ UNCHANGED <<breaker, fares, quotes, billed, shown, told>>

\* UPDATE trips SET rating ... WHERE the trip is over, which TripService has:
\* a row or none.  None is an invalid argument, and so is an error.
RateTrip(c) ==
  /\ At(c, "rate", "sent")
  /\ \/ trips[calls[c].trip].rider = c /\ Answer(c, "OK")
     \/ Answer(c, "InvalidArgument")
  /\ UNCHANGED <<breaker, fares, quotes, trips, billed, shown, told, faults>>

GetTripsByUser(c) ==
  /\ At(c, "history", "sent")
  /\ \/ Answer(c, "OK") /\ NoFault
     \/ Answer(c, "Internal") /\ Fault
  /\ UNCHANGED <<breaker, fares, quotes, trips, billed, shown, told>>

-----------------------------------------------------------------------------
(* The way back *)

\* The connection to the trip service breaks, or a deadline passes.
Disconnect(c) ==
  /\ calls[c] # None
  /\ Answer(c, "Unavailable") /\ Fault
  /\ UNCHANGED <<breaker, fares, quotes, trips, billed, shown, told>>

\* The rider leaves, which cancels the request's context.
Leave(c) ==
  /\ calls[c] # None /\ calls[c].at # "answered"
  /\ Answer(c, "Canceled")
  /\ UNCHANGED <<breaker, fares, quotes, trips, billed, shown, told,
                 faults>>

\* What the function given to Execute returns: only handleTripPreview keeps
\* the rider's own mistakes from the breaker.
Fails(call) == IF call.op = "preview" THEN IsBreakerError(call.code)
               ELSE call.code # "OK"

\* afterRequest, which ignores a call of an earlier generation.
After(call) == IF ~call.fresh THEN breaker
               ELSE IF Fails(call) THEN OnFailure(breaker) ELSE OnSuccess(breaker)

\* Calls of a generation that ends lose their mark.
Aged(cs, b, b2) ==
  [c \in Rider |-> IF cs[c] # None /\ b.state # b2.state
                  THEN [cs[c] EXCEPT !.fresh = FALSE] ELSE cs[c]]

\* What the answer to a preview says of its fares.
Preview(c, call) ==
  {[fare |-> <<call.quote, p>>, rider |-> c,
    price |-> EstimatePackagesPriceWithRoute(Package, call.route)[p]] : p \in Package}

\* The handler answers the browser.
Return(c) ==
  LET call == calls[c]
      ok == call.code = "OK"
  IN /\ call # None /\ call.at = "answered"
     /\ breaker' = After(call)
     /\ calls' = Aged([calls EXCEPT ![c] = None], breaker, breaker')
     /\ shown' = IF call.op = "preview" /\ ok
                 THEN shown \union Preview(c, call) ELSE shown
     /\ told' = IF call.op = "start" /\ ok
                THEN [told EXCEPT ![c] = @ \union {call.trip}] ELSE told
     /\ UNCHANGED <<fares, quotes, trips, billed, faults>>

-----------------------------------------------------------------------------
(* Time and the ride *)

\* currentState: the counts of a closed breaker are cleared every 30 seconds,
\* and an open one becomes half-open after 5.
Elapse ==
  /\ breaker.state # "half-open"
  /\ breaker' = Generation(IF breaker.state = "open" THEN "half-open" ELSE "closed")
  /\ calls' = [c \in Rider |-> IF calls[c] = None THEN None
                              ELSE [calls[c] EXCEPT !.fresh = FALSE]]
  /\ UNCHANGED <<fares, quotes, trips, billed, shown, told, faults>>

\* The 5 minutes of a preview's fares are over.
Expire(q) ==
  /\ \E p \in Package : fares[<<q, p>>] # None
  /\ fares' = [f \in Fare |-> IF f[1] = q /\ fares[f] # None
                              THEN [fares[f] EXCEPT !.expired = TRUE] ELSE fares[f]]
  /\ UNCHANGED <<breaker, calls, quotes, trips, billed, shown, told,
                 faults>>

\* The end of a ride is reported.  It is charged for even when the UPDATE of
\* its status was refused, and a repetition asks for the same amount again.
handleTripCompleted(t, driven) ==
  LET fare == fares[trips[t].fare]
  IN /\ trips[t] # None /\ billed[t] = None
     /\ billed' = [billed EXCEPT ![t] =
          IF driven = None THEN fare.price
          ELSE Reprice(fare.price, fare.route.distance, driven)]
     /\ UNCHANGED <<breaker, calls, fares, quotes, trips, shown, told, faults>>

Next ==
  \/ \E c \in Rider : \/ handleTripPreview(c) \/ handleTripStart(c)
                      \/ handleTripRate(c) \/ handleTripHistory(c)
  \/ \E c \in Rider : \/ GetRoute(c) \/ GenerateTripFares(c)
                     \/ GetAndValidateFare(c) \/ CreateTrip(c) \/ RateTrip(c)
                     \/ GetTripsByUser(c) \/ Disconnect(c) \/ Leave(c) \/ Return(c)
                     \/ \E p \in Package : SaveRideFare(c, p)
  \/ \E q \in 1 .. MaxQuotes : Expire(q)
  \/ \E t \in Trip, driven \in Driven : handleTripCompleted(t, driven)
  \/ Elapse

Spec == Init /\ [][Next]_vars

-----------------------------------------------------------------------------
(* Properties *)

\* A fare a rider is shown is stored, for that rider and at the price shown,
\* although the rows are written in parallel, any of them may fail, and other
\* previews go on at the same time (GenerateTripFares).
ShownIsStored ==
  \A s \in shown :
    /\ fares[s.fare] # None
    /\ fares[s.fare].rider = s.rider /\ fares[s.fare].price = s.price

\* A trip a rider is told of is that rider's, was started for a fare that very
\* rider was shown, and costs what was shown, whatever failed or was repeated on
\* the way and whoever used the browser in between (handleTripStart, CreateTrip).
ToldIsTheirs ==
  \A r \in Rider : \A t \in told[r] :
    /\ trips[t] # None /\ trips[t].rider = r
    /\ [fare |-> trips[t].fare, rider |-> r, price |-> trips[t].amount] \in shown

\* A ride is never charged above the price in the rider's history and never
\* below its tenth, to the cent, however short it was (handleTripCompleted).
BilledAsAgreed ==
  \A t \in Trip : billed[t] # None =>
    /\ billed[t] <= trips[t].amount
    /\ 10 * billed[t] > trips[t].amount - 10
================================================================================

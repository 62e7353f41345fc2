----------------------------- MODULE BookingProofs -----------------------------
(***************************************************************************)
(* Theorems about Booking, for any riders, packages, routes and rides, and *)
(* any settings of the breaker.                                            *)
(***************************************************************************)
EXTENDS Booking, TLAPS

-----------------------------------------------------------------------------
(* Prices *)

\* A price is a whole number of cents.
LEMMA PriceType ==
  ASSUME NEW p \in Package, NEW route \in Route
  PROVE  EstimatePackagesPriceWithRoute(Package, route)[p] \in Nat
<1>1. /\ getBaseFares[p] \in Nat
      /\ route.distance \in Nat /\ route.duration \in Nat
  BY FaresAssumption DEF getBaseFares, MapboxRouteResponse
<1>2. EstimatePackagesPriceWithRoute(Package, route)[p]
        = (6000 * getBaseFares[p] + 900 * route.distance + 3000 * route.duration + 3000)
          \div 6000
  BY <1>1
  DEF EstimatePackagesPriceWithRoute, estimateFareRoute, DefaultPricingConfig
<1> QED
  BY <1>1, <1>2

\* What a ride that ended early costs stays between a tenth and all of the
\* price.
LEMMA RepriceBounds ==
  ASSUME NEW price \in Nat, NEW planned \in Nat, NEW actual \in Nat
  PROVE  LET r == Reprice(price, planned, actual)
         IN  r \in Nat /\ r <= price /\ 10 * r > price - 10
<1>1. CASE ~EndedEarly(planned, actual)
  BY <1>1 DEF Reprice
<1>2. CASE EndedEarly(planned, actual) /\ 10 * actual < planned
  BY <1>2 DEF Reprice
<1>3. CASE EndedEarly(planned, actual) /\ ~(10 * actual < planned)
  <2> DEFINE r == (price * actual) \div planned
  <2>1. planned > 0 /\ actual <= planned /\ planned <= 10 * actual
    BY <1>3 DEF EndedEarly
  <2>2. /\ price * actual \in Nat /\ price * planned \in Nat
        /\ price * actual <= price * planned
        /\ price * planned <= 10 * (price * actual)
    BY <2>1
  <2>3. r \in Nat /\ planned * r <= price * actual /\ price * actual < planned * (r + 1)
    BY <2>1, <2>2
  <2> HIDE DEF r
  <2>4. r <= price
    <3> SUFFICES ASSUME r >= price + 1 PROVE FALSE
      BY <2>3
    <3>1. planned * r >= planned * (price + 1)
      BY <2>1, <2>3
    <3>2. planned * (price + 1) = price * planned + planned
      BY <2>1
    <3> QED
      BY <2>1, <2>2, <2>3, <3>1, <3>2
  <2>5. 10 * r > price - 10
    <3> SUFFICES ASSUME 10 * (r + 1) <= price PROVE FALSE
      BY <2>3
    <3>1. planned * (10 * (r + 1)) <= planned * price
      BY <2>1, <2>3
    <3>2. planned * (10 * (r + 1)) = 10 * (planned * (r + 1)) /\ planned * price = price * planned
      BY <2>1, <2>3
    <3>3. planned * (r + 1) \in Nat
      BY <2>3
    <3> QED
      BY <2>2, <2>3, <3>1, <3>2, <3>3
  <2>6. Reprice(price, planned, actual) = r
    BY <1>3 DEF Reprice, r
  <2> QED
    BY <2>3, <2>4, <2>5, <2>6
<1> QED
  BY <1>1, <1>2, <1>3

-----------------------------------------------------------------------------
(* Types *)

\* The breaker's counts stay within the settings.
LEMMA BreakerType ==
  /\ \A state \in {"closed", "half-open", "open"} : Generation(state) \in BreakerState
  /\ \A b \in BreakerState :
       /\ Admits(b) => Admit(b) \in BreakerState
       /\ OnSuccess(b) \in BreakerState
       /\ OnFailure(b) \in BreakerState
<1> USE BreakerAssumption DEF BreakerState, Generation
<1>1. \A state \in {"closed", "half-open", "open"} : Generation(state) \in BreakerState
  OBVIOUS
<1> SUFFICES ASSUME NEW b \in BreakerState
             PROVE  /\ Admits(b) => Admit(b) \in BreakerState
                    /\ OnSuccess(b) \in BreakerState
                    /\ OnFailure(b) \in BreakerState
  BY <1>1
<1>2. Admits(b) => Admit(b) \in BreakerState
  BY DEF Admits, Admit
<1>3. OnSuccess(b) \in BreakerState
  <2>1. CASE b.state = "half-open" /\ b.successes + 1 >= MaxRequests
    BY <2>1, <1>1 DEF OnSuccess
  <2>2. CASE b.state = "half-open" /\ ~(b.successes + 1 >= MaxRequests)
    <3>1. b.successes + 1 \in 0 .. MaxRequests - 1
      BY <2>2
    <3>2. OnSuccess(b) = [state |-> b.state, requests |-> b.requests,
                          failures |-> 0, successes |-> b.successes + 1]
      BY <2>2 DEF OnSuccess
    <3> QED
      BY <3>1, <3>2
  <2>3. CASE b.state # "half-open"
    <3>1. OnSuccess(b) = [state |-> b.state, requests |-> b.requests,
                          failures |-> 0, successes |-> 0]
      BY <2>3 DEF OnSuccess
    <3> QED
      BY <3>1
  <2> QED
    BY <2>1, <2>2, <2>3
<1>4. OnFailure(b) \in BreakerState
  BY DEF OnFailure, ReadyToTrip
<1> QED
  BY <1>2, <1>3, <1>4

\* What the trip service's answer makes of a request.
LEMMA Answered ==
  ASSUME TypeOK, NEW c \in Rider, calls[c] # None, NEW code \in Code,
         NEW quote \in 0 .. MaxQuotes, NEW trip \in 0 .. MaxTrips,
         AnswerWith(c, code, quote, trip)
  PROVE  /\ calls' \in [Rider -> Request \union {None}]
         /\ \A d \in Rider : d # c => calls'[d] = calls[d]
         /\ calls'[c] # None /\ calls'[c].op = calls[c].op /\ calls'[c].at = "answered"
         /\ calls'[c].code = code /\ calls'[c].quote = quote /\ calls'[c].trip = trip
         /\ quote # 0 => calls'[c].route = calls[c].route
<1>1. calls \in [Rider -> Request \union {None}] /\ calls[c] \in Request
  BY DEF TypeOK
<1> DEFINE a == [op |-> calls[c].op, at |-> "answered", fresh |-> calls[c].fresh,
                 code |-> code, fare |-> None, trip |-> trip, quote |-> quote,
                 route |-> IF quote = 0 THEN None ELSE calls[c].route,
                 written |-> {}, failed |-> {}]
<1>2. calls' = [calls EXCEPT ![c] = a]
  BY DEF AnswerWith
<1>3. a \in Request
  BY <1>1 DEF Request, Step
<1>4. a # None
  BY <1>3, NoneAssumption
<1> QED
  BY <1>1, <1>2, <1>3, <1>4

LEMMA PlainAnswer ==
  ASSUME TypeOK, NEW c \in Rider, calls[c] # None, NEW code \in Code, Answer(c, code)
  PROVE  AnswerWith(c, code, 0, 0) /\ 0 \in 0 .. MaxQuotes /\ 0 \in 0 .. MaxTrips
BY FaresAssumption DEF Answer

\* A fare's row as SaveRideFare writes it.
LEMMA RowType ==
  ASSUME NEW c \in Rider, NEW p \in Package, NEW route \in Route
  PROVE  [rider |-> c, route |-> route, expired |-> FALSE,
          price |-> EstimatePackagesPriceWithRoute(Package, route)[p]] \in FareRow
BY PriceType DEF FareRow

LEMMA FaultType == ASSUME faults \in 0 .. MaxFaults, Fault \/ NoFault
                   PROVE  faults' \in 0 .. MaxFaults
BY FaresAssumption DEF Fault, NoFault

\* A route is found, and the fares are written.
Opened(c, route) ==
  calls' = [calls EXCEPT ![c].at = "quoting", ![c].route = route, ![c].quote = quotes + 1]

LEMMA QuotingCall ==
  ASSUME TypeOK, NEW c \in Rider, calls[c] # None, NEW route \in Route, quotes < MaxQuotes,
         Opened(c, route)
  PROVE  /\ calls' \in [Rider -> Request \union {None}]
         /\ \A d \in Rider : d # c => calls'[d] = calls[d]
         /\ calls'[c] # None /\ calls'[c].op = calls[c].op /\ calls'[c].at = "quoting"
         /\ calls'[c].code = calls[c].code
         /\ calls'[c].quote = quotes + 1 /\ calls'[c].route = route
         /\ calls'[c].written = calls[c].written /\ calls'[c].failed = calls[c].failed
<1>1. /\ calls \in [Rider -> Request \union {None}] /\ calls[c] \in Request
      /\ quotes + 1 \in 0 .. MaxQuotes
  BY FaresAssumption DEF TypeOK
<1> DEFINE k == calls[c]
           e1 == [k EXCEPT !.at = "quoting"]
           e2 == [e1 EXCEPT !.route = route]
           e3 == [e2 EXCEPT !.quote = quotes + 1]
<1>2. calls' = [calls EXCEPT ![c] = e3]
  BY DEF Opened
<1>3. /\ e1 \in Request /\ e1.at = "quoting"
      /\ e1.op = k.op /\ e1.code = k.code /\ e1.written = k.written /\ e1.failed = k.failed
  BY <1>1 DEF Request, Step
<1> HIDE DEF e1
<1>4. /\ e2 \in Request /\ e2.at = "quoting" /\ e2.route = route
      /\ e2.op = k.op /\ e2.code = k.code /\ e2.written = k.written /\ e2.failed = k.failed
  BY <1>3 DEF Request
<1> HIDE DEF e2
<1>5. /\ e3 \in Request /\ e3.at = "quoting" /\ e3.route = route /\ e3.quote = quotes + 1
      /\ e3.op = k.op /\ e3.code = k.code /\ e3.written = k.written /\ e3.failed = k.failed
  BY <1>1, <1>4 DEF Request
<1> HIDE DEF e3
<1>6. e3 # None
  BY <1>5, NoneAssumption
<1>7. /\ calls' \in [Rider -> Request \union {None}] /\ calls'[c] = e3
      /\ \A d \in Rider : d # c => calls'[d] = calls[d]
  BY <1>1, <1>2, <1>5
<1> QED
  BY <1>5, <1>6, <1>7

-----------------------------------------------------------------------------
(* What is known of requests, fares and trips *)

\* The row of a preview's fare, as the preview tells of it.
Stored(c, p) ==
  LET f == <<calls[c].quote, p>>
  IN /\ fares[f] # None /\ fares[f].rider = c
     /\ fares[f].price = EstimatePackagesPriceWithRoute(Package, calls[c].route)[p]

ShownFares == {s.fare : s \in shown}

\* A preview that is answered has stored its fares, a start that is answered
\* has made the rider's trip.
CallOK(c) ==
  calls[c] # None =>
    /\ calls[c].at # "answered" => calls[c].code = "OK"
    /\ calls[c].at = "sent" => calls[c].written = {} /\ calls[c].failed = {}
    /\ calls[c].at = "quoting" =>
         /\ calls[c].op = "preview" /\ calls[c].route \in Route
         /\ calls[c].quote \in 1 .. quotes
         /\ \A p \in calls[c].written : Stored(c, p)
    /\ calls[c].at = "validated" => calls[c].op = "start" /\ fares[calls[c].fare].rider = c
    /\ calls[c].op = "start" /\ calls[c].at \in {"sent", "validated"} =>
         calls[c].fare \in ShownFares
    /\ calls[c].at = "answered" /\ calls[c].code = "OK" =>
         /\ calls[c].op = "preview" =>
              /\ calls[c].quote \in 1 .. quotes /\ calls[c].route \in Route
              /\ \A p \in Package : Stored(c, p)
         /\ calls[c].op = "start" =>
              /\ calls[c].trip \in Trip
              /\ trips[calls[c].trip] # None /\ trips[calls[c].trip].rider = c

Quoting(c) == calls[c] # None /\ calls[c].at = "quoting"

\* A quote is one request's, and no row is written twice.
OpenQuotes ==
  /\ \A c, d \in Rider : Quoting(c) /\ Quoting(d) /\ calls[c].quote = calls[d].quote => c = d
  /\ \A c \in Rider : Quoting(c) =>
       \A p \in Package \ (calls[c].written \union calls[c].failed) :
         fares[<<calls[c].quote, p>>] = None
  /\ \A f \in Fare : f[1] > quotes => fares[f] = None

\* What is booked was shown, to its rider and at its price.
Booked ==
  \A t \in Trip :
    /\ trips[t] # None => /\ trips[t].fare \in ShownFares
                          /\ trips[t].rider = fares[trips[t].fare].rider
                          /\ trips[t].amount = fares[trips[t].fare].price
    /\ billed[t] # None => trips[t] # None

Told == \A r \in Rider : \A t \in told[r] : trips[t] # None /\ trips[t].rider = r

Inv == /\ TypeOK /\ (\A c \in Rider : CallOK(c)) /\ OpenQuotes
       /\ ShownIsStored /\ Booked /\ Told /\ BilledAsAgreed

-----------------------------------------------------------------------------
(* What most steps have in common *)

\* Rows stay, but for their expiry.
Grow ==
  /\ quotes <= quotes' /\ shown \subseteq shown'
  /\ \A f \in Fare : fares[f] # None =>
       /\ fares'[f] # None
       /\ fares'[f].rider = fares[f].rider /\ fares'[f].price = fares[f].price
  /\ \A t \in Trip : trips[t] # None => trips'[t] = trips[t]

\* A request is where it was, if it is still under way.
Same(d) ==
  calls'[d] # None =>
    /\ calls[d] # None
    /\ calls'[d].op = calls[d].op /\ calls'[d].at = calls[d].at
    /\ calls'[d].code = calls[d].code /\ calls'[d].fare = calls[d].fare
    /\ calls'[d].trip = calls[d].trip /\ calls'[d].quote = calls[d].quote
    /\ calls'[d].route = calls[d].route
    /\ calls'[d].written = calls[d].written /\ calls'[d].failed = calls[d].failed

LEMMA NothingGrows == UNCHANGED <<quotes, shown, fares, trips>> /\ TypeOK => Grow
BY FaresAssumption DEF Grow, TypeOK

LEMMA CallTypes ==
  ASSUME Inv, NEW d \in Rider, calls[d] # None
  PROVE  /\ calls[d] \in Request
         /\ calls[d].quote \in 1 .. quotes => \A p \in Package : <<calls[d].quote, p>> \in Fare
         /\ calls[d].written \subseteq Package /\ calls[d].failed \subseteq Package
<1>1. calls[d] \in Request /\ quotes \in 0 .. MaxQuotes
  BY DEF Inv, TypeOK
<1>2. 1 .. quotes \subseteq 1 .. MaxQuotes
  BY <1>1, FaresAssumption
<1> QED
  BY <1>1, <1>2 DEF Request, Fare

LEMMA CallKept ==
  ASSUME Inv, Grow, quotes' \in Nat, NEW d \in Rider, Same(d)
  PROVE  CallOK(d)'
<1> SUFFICES ASSUME calls'[d] # None PROVE CallOK(d)'
  BY DEF CallOK
<1>1. CallOK(d) /\ calls[d] # None
  BY DEF Inv, Same
<1>2. /\ calls[d] \in Request
      /\ calls[d].quote \in 1 .. quotes => \A p \in Package : <<calls[d].quote, p>> \in Fare
      /\ calls[d].written \subseteq Package
  BY <1>1, CallTypes
<1>3. calls[d].quote \in 1 .. quotes => calls[d].quote \in 1 .. quotes'
  BY DEF Inv, TypeOK, Grow
<1>4. ASSUME calls[d].quote \in 1 .. quotes, NEW p \in Package, Stored(d, p)
      PROVE  Stored(d, p)'
  BY <1>2, <1>4 DEF Grow, Same, Stored
<1>5. ASSUME calls[d].at = "validated" PROVE fares'[calls[d].fare].rider = fares[calls[d].fare].rider
  <2>1. calls[d].fare \in ShownFares
    BY <1>1, <1>5 DEF CallOK
  <2>2. calls[d].fare \in Fare /\ fares[calls[d].fare] # None
    BY <2>1 DEF Inv, TypeOK, ShownIsStored, ShownFares, Quote
  <2> QED
    BY <2>2 DEF Grow
<1>6. /\ \A f \in ShownFares : f \in ShownFares'
      /\ \A t \in Trip : trips[t] # None => trips'[t] = trips[t]
  BY DEF Grow, ShownFares
<1>7. /\ calls'[d].op = calls[d].op /\ calls'[d].at = calls[d].at
      /\ calls'[d].code = calls[d].code /\ calls'[d].fare = calls[d].fare
      /\ calls'[d].trip = calls[d].trip /\ calls'[d].quote = calls[d].quote
      /\ calls'[d].route = calls[d].route
      /\ calls'[d].written = calls[d].written /\ calls'[d].failed = calls[d].failed
  BY DEF Same
<1> QED
  BY <1>1, <1>2, <1>3, <1>4, <1>5, <1>6, <1>7 DEF CallOK

LEMMA BookedKept ==
  ASSUME Inv, Grow, UNCHANGED <<trips, billed>>
  PROVE  Booked' /\ BilledAsAgreed'
<1>1. \A t \in Trip : trips[t] # None =>
        trips[t].fare \in Fare /\ fares[trips[t].fare] # None
  BY DEF Inv, Booked, ShownIsStored, ShownFares, Quote, TypeOK
<1> QED
  BY <1>1 DEF Inv, Booked, BilledAsAgreed, Grow, ShownFares

LEMMA ShownKept == ASSUME Inv, Grow, shown' = shown PROVE ShownIsStored'
BY DEF Inv, Grow, ShownIsStored, Quote, TypeOK

LEMMA ToldKept == ASSUME Inv, Grow, told' = told PROVE Told'
BY DEF Inv, Grow, Told, TypeOK

\* No quote is opened and no row is written.
LEMMA QuotesKept ==
  ASSUME Inv, quotes' = quotes, \A f \in Fare : fares[f] = None => fares'[f] = None,
         \A d \in Rider : Quoting(d)' => Same(d)
  PROVE  OpenQuotes'
<1>1. \A d \in Rider : Quoting(d)' => Quoting(d) /\ calls'[d].quote = calls[d].quote
  BY DEF Quoting, Same
<1>2. \A c, d \in Rider : Quoting(c)' /\ Quoting(d)' /\ calls'[c].quote = calls'[d].quote => c = d
  BY <1>1 DEF Inv, OpenQuotes
<1>3. ASSUME NEW c \in Rider, Quoting(c)',
             NEW p \in Package \ (calls'[c].written \union calls'[c].failed)
      PROVE  fares'[<<calls'[c].quote, p>>] = None
  <2>1. Quoting(c) /\ Same(c) /\ calls[c].quote \in 1 .. quotes
    BY <1>1, <1>3 DEF Inv, CallOK, Quoting
  <2>2. <<calls[c].quote, p>> \in Fare
    BY <2>1, CallTypes DEF Quoting
  <2>3. fares[<<calls[c].quote, p>>] = None
    BY <1>3, <2>1 DEF Inv, OpenQuotes, Same, Quoting
  <2> QED
    BY <1>1, <1>3, <2>2, <2>3
<1> QED
  BY <1>2, <1>3 DEF Inv, OpenQuotes

-----------------------------------------------------------------------------
(* Each step *)

LEMMA EnterStep ==
  ASSUME Inv, NEW c \in Rider, NEW op \in Op, NEW f \in Fare \union {None},
         NEW t \in 0 .. MaxTrips, op = "start" => f \in ShownFares, Enter(c, op, f, t)
  PROVE  Inv'
<1> DEFINE k == Sent(op, f, t)
<1>1. /\ Admits(breaker) /\ breaker' = Admit(breaker)
      /\ calls' = [calls EXCEPT ![c] = k]
      /\ UNCHANGED <<fares, quotes, trips, billed, shown, told, faults>>
  BY DEF Enter
<1>2. /\ k \in Request /\ k.op = op /\ k.at = "sent" /\ k.code = "OK" /\ k.fare = f
      /\ k.written = {} /\ k.failed = {}
  BY FaresAssumption DEF Sent, Request, Step, Code
<1> HIDE DEF k
<1>3. calls \in [Rider -> Request \union {None}]
  BY DEF Inv, TypeOK
<1>4. TypeOK'
  BY <1>1, <1>2, BreakerType DEF Inv, TypeOK
<1>5. calls'[c] = k /\ \A d \in Rider : d # c => calls'[d] = calls[d]
  BY <1>1, <1>3
<1>6. Grow /\ quotes' \in Nat
  BY <1>1, NothingGrows, FaresAssumption DEF Inv, TypeOK
<1>7. \A d \in Rider : d # c => Same(d)
  BY <1>5 DEF Same
<1>8. CallOK(c)'
  BY <1>1, <1>2, <1>5 DEF CallOK, ShownFares
<1>9. \A d \in Rider : CallOK(d)'
  BY <1>6, <1>7, <1>8, CallKept
<1>10. OpenQuotes'
  BY <1>1, <1>2, <1>5, <1>7, QuotesKept DEF Quoting
<1> QED
  BY <1>1, <1>4, <1>6, <1>9, <1>10, BookedKept, ShownKept, ToldKept DEF Inv

\* An answer that promises nothing.
LEMMA AnswerStep ==
  ASSUME Inv, NEW c \in Rider, calls[c] # None, NEW code \in Code, Answer(c, code),
         code = "OK" => calls[c].op \notin {"preview", "start"},
         UNCHANGED <<breaker, quotes, fares, trips, billed, shown, told>>,
         faults' \in 0 .. MaxFaults
  PROVE  Inv'
<1>1. /\ calls' \in [Rider -> Request \union {None}]
      /\ \A d \in Rider : d # c => calls'[d] = calls[d]
      /\ calls'[c] # None /\ calls'[c].op = calls[c].op /\ calls'[c].at = "answered"
      /\ calls'[c].code = code
  BY PlainAnswer, Answered DEF Inv
<1>2. TypeOK'
  BY <1>1 DEF Inv, TypeOK
<1>3. Grow /\ quotes' \in Nat
  BY NothingGrows, FaresAssumption DEF Inv, TypeOK
<1>4. \A d \in Rider : d # c => Same(d)
  BY <1>1 DEF Same
<1>5. CallOK(c)'
  BY <1>1 DEF CallOK
<1>6. \A d \in Rider : CallOK(d)'
  BY <1>3, <1>4, <1>5, CallKept
<1>7. OpenQuotes'
  BY <1>1, <1>4, QuotesKept DEF Quoting
<1> QED
  BY <1>2, <1>3, <1>6, <1>7, BookedKept, ShownKept, ToldKept DEF Inv

LEMMA GetRouteStep == ASSUME Inv, NEW c \in Rider, GetRoute(c) PROVE Inv'
<1>1. /\ calls[c] # None /\ calls[c].op = "preview" /\ calls[c].at = "sent"
      /\ UNCHANGED <<breaker, fares, trips, billed, shown, told>>
  BY DEF GetRoute, At
<1>2. calls[c].written = {} /\ calls[c].failed = {} /\ calls[c].code = "OK"
  BY <1>1 DEF Inv, CallOK
<1>3. ASSUME quotes < MaxQuotes, quotes' = quotes + 1, NEW route \in Route, NoFault,
             calls' = [calls EXCEPT ![c].at = "quoting", ![c].route = route,
                                    ![c].quote = quotes + 1]
      PROVE  Inv'
  <2>1. /\ calls' \in [Rider -> Request \union {None}]
        /\ \A d \in Rider : d # c => calls'[d] = calls[d]
        /\ calls'[c] # None /\ calls'[c].op = "preview" /\ calls'[c].at = "quoting"
        /\ calls'[c].code = "OK" /\ calls'[c].quote = quotes + 1
        /\ calls'[c].route = route
        /\ calls'[c].written = {} /\ calls'[c].failed = {}
    BY <1>1, <1>2, <1>3, QuotingCall DEF Inv, Opened
  <2>2. quotes \in Nat /\ quotes' \in 0 .. MaxQuotes /\ quotes' = quotes + 1 /\ faults' = faults
    BY <1>3, FaresAssumption DEF Inv, TypeOK, NoFault
  <2>3. TypeOK'
    BY <1>1, <2>1, <2>2 DEF Inv, TypeOK
  <2>4. Grow /\ quotes' \in Nat
    BY <1>1, <2>2 DEF Grow
  <2>5. \A d \in Rider : d # c => Same(d)
    BY <2>1 DEF Same
  <2>6. CallOK(c)'
    BY <2>1, <2>2 DEF CallOK
  <2>7. \A d \in Rider : CallOK(d)'
    BY <2>4, <2>5, <2>6, CallKept
  <2>8. OpenQuotes'
    <3>1. \A d \in Rider : Quoting(d) => calls[d].quote \in 1 .. quotes
      BY DEF Inv, CallOK, Quoting
    <3>2. \A d, e \in Rider : Quoting(d)' /\ Quoting(e)' /\ calls'[d].quote = calls'[e].quote
                              => d = e
      BY <2>1, <2>2, <3>1 DEF Inv, OpenQuotes, Quoting
    <3>3. ASSUME NEW d \in Rider, Quoting(d)',
                 NEW p \in Package \ (calls'[d].written \union calls'[d].failed)
          PROVE  fares'[<<calls'[d].quote, p>>] = None
      <4>1. CASE d = c
        <5>1. <<quotes + 1, p>> \in Fare /\ <<quotes + 1, p>>[1] > quotes
          BY <2>2 DEF Fare
        <5> QED
          BY <1>1, <2>1, <4>1, <5>1 DEF Inv, OpenQuotes
      <4>2. CASE d # c
        BY <1>1, <2>1, <3>3, <4>2 DEF Inv, OpenQuotes, Quoting
      <4> QED
        BY <4>1, <4>2
    <3>4. \A f \in Fare : f[1] > quotes' => fares'[f] = None
      <4>1. \A f \in Fare : f[1] \in Nat
        BY FaresAssumption DEF Fare
      <4> QED
        BY <1>1, <2>2, <4>1 DEF Inv, OpenQuotes
    <3> QED
      BY <3>2, <3>3, <3>4 DEF OpenQuotes
  <2> QED
    BY <1>1, <2>3, <2>4, <2>7, <2>8, BookedKept, ShownKept, ToldKept DEF Inv
<1>4. ASSUME NEW code \in {"InvalidArgument", "Internal"}, Answer(c, code),
             UNCHANGED quotes, Fault \/ NoFault
      PROVE  Inv'
  BY <1>1, <1>4, FaultType, AnswerStep DEF Code, Inv, TypeOK
<1> QED
  BY <1>3, <1>4 DEF GetRoute

LEMMA SaveRideFareStep ==
  ASSUME Inv, NEW c \in Rider, NEW p \in Package, SaveRideFare(c, p)
  PROVE  Inv'
<1> DEFINE k == calls[c]
           f == <<k.quote, p>>
           row == [rider |-> c, route |-> k.route, expired |-> FALSE,
                   price |-> EstimatePackagesPriceWithRoute(Package, k.route)[p]]
<1>1. /\ k # None /\ k.op = "preview" /\ k.at = "quoting"
      /\ p \in Package \ (k.written \union k.failed)
      /\ UNCHANGED <<breaker, quotes, trips, billed, shown, told>>
      /\ fares' \in {[fares EXCEPT ![f] = row], fares}
      /\ Fault \/ NoFault
      /\ \/ /\ fares' = [fares EXCEPT ![f] = row]
            /\ calls' = [calls EXCEPT ![c].written = @ \union {p}]
         \/ calls' = [calls EXCEPT ![c].failed = @ \union {p}]
  BY DEF SaveRideFare, At
<1>2. /\ k \in Request /\ k.written \subseteq Package /\ k.failed \subseteq Package
      /\ k.code = "OK" /\ k.route \in Route /\ k.quote \in 1 .. quotes /\ f \in Fare
      /\ \A q \in k.written : Stored(c, q)
      /\ calls \in [Rider -> Request \union {None}]
  BY <1>1, CallTypes DEF Inv, CallOK, TypeOK
<1>3. row \in FareRow /\ row # None
  BY <1>2, RowType, NoneAssumption
<1>4. fares[f] = None
  BY <1>1 DEF Inv, OpenQuotes, Quoting
<1> HIDE DEF row
<1>5. /\ calls' \in [Rider -> Request \union {None}]
      /\ \A d \in Rider : d # c => calls'[d] = calls[d]
      /\ calls'[c] \in Request /\ calls'[c].op = k.op /\ calls'[c].at = k.at
      /\ calls'[c].code = k.code /\ calls'[c].quote = k.quote /\ calls'[c].route = k.route
      /\ \/ calls'[c].written = k.written \union {p} /\ calls'[c].failed = k.failed
         \/ calls'[c].written = k.written /\ calls'[c].failed = k.failed \union {p}
      /\ p \in calls'[c].written => fares'[f] = row
  <2>1. CASE /\ fares' = [fares EXCEPT ![f] = row]
             /\ calls' = [calls EXCEPT ![c].written = @ \union {p}]
    <3> DEFINE a == [k EXCEPT !.written = @ \union {p}]
    <3>1. /\ a \in Request /\ a.op = k.op /\ a.at = k.at /\ a.code = k.code
          /\ a.quote = k.quote /\ a.route = k.route
          /\ a.written = k.written \union {p} /\ a.failed = k.failed
      BY <1>2 DEF Request
    <3>2. calls' = [calls EXCEPT ![c] = a]
      BY <2>1
    <3>3. fares'[f] = row
      BY <1>2, <1>3, <2>1 DEF Inv, TypeOK
    <3> HIDE DEF a
    <3> QED
      BY <1>2, <3>1, <3>2, <3>3
  <2>2. CASE calls' = [calls EXCEPT ![c].failed = @ \union {p}]
    <3> DEFINE a == [k EXCEPT !.failed = @ \union {p}]
    <3>1. /\ a \in Request /\ a.op = k.op /\ a.at = k.at /\ a.code = k.code
          /\ a.quote = k.quote /\ a.route = k.route
          /\ a.written = k.written /\ a.failed = k.failed \union {p}
      BY <1>2 DEF Request
    <3>2. calls' = [calls EXCEPT ![c] = a]
      BY <2>2
    <3> HIDE DEF a
    <3> QED
      BY <1>1, <1>2, <3>1, <3>2
  <2> QED
    BY <1>1, <2>1, <2>2
<1>6. calls'[c] # None
  BY <1>5, NoneAssumption
<1>7. /\ fares \in [Fare -> FareRow \union {None}]
      /\ fares' \in [Fare -> FareRow \union {None}]
      /\ \A g \in Fare : g # f => fares'[g] = fares[g]
  BY <1>1, <1>2, <1>3 DEF Inv, TypeOK
<1>8. TypeOK'
  BY <1>1, <1>5, <1>7, FaultType DEF Inv, TypeOK
<1>9. Grow /\ quotes' \in Nat
  BY <1>1, <1>4, <1>7, FaresAssumption DEF Grow, Inv, TypeOK
<1>10. \A d \in Rider : d # c => Same(d)
  BY <1>5 DEF Same
<1>11. CallOK(c)'
  <2>1. ASSUME NEW q \in calls'[c].written PROVE Stored(c, q)'
    <3>1. CASE q = p
      BY <1>3, <1>5, <2>1, <3>1 DEF Stored, row
    <3>2. CASE q \in k.written
      BY <1>1, <1>2, <1>5, <1>9, <3>2, CallTypes DEF Grow, Stored
    <3> QED
      BY <1>5, <3>1, <3>2
  <2> QED
    BY <1>1, <1>2, <1>5, <2>1 DEF CallOK
<1>12. \A d \in Rider : CallOK(d)'
  BY <1>9, <1>10, <1>11, CallKept
<1>13. OpenQuotes'
  <2>1. \A d \in Rider : Quoting(d)' => Quoting(d) /\ calls'[d].quote = calls[d].quote
    BY <1>1, <1>5 DEF Quoting
  <2>2. \A d, e \in Rider : Quoting(d)' /\ Quoting(e)' /\ calls'[d].quote = calls'[e].quote
                            => d = e
    BY <2>1 DEF Inv, OpenQuotes
  <2>3. ASSUME NEW d \in Rider, Quoting(d)',
               NEW q \in Package \ (calls'[d].written \union calls'[d].failed)
        PROVE  fares'[<<calls'[d].quote, q>>] = None
    <3> DEFINE g == <<calls[d].quote, q>>
    <3>1. g \in Fare /\ fares[g] = None /\ calls'[d].quote = calls[d].quote
      <4>1. Quoting(d) /\ q \in Package \ (calls[d].written \union calls[d].failed)
        BY <1>5, <2>1, <2>3
      <4>2. calls[d].quote \in 1 .. quotes
        BY <4>1 DEF Inv, CallOK, Quoting
      <4> QED
        BY <2>1, <2>3, <4>1, <4>2, CallTypes DEF Inv, OpenQuotes, Quoting
    <3>2. g # f
      <4> SUFFICES ASSUME g = f PROVE FALSE
        OBVIOUS
      <4>1. calls[d].quote = k.quote /\ q = p
        OBVIOUS
      <4>2. d = c
        BY <1>1, <2>1, <2>3, <4>1 DEF Inv, OpenQuotes, Quoting
      <4> QED
        BY <1>5, <2>3, <4>1, <4>2
    <3> QED
      BY <1>7, <3>1, <3>2
  <2>4. \A g \in Fare : g[1] > quotes' => fares'[g] = None
    <3>1. f[1] = k.quote /\ ~(k.quote > quotes)
      BY <1>2 DEF Inv, TypeOK
    <3> QED
      BY <1>1, <1>7, <3>1 DEF Inv, OpenQuotes
  <2> QED
    BY <2>2, <2>3, <2>4 DEF OpenQuotes
<1> QED
  BY <1>1, <1>8, <1>9, <1>12, <1>13, BookedKept, ShownKept, ToldKept DEF Inv

LEMMA GenerateTripFaresStep ==
  ASSUME Inv, NEW c \in Rider, GenerateTripFares(c)
  PROVE  Inv'
<1> DEFINE k == calls[c]
<1>1. /\ k # None /\ k.op = "preview" /\ k.at = "quoting"
      /\ k.written \union k.failed = Package
      /\ UNCHANGED <<breaker, fares, quotes, trips, billed, shown, told, faults>>
  BY DEF GenerateTripFares, At
<1>2. CASE k.failed # {}
  <2>1. Answer(c, "Internal")
    BY <1>2 DEF GenerateTripFares
  <2>2. faults' \in 0 .. MaxFaults
    BY <1>1 DEF Inv, TypeOK
  <2> QED
    BY <1>1, <2>1, <2>2, AnswerStep DEF Code
<1>3. CASE k.failed = {}
  <2>1. AnswerWith(c, "OK", k.quote, 0)
    BY <1>3 DEF GenerateTripFares
  <2>2. /\ k.quote \in 1 .. quotes /\ k.quote \in 0 .. MaxQuotes /\ 0 \in 0 .. MaxTrips
        /\ k.route \in Route /\ \A p \in Package : Stored(c, p)
    BY <1>1, <1>3, FaresAssumption DEF Inv, CallOK, TypeOK
  <2>3. /\ calls' \in [Rider -> Request \union {None}]
        /\ \A d \in Rider : d # c => calls'[d] = calls[d]
        /\ calls'[c] # None /\ calls'[c].op = "preview" /\ calls'[c].at = "answered"
        /\ calls'[c].code = "OK" /\ calls'[c].quote = k.quote /\ calls'[c].route = k.route
    BY <1>1, <2>1, <2>2, Answered DEF Inv, Code
  <2>4. TypeOK'
    BY <1>1, <2>3 DEF Inv, TypeOK
  <2>5. Grow /\ quotes' \in Nat
    BY <1>1, NothingGrows, FaresAssumption DEF Inv, TypeOK
  <2>6. \A d \in Rider : d # c => Same(d)
    BY <2>3 DEF Same
  <2>7. CallOK(c)'
    BY <1>1, <2>2, <2>3 DEF CallOK, Stored
  <2>8. \A d \in Rider : CallOK(d)'
    BY <2>5, <2>6, <2>7, CallKept
  <2>9. OpenQuotes'
    BY <1>1, <2>3, <2>6, QuotesKept DEF Quoting
  <2> QED
    BY <1>1, <2>4, <2>5, <2>8, <2>9, BookedKept, ShownKept, ToldKept DEF Inv
<1> QED
  BY <1>2, <1>3

LEMMA GetAndValidateFareStep ==
  ASSUME Inv, NEW c \in Rider, GetAndValidateFare(c)
  PROVE  Inv'
<1>1. /\ calls[c] # None /\ calls[c].op = "start" /\ calls[c].at = "sent"
      /\ UNCHANGED <<breaker, fares, quotes, trips, billed, shown, told>>
  BY DEF GetAndValidateFare, At
<1>2. CASE /\ ValidFare(calls[c].fare, c) /\ NoFault
           /\ calls' = [calls EXCEPT ![c].at = "validated"]
  <2> DEFINE a == [calls[c] EXCEPT !.at = "validated"]
  <2>1. calls[c] \in Request /\ calls \in [Rider -> Request \union {None}]
    BY <1>1, CallTypes DEF Inv, TypeOK
  <2>2. /\ a \in Request /\ a.op = "start" /\ a.at = "validated" /\ a.code = calls[c].code
        /\ a.fare = calls[c].fare
    BY <1>1, <2>1 DEF Request, Step
  <2>3. calls' = [calls EXCEPT ![c] = a]
    BY <1>2
  <2> HIDE DEF a
  <2>4. calls'[c] = a /\ a # None /\ \A d \in Rider : d # c => calls'[d] = calls[d]
    BY <2>1, <2>2, <2>3, NoneAssumption
  <2>5. TypeOK'
    BY <1>1, <1>2, <2>2, <2>3 DEF Inv, TypeOK, NoFault
  <2>6. Grow /\ quotes' \in Nat
    BY <1>1, NothingGrows, FaresAssumption DEF Inv, TypeOK
  <2>7. \A d \in Rider : d # c => Same(d)
    BY <2>4 DEF Same
  <2>8. CallOK(c)'
    <3>1. calls[c].code = "OK" /\ calls[c].fare \in ShownFares
      BY <1>1 DEF Inv, CallOK
    <3>2. ShownFares' = ShownFares
      BY <1>1 DEF ShownFares
    <3>3. fares'[a.fare].rider = c
      BY <1>1, <1>2, <2>2 DEF ValidFare
    <3> QED
      BY <2>2, <2>4, <3>1, <3>2, <3>3 DEF CallOK
  <2>9. \A d \in Rider : CallOK(d)'
    BY <2>6, <2>7, <2>8, CallKept
  <2>10. OpenQuotes'
    BY <1>1, <2>2, <2>4, <2>7, QuotesKept DEF Quoting
  <2> QED
    BY <1>1, <2>5, <2>6, <2>9, <2>10, BookedKept, ShownKept, ToldKept DEF Inv
<1>3. CASE Answer(c, "InvalidArgument") /\ (Fault \/ NoFault)
  BY <1>1, <1>3, FaultType, AnswerStep DEF Code, Inv, TypeOK
<1> QED
  BY <1>2, <1>3 DEF GetAndValidateFare

LEMMA CreateTripStep ==
  ASSUME Inv, NEW c \in Rider, CreateTrip(c)
  PROVE  Inv'
<1> DEFINE k == calls[c]
           t == NextTrip
           f == k.fare
           row == [rider |-> fares[f].rider, fare |-> f, amount |-> fares[f].price]
<1>1. /\ k # None /\ k.op = "start" /\ k.at = "validated"
      /\ \E u \in Trip : trips[u] = None
      /\ UNCHANGED <<breaker, fares, quotes, billed, shown, told>>
      /\ \/ /\ trips' = [trips EXCEPT ![t] = row] /\ NoFault
            /\ calls' = [calls EXCEPT ![c].at = "answered", ![c].trip = t]
         \/ /\ trips' = [trips EXCEPT ![t] = row] \/ UNCHANGED trips
            /\ Answer(c, "Internal") /\ Fault
  BY DEF CreateTrip, At
<1>2. t \in Trip /\ trips[t] = None /\ t \in 0 .. MaxTrips
  BY <1>1, FaresAssumption DEF NextTrip, Trip
<1> HIDE DEF t
<1>3. /\ k \in Request /\ calls \in [Rider -> Request \union {None}] /\ k.code = "OK"
      /\ f \in ShownFares /\ f \in Fare /\ fares[f] # None /\ fares[f].rider = c
  BY <1>1, CallTypes DEF Inv, TypeOK, CallOK, ShownIsStored, ShownFares, Quote
<1>4. row \in TripRow /\ row # None /\ row.rider = c /\ row.fare = f /\ row.amount = fares[f].price
  <2>1. fares[f] \in FareRow
    BY <1>3 DEF Inv, TypeOK
  <2>2. row \in TripRow
    BY <1>3, <2>1 DEF TripRow, FareRow
  <2> QED
    BY <1>3, <2>2, NoneAssumption
<1> HIDE DEF row
<1>5. /\ trips \in [Trip -> TripRow \union {None}] /\ trips' \in [Trip -> TripRow \union {None}]
      /\ \A u \in Trip : u # t => trips'[u] = trips[u]
      /\ trips'[t] \in {row, None}
  BY <1>1, <1>2, <1>4 DEF Inv, TypeOK
<1>6. Grow /\ quotes' \in Nat
  BY <1>1, <1>2, <1>5, FaresAssumption DEF Grow, Inv, TypeOK
<1>7. Booked' /\ BilledAsAgreed' /\ ShownIsStored'
  <2>1. Booked'
    BY <1>1, <1>2, <1>3, <1>4, <1>5 DEF Inv, Booked, ShownFares
  <2>2. BilledAsAgreed'
    BY <1>1, <1>2, <1>5 DEF Inv, Booked, BilledAsAgreed
  <2> QED
    BY <1>1, <1>6, <2>1, <2>2, ShownKept
<1>8. Told'
  BY <1>1, <1>6, ToldKept
<1>9. /\ calls' \in [Rider -> Request \union {None}]
      /\ \A d \in Rider : d # c => calls'[d] = calls[d]
      /\ calls'[c] # None /\ calls'[c].op = "start" /\ calls'[c].at = "answered"
      /\ calls'[c].code = "OK" => calls'[c].trip = t /\ trips'[t] = row
      /\ Fault \/ NoFault
  <2>1. CASE Answer(c, "Internal") /\ Fault
    <3>1. /\ calls' \in [Rider -> Request \union {None}]
          /\ \A d \in Rider : d # c => calls'[d] = calls[d]
          /\ calls'[c] # None /\ calls'[c].op = "start" /\ calls'[c].at = "answered"
          /\ calls'[c].code = "Internal"
      BY <1>1, <2>1, PlainAnswer, Answered DEF Inv, Code
    <3> QED
      BY <2>1, <3>1
  <2>2. CASE /\ trips' = [trips EXCEPT ![t] = row] /\ NoFault
             /\ calls' = [calls EXCEPT ![c].at = "answered", ![c].trip = t]
    <3> DEFINE e1 == [k EXCEPT !.at = "answered"]
               e2 == [e1 EXCEPT !.trip = t]
    <3>1. calls' = [calls EXCEPT ![c] = e2]
      BY <2>2
    <3>2. e1 \in Request /\ e1.op = "start" /\ e1.at = "answered"
      BY <1>1, <1>3 DEF Request, Step
    <3> HIDE DEF e1
    <3>3. e2 \in Request /\ e2.op = "start" /\ e2.at = "answered" /\ e2.trip = t
      BY <1>2, <3>2 DEF Request
    <3> HIDE DEF e2
    <3>4. e2 # None /\ trips'[t] = row /\ NoFault
      BY <1>2, <1>5, <2>2, <3>3, NoneAssumption
    <3>5. /\ calls' \in [Rider -> Request \union {None}] /\ calls'[c] = e2
          /\ \A d \in Rider : d # c => calls'[d] = calls[d]
      BY <1>3, <3>1, <3>3
    <3> QED
      BY <3>3, <3>4, <3>5
  <2> QED
    BY <1>1, <2>1, <2>2
<1>10. TypeOK'
  BY <1>1, <1>5, <1>9, FaultType DEF Inv, TypeOK
<1>11. \A d \in Rider : d # c => Same(d)
  BY <1>9 DEF Same
<1>12. CallOK(c)'
  BY <1>2, <1>4, <1>9 DEF CallOK
<1>13. \A d \in Rider : CallOK(d)'
  BY <1>6, <1>11, <1>12, CallKept
<1>14. OpenQuotes'
  BY <1>1, <1>9, <1>11, QuotesKept DEF Quoting
<1> QED
  BY <1>7, <1>8, <1>10, <1>13, <1>14 DEF Inv

LEMMA OtherAnswerStep ==
  ASSUME Inv, NEW c \in Rider,
         RateTrip(c) \/ GetTripsByUser(c) \/ Disconnect(c) \/ Leave(c)
  PROVE  Inv'
<1>1. ASSUME NEW code \in Code, calls[c] # None, Answer(c, code),
             code = "OK" => calls[c].op \in {"rate", "history"},
             UNCHANGED <<breaker, quotes, fares, trips, billed, shown, told>>,
             Fault \/ NoFault
      PROVE  Inv'
  BY <1>1, FaultType, AnswerStep DEF Inv, TypeOK
<1>2. CASE RateTrip(c)
  <2>1. /\ calls[c] # None /\ calls[c].op = "rate"
        /\ Answer(c, "OK") \/ Answer(c, "InvalidArgument")
        /\ UNCHANGED <<breaker, quotes, fares, trips, billed, shown, told>> /\ NoFault
    BY <1>2 DEF RateTrip, At, NoFault
  <2> QED
    BY <1>1, <2>1 DEF Code
<1>3. CASE GetTripsByUser(c)
  <2>1. /\ calls[c] # None /\ calls[c].op = "history"
        /\ Answer(c, "OK") \/ Answer(c, "Internal")
        /\ UNCHANGED <<breaker, quotes, fares, trips, billed, shown, told>>
        /\ Fault \/ NoFault
    BY <1>3 DEF GetTripsByUser, At
  <2> QED
    BY <1>1, <2>1 DEF Code
<1>4. CASE Disconnect(c)
  BY <1>1, <1>4 DEF Disconnect, Code
<1>5. CASE Leave(c)
  BY <1>1, <1>5 DEF Leave, Code, NoFault
<1> QED
  BY <1>2, <1>3, <1>4, <1>5

\* A request that loses its mark is otherwise the same.
LEMMA MarkLost ==
  ASSUME NEW k \in Request
  PROVE  LET a == [k EXCEPT !.fresh = FALSE]
         IN /\ a \in Request /\ a # None
            /\ a.op = k.op /\ a.at = k.at /\ a.code = k.code /\ a.fare = k.fare
            /\ a.trip = k.trip /\ a.quote = k.quote /\ a.route = k.route
            /\ a.written = k.written /\ a.failed = k.failed
BY NoneAssumption DEF Request

\* So is every request after a step that only ends some or marks them.
LEMMA AgedCalls ==
  ASSUME TypeOK, NEW cs \in [Rider -> Request \union {None}],
         \A d \in Rider : cs[d] \in {calls[d], None},
         NEW old,
         calls' = [d \in Rider |-> IF cs[d] # None /\ old
                                   THEN [cs[d] EXCEPT !.fresh = FALSE] ELSE cs[d]]
  PROVE  /\ calls' \in [Rider -> Request \union {None}]
         /\ \A d \in Rider : Same(d)
<1>1. ASSUME NEW d \in Rider PROVE calls'[d] \in Request \union {None} /\ Same(d)
  <2>1. calls'[d] = IF cs[d] # None /\ old THEN [cs[d] EXCEPT !.fresh = FALSE] ELSE cs[d]
    OBVIOUS
  <2>2. CASE cs[d] # None /\ old
    <3>1. cs[d] \in Request /\ cs[d] = calls[d]
      BY <2>2
    <3> QED
      BY <2>1, <2>2, <3>1, MarkLost DEF Same
  <2>3. CASE ~(cs[d] # None /\ old)
    BY <2>1, <2>3 DEF Same
  <2> QED
    BY <2>2, <2>3
<1> QED
  BY <1>1

LEMMA ReturnStep == ASSUME Inv, NEW c \in Rider, Return(c) PROVE Inv'
<1> DEFINE k == calls[c]
<1>1. /\ k # None /\ k.at = "answered"
      /\ breaker' = After(k)
      /\ calls' = Aged([calls EXCEPT ![c] = None], breaker, breaker')
      /\ shown' = IF k.op = "preview" /\ k.code = "OK"
                  THEN shown \union Preview(c, k) ELSE shown
      /\ told' = IF k.op = "start" /\ k.code = "OK"
                 THEN [told EXCEPT ![c] = @ \union {k.trip}] ELSE told
      /\ UNCHANGED <<fares, quotes, trips, billed, faults>>
  BY DEF Return
<1>2. CallOK(c) /\ k \in Request
  BY <1>1, CallTypes DEF Inv
<1>3. calls' \in [Rider -> Request \union {None}] /\ \A d \in Rider : Same(d)
  <2> DEFINE cs == [calls EXCEPT ![c] = None]
             old == breaker.state # breaker'.state
  <2>1. cs \in [Rider -> Request \union {None}] /\ \A d \in Rider : cs[d] \in {calls[d], None}
    BY DEF Inv, TypeOK
  <2>2. calls' = [d \in Rider |-> IF cs[d] # None /\ old
                                  THEN [cs[d] EXCEPT !.fresh = FALSE] ELSE cs[d]]
    BY <1>1 DEF Aged
  <2> HIDE DEF cs, old
  <2> QED
    BY <2>1, <2>2, AgedCalls DEF Inv
<1>4. breaker' \in BreakerState
  BY <1>1, BreakerType DEF After, Inv, TypeOK
<1>5. \A s \in Preview(c, k) : k.op = "preview" /\ k.code = "OK" =>
        /\ s \in Quote /\ fares[s.fare] # None
        /\ fares[s.fare].rider = s.rider /\ fares[s.fare].price = s.price
  <2> SUFFICES ASSUME k.op = "preview", k.code = "OK", NEW p \in Package
               PROVE  LET s == [fare |-> <<k.quote, p>>, rider |-> c,
                                price |-> EstimatePackagesPriceWithRoute(Package, k.route)[p]]
                      IN /\ s \in Quote /\ fares[s.fare] # None
                         /\ fares[s.fare].rider = s.rider /\ fares[s.fare].price = s.price
    BY DEF Preview
  <2>1. k.quote \in 1 .. quotes /\ k.route \in Route /\ Stored(c, p)
    BY <1>1, <1>2 DEF CallOK
  <2>2. <<k.quote, p>> \in Fare /\ EstimatePackagesPriceWithRoute(Package, k.route)[p] \in Nat
    BY <1>1, <2>1, CallTypes, PriceType
  <2> QED
    BY <2>1, <2>2 DEF Quote, Stored
<1>6. shown' \subseteq Quote /\ shown \subseteq shown'
  BY <1>1, <1>5 DEF Inv, TypeOK
<1>7. told' \in [Rider -> SUBSET Trip]
  BY <1>1, <1>2 DEF CallOK, Inv, TypeOK
<1>8. TypeOK'
  BY <1>1, <1>3, <1>4, <1>6, <1>7 DEF Inv, TypeOK
<1>9. Grow /\ quotes' \in Nat
  BY <1>1, <1>6, FaresAssumption DEF Grow, Inv, TypeOK
<1>10. \A d \in Rider : CallOK(d)'
  BY <1>3, <1>9, CallKept
<1>11. OpenQuotes'
  BY <1>1, <1>3, QuotesKept
<1>12. ShownIsStored'
  BY <1>1, <1>5 DEF Inv, ShownIsStored
<1>13. Told'
  BY <1>1, <1>2 DEF CallOK, Inv, TypeOK, Told
<1> QED
  BY <1>1, <1>8, <1>9, <1>10, <1>11, <1>12, <1>13, BookedKept DEF Inv

LEMMA ElapseStep == ASSUME Inv, Elapse PROVE Inv'
<1>1. /\ breaker' \in BreakerState
      /\ UNCHANGED <<fares, quotes, trips, billed, shown, told, faults>>
  BY BreakerType DEF Elapse
<1>2. calls' \in [Rider -> Request \union {None}] /\ \A d \in Rider : Same(d)
  <2> DEFINE cs == calls
  <2>1. cs \in [Rider -> Request \union {None}] /\ \A d \in Rider : cs[d] \in {calls[d], None}
    BY DEF Inv, TypeOK
  <2>2. calls' = [d \in Rider |-> IF cs[d] # None /\ TRUE
                                  THEN [cs[d] EXCEPT !.fresh = FALSE] ELSE cs[d]]
    BY DEF Elapse
  <2> QED
    BY <2>1, <2>2, AgedCalls DEF Inv
<1>3. TypeOK'
  BY <1>1, <1>2 DEF Inv, TypeOK
<1>4. Grow /\ quotes' \in Nat
  BY <1>1, NothingGrows, FaresAssumption DEF Inv, TypeOK
<1>5. \A d \in Rider : CallOK(d)'
  BY <1>2, <1>4, CallKept
<1>6. OpenQuotes'
  BY <1>1, <1>2, QuotesKept
<1> QED
  BY <1>1, <1>3, <1>4, <1>5, <1>6, BookedKept, ShownKept, ToldKept DEF Inv

LEMMA ExpireStep == ASSUME Inv, NEW q \in 1 .. MaxQuotes, Expire(q) PROVE Inv'
<1>1. /\ fares' = [f \in Fare |-> IF f[1] = q /\ fares[f] # None
                                 THEN [fares[f] EXCEPT !.expired = TRUE] ELSE fares[f]]
      /\ UNCHANGED <<breaker, calls, quotes, trips, billed, shown, told, faults>>
  BY DEF Expire
<1>2. ASSUME NEW f \in Fare
      PROVE  /\ fares[f] = None => fares'[f] = None
             /\ fares[f] # None => /\ fares'[f] \in FareRow /\ fares'[f] # None
                                   /\ fares'[f].rider = fares[f].rider
                                   /\ fares'[f].price = fares[f].price
  <2>1. CASE fares[f] = None
    BY <1>1, <2>1
  <2>2. CASE fares[f] # None
    <3>1. fares[f] \in FareRow
      BY <2>2 DEF Inv, TypeOK
    <3> DEFINE a == [fares[f] EXCEPT !.expired = TRUE]
    <3>2. a \in FareRow /\ a.rider = fares[f].rider /\ a.price = fares[f].price
      BY <3>1 DEF FareRow
    <3>3. fares'[f] \in {a, fares[f]}
      BY <1>1
    <3> HIDE DEF a
    <3> QED
      BY <2>2, <3>1, <3>2, <3>3, NoneAssumption
  <2> QED
    BY <2>1, <2>2
<1>3. fares' \in [Fare -> FareRow \union {None}]
  <2>1. \A f \in Fare : fares'[f] \in FareRow \union {None}
    BY <1>2
  <2> QED
    BY <1>1, <2>1
<1>4. TypeOK'
  BY <1>1, <1>3 DEF Inv, TypeOK
<1>5. Grow /\ quotes' \in Nat
  BY <1>1, <1>2, FaresAssumption DEF Grow, Inv, TypeOK
<1>6. \A d \in Rider : Same(d)
  BY <1>1 DEF Same
<1>7. \A d \in Rider : CallOK(d)'
  BY <1>5, <1>6, CallKept
<1>8. OpenQuotes'
  BY <1>1, <1>2, <1>6, QuotesKept
<1> QED
  BY <1>1, <1>4, <1>5, <1>7, <1>8, BookedKept, ShownKept, ToldKept DEF Inv

LEMMA CompletedStep ==
  ASSUME Inv, NEW t \in Trip, NEW driven \in Driven, handleTripCompleted(t, driven)
  PROVE  Inv'
<1> DEFINE fare == fares[trips[t].fare]
           amount == IF driven = None THEN fare.price
                     ELSE Reprice(fare.price, fare.route.distance, driven)
<1>1. /\ trips[t] # None /\ billed' = [billed EXCEPT ![t] = amount]
      /\ UNCHANGED <<breaker, calls, fares, quotes, trips, shown, told, faults>>
  BY DEF handleTripCompleted
<1>2. fare \in FareRow /\ trips[t].amount = fare.price
  BY <1>1 DEF Inv, Booked, ShownIsStored, ShownFares, Quote, TypeOK
<1>3. fare.price \in Nat /\ fare.route.distance \in Nat
  BY <1>2, FaresAssumption DEF FareRow, MapboxRouteResponse
<1>4. amount \in Nat /\ amount <= fare.price /\ 10 * amount > fare.price - 10
  <2>1. CASE driven = None
    BY <1>3, <2>1
  <2>2. CASE driven # None
    <3>1. driven \in Nat
      BY <2>2, FaresAssumption
    <3> QED
      BY <1>3, <2>2, <3>1, RepriceBounds
  <2> QED
    BY <2>1, <2>2
<1> HIDE DEF amount
<1>5. billed \in [Trip -> Nat \union {None}] /\ billed' \in [Trip -> Nat \union {None}]
  BY <1>1, <1>4 DEF Inv, TypeOK
<1>6. TypeOK'
  BY <1>1, <1>5 DEF Inv, TypeOK
<1>7. Grow /\ quotes' \in Nat
  BY <1>1, NothingGrows, FaresAssumption DEF Inv, TypeOK
<1>8. \A d \in Rider : Same(d)
  BY <1>1 DEF Same
<1>9. \A d \in Rider : CallOK(d)'
  BY <1>7, <1>8, CallKept
<1>10. OpenQuotes'
  BY <1>1, <1>8, QuotesKept
<1>11. Booked' /\ BilledAsAgreed'
  <2>1. billed'[t] = amount /\ \A u \in Trip : u # t => billed'[u] = billed[u]
    BY <1>1, <1>5
  <2> QED
    BY <1>1, <1>2, <1>4, <2>1 DEF Inv, Booked, BilledAsAgreed, ShownFares
<1> QED
  BY <1>1, <1>6, <1>7, <1>9, <1>10, <1>11, ShownKept, ToldKept DEF Inv

LEMMA StutterStep == ASSUME Inv, UNCHANGED vars PROVE Inv'
BY DEF vars, Inv, TypeOK, CallOK, OpenQuotes, Quoting, ShownIsStored, Booked, Told,
       BilledAsAgreed, Stored, ShownFares

-----------------------------------------------------------------------------
(* The theorems *)

LEMMA InvInit == Init => Inv
<1> SUFFICES ASSUME Init PROVE Inv
  OBVIOUS
<1>1. TypeOK
  BY BreakerType, FaresAssumption DEF Init, TypeOK, newBreaker
<1>2. (\A c \in Rider : CallOK(c)) /\ OpenQuotes
  BY DEF Init, CallOK, OpenQuotes, Quoting
<1>3. ShownIsStored /\ Booked /\ Told /\ BilledAsAgreed
  BY DEF Init, ShownIsStored, Booked, Told, BilledAsAgreed
<1> QED
  BY <1>1, <1>2, <1>3 DEF Inv

LEMMA InvStep == Inv /\ [Next]_vars => Inv'
<1> SUFFICES ASSUME Inv, [Next]_vars PROVE Inv'
  OBVIOUS
<1>1. ASSUME NEW c \in Rider,
             \/ handleTripPreview(c) \/ handleTripStart(c)
             \/ handleTripRate(c) \/ handleTripHistory(c)
      PROVE  Inv'
  <2>1. 0 \in 0 .. MaxTrips /\ None \in Fare \union {None}
    BY FaresAssumption
  <2>2. ShownFares \subseteq Fare /\ told[c] \subseteq 0 .. MaxTrips
    BY FaresAssumption DEF Inv, TypeOK, Trip, ShownFares, Quote
  <2>3. CASE handleTripPreview(c)
    BY <2>1, <2>3, EnterStep DEF handleTripPreview, Op
  <2>4. CASE handleTripStart(c)
    BY <2>1, <2>2, <2>4, EnterStep DEF handleTripStart, Op, ShownFares
  <2>5. CASE handleTripRate(c)
    BY <2>1, <2>2, <2>5, EnterStep DEF handleTripRate, Op
  <2>6. CASE handleTripHistory(c)
    BY <2>1, <2>6, EnterStep DEF handleTripHistory, Op
  <2> QED
    BY <1>1, <2>3, <2>4, <2>5, <2>6
<1>2. ASSUME NEW c \in Rider,
             \/ GetRoute(c) \/ GenerateTripFares(c) \/ GetAndValidateFare(c)
             \/ CreateTrip(c) \/ RateTrip(c) \/ GetTripsByUser(c)
             \/ Disconnect(c) \/ Leave(c) \/ Return(c)
             \/ \E p \in Package : SaveRideFare(c, p)
      PROVE  Inv'
  BY <1>2, GetRouteStep, GenerateTripFaresStep, GetAndValidateFareStep, CreateTripStep,
     OtherAnswerStep, ReturnStep, SaveRideFareStep
<1> QED
  BY <1>1, <1>2, ExpireStep, CompletedStep, ElapseStep, StutterStep DEF Next

LEMMA InvHolds == Spec => []Inv
BY InvInit, InvStep, PTL DEF Spec

\* Every variable keeps its type, the breaker's counts included.
THEOREM TypeCorrect == Spec => []TypeOK
<1>1. Inv => TypeOK
  BY DEF Inv
<1> QED
  BY <1>1, InvHolds, PTL

\* A fare a rider is shown is stored for that rider and at the price shown,
\* whichever of the parallel INSERTs failed (GenerateTripFares in service.go).
THEOREM ShownFaresAreStored == Spec => []ShownIsStored
<1>1. Inv => ShownIsStored
  BY DEF Inv
<1> QED
  BY <1>1, InvHolds, PTL

\* A trip a rider is told of is that rider's, for a fare that this rider was shown
\* and at the price shown (handleTripStart, GetAndValidateFare, CreateTrip).
THEOREM ToldTripsAreTheirs == Spec => []ToldIsTheirs
<1>1. Inv => ToldIsTheirs
  <2> SUFFICES ASSUME Inv, NEW r \in Rider, NEW t \in told[r]
               PROVE  /\ trips[t] # None /\ trips[t].rider = r
                      /\ [fare |-> trips[t].fare, rider |-> r, price |-> trips[t].amount] \in shown
    BY DEF ToldIsTheirs
  <2>1. t \in Trip /\ trips[t] # None /\ trips[t].rider = r
    BY DEF Inv, TypeOK, Told
  <2>2. PICK s \in shown : s.fare = trips[t].fare
    BY <2>1 DEF Inv, Booked, ShownFares
  <2>3. s \in Quote /\ s.rider = r /\ s.price = trips[t].amount
    BY <2>1, <2>2 DEF Inv, TypeOK, Booked, ShownIsStored
  <2> QED
    BY <2>1, <2>2, <2>3 DEF Quote
<1> QED
  BY <1>1, InvHolds, PTL

\* A ride costs between a tenth of its price and all of it, for every price,
\* route and length (handleTripCompleted).
THEOREM BillsStayWithinPrices == Spec => []BilledAsAgreed
<1>1. Inv => BilledAsAgreed
  BY DEF Inv
<1> QED
  BY <1>1, InvHolds, PTL
===============================================================================

---------------------------- MODULE DispatchProofs ----------------------------
(***************************************************************************)
(* Theorems about Dispatch, for any trips, drivers and goroutines, and     *)
(* whatever disturbs them.                                                 *)
(***************************************************************************)
EXTENDS Dispatch, FiniteSetTheorems, TLAPS

-----------------------------------------------------------------------------
(* Types *)

\* Whose place tells what a goroutine knows.
LEMMA WorkerKinds ==
  ASSUME TypeOK, NEW w \in Worker
  PROVE  /\ worker[w].pc \in {"claimed", "none", "stored", "picked", "notified", "marked"} =>
              /\ worker[w] \in Job
              /\ worker[w].event \in Event
              /\ worker[w].event.trip \in Trip /\ worker[w].event.exclude \subseteq Driver
              /\ worker[w].from \in {"kafka", "waiting"} /\ worker[w].todo \subseteq Trip
         /\ worker[w].pc \in {"picked", "notified", "marked"} => worker[w].driver \in Driver
         /\ worker[w].pc \in {"match", "gone"} => worker[w].todo \subseteq Trip
         /\ worker[w].pc = "gone" => worker[w].trip \in Trip
<1>1. worker[w] \in {Idle} \union Matching \union Job
  BY DEF TypeOK
<1>2. CASE worker[w] = Idle
  BY <1>2 DEF Idle
<1>3. CASE worker[w] \in Matching
  BY <1>3 DEF Matching
<1>4. CASE worker[w] \in Job
  BY <1>4 DEF Job, Event
<1> QED
  BY <1>1, <1>2, <1>3, <1>4

\* Messages are messages.
LEMMA MessageTypes ==
  ASSUME NEW t \in Trip
  PROVE  /\ \A X \in SUBSET Driver : Search(t, X) \in Message
         /\ \A d \in Driver : /\ About("accept", t, d) \in Message
                              /\ About("decline", t, d) \in Message
                              /\ About("completed", t, d) \in Message
         /\ \A d \in Driver \union {None} : About("cancelled", t, d) \in Message
BY DEF Search, About, Message, Event

\* What a goroutine is about to do with an event keeps its type.
LEMMA BeginType ==
  ASSUME TypeOK, NEW w \in Worker, NEW e \in Event, NEW src \in {"kafka", "waiting"},
         NEW rest \in SUBSET Trip, Begin(w, e, src, rest)
  PROVE  worker' \in [Worker -> {Idle} \union Matching \union Job]
<1>1. FindAvailableDrivers(e) \subseteq Driver
  BY DEF FindAvailableDrivers, TypeOK
<1>2. PICK d \in Driver \union {None} :
        worker' = [worker EXCEPT ![w] =
                     [pc |-> IF d = None THEN "none" ELSE "picked", event |-> e,
                      driver |-> d, from |-> src, todo |-> rest]]
  BY <1>1 DEF Begin
<1>3. /\ [pc |-> "none", event |-> e, driver |-> None, from |-> src, todo |-> rest] \in Job
      /\ d # None => [pc |-> "picked", event |-> e, driver |-> d, from |-> src, todo |-> rest] \in Job
  BY DEF Job
<1> QED
  BY <1>2, <1>3 DEF TypeOK

LEMMA EndJobType ==
  ASSUME TypeOK, NEW w \in Worker, NEW again, EndJob(w, again),
         worker[w].pc \in {"claimed", "none", "stored", "picked", "notified", "marked"}
  PROVE  /\ worker' \in [Worker -> {Idle} \union Matching \union Job]
         /\ inbox' \subseteq Message
<1>1. /\ worker[w].todo \subseteq Trip
      /\ Search(worker[w].event.trip, worker[w].event.exclude) \in Message
  BY WorkerKinds, MessageTypes
<1>2. [pc |-> "match", todo |-> worker[w].todo] \in Matching
  BY <1>1 DEF Matching
<1>3. worker' \in [Worker -> {Idle} \union Matching \union Job]
  BY <1>2 DEF EndJob, TypeOK
<1>4. inbox' \subseteq Message
  BY <1>1 DEF EndJob, TypeOK
<1> QED
  BY <1>3, <1>4

\* A step of a goroutine only moves it on.
LEMMA MoveType ==
  ASSUME TypeOK, NEW w \in Worker, NEW place \in {"notified", "marked"},
         worker[w].pc \in {"picked", "notified"},
         worker' = [worker EXCEPT ![w].pc = place]
  PROVE  worker' \in [Worker -> {Idle} \union Matching \union Job]
<1>1. worker[w] \in Job
  BY WorkerKinds
<1>2. [worker[w] EXCEPT !.pc = place] \in Job
  BY <1>1 DEF Job
<1> QED
  BY <1>2 DEF TypeOK

LEMMA GoroutineType ==
  ASSUME TypeOK, NEW w \in Worker, Goroutine(w)
  PROVE  TypeOK'
<1> USE WorkerKinds
<1>1. CASE startMatching(w)
  <2>1. [pc |-> "match", todo |-> listed] \in Matching
    BY DEF TypeOK, Matching
  <2>2. worker' \in [Worker -> {Idle} \union Matching \union Job] /\ wake' \in Nat
    BY <1>1, <2>1 DEF startMatching, TypeOK
  <2> QED
    BY <1>1, <2>2 DEF startMatching, TypeOK, redis, queue, timers, outside
<1>2. CASE waitingClaim(w)
  <2>1. worker[w].todo \subseteq Trip
    BY <1>2 DEF waitingClaim
  <2>2. \A e \in waiting : [pc |-> "claimed", event |-> e, driver |-> None, from |-> "waiting",
                            todo |-> worker[w].todo \ {e.trip}] \in Job
    BY <2>1 DEF TypeOK, Job
  <2>3. \A t \in worker[w].todo :
          [pc |-> "gone", trip |-> t, todo |-> worker[w].todo \ {t}] \in Matching
    BY <2>1 DEF Matching
  <2>4. worker' \in [Worker -> {Idle} \union Matching \union Job] /\ waiting' \subseteq waiting
    BY <1>2, <2>2, <2>3 DEF waitingClaim, Claimed, Outcomes, TypeOK
  <2> QED
    BY <1>2, <2>4 DEF waitingClaim, TypeOK, timers, outside
<1>3. CASE TryMatchWaiting(w)
  <2> DEFINE Kept == worker' \in [Worker -> {Idle} \union Matching \union Job]
  <2>1. ASSUME worker[w].pc = "claimed", Begin(w, worker[w].event, "waiting", worker[w].todo)
        PROVE  Kept
    BY <2>1, BeginType
  <2>2. ASSUME worker[w].pc = "gone",
               worker' = [worker EXCEPT ![w] = [pc |-> "match", todo |-> @.todo]]
        PROVE  Kept
    <3>1. [pc |-> "match", todo |-> worker[w].todo] \in Matching
      BY <2>2 DEF Matching
    <3> QED
      BY <2>2, <3>1 DEF TypeOK
  <2>3. Kept /\ listed' \subseteq listed
    BY <1>3, <2>1, <2>2 DEF TryMatchWaiting, Outcomes
  <2> QED
    BY <1>3, <2>3 DEF TryMatchWaiting, TypeOK, timers, outside
<1>4. CASE endMatching(w)
  BY <1>4 DEF endMatching, TypeOK, redis, queue, timers, outside
<1>5. CASE storeWaiting(w)
  <2>1. /\ waiting' \subseteq Event /\ listed' \subseteq Trip
    BY <1>5 DEF storeWaiting, waitingStore, Outcomes, TypeOK
  <2>2. /\ [worker[w] EXCEPT !.pc = "stored"] \in Job
        /\ [pc |-> "match", todo |-> worker[w].todo] \in Matching
    BY <1>5 DEF storeWaiting, Job, Matching
  <2>3. worker' \in [Worker -> {Idle} \union Matching \union Job]
    BY <1>5, <2>2 DEF storeWaiting, TypeOK
  <2> QED
    BY <1>5, <2>1, <2>3 DEF storeWaiting, TypeOK, timers, outside
<1>6. CASE notifyDriver(w)
  <2>1. worker' \in [Worker -> {Idle} \union Matching \union Job]
    BY <1>6, MoveType DEF notifyDriver
  <2>2. requested' \subseteq requested \union (Trip \X (Driver \union {None}))
    BY <1>6 DEF notifyDriver
  <2>3. requested' \subseteq Trip \X Driver
    BY <1>6 DEF notifyDriver, TypeOK
  <2> QED
    BY <1>6, <2>1, <2>3 DEF notifyDriver, TypeOK, redis, queue, timers
<1>7. CASE notifyFails(w)
  <2>1. /\ waiting' \subseteq Event /\ listed' \subseteq Trip
    BY <1>7 DEF notifyFails, waitingStore, Outcomes, queue, TypeOK
  <2>2. /\ worker' \in [Worker -> {Idle} \union Matching \union Job]
        /\ inbox' \subseteq Message
    BY <1>7, EndJobType DEF notifyFails
  <2> QED
    BY <1>7, <2>1, <2>2 DEF notifyFails, TypeOK, timers, outside
<1>8. CASE SetBusy(w)
  <2>1. worker' \in [Worker -> {Idle} \union Matching \union Job]
    BY <1>8, MoveType DEF SetBusy
  <2>2. busy' \in [Driver -> Trip \union {None}]
    BY <1>8 DEF SetBusy, Outcomes, TypeOK
  <2> QED
    BY <1>8, <2>1, <2>2 DEF SetBusy, TypeOK, queue, timers, outside
<1>9. CASE spawnTimer(w)
  <2> DEFINE o == [id |-> offers, trip |-> worker[w].event.trip, driver |-> worker[w].driver,
                   exclude |-> worker[w].event.exclude]
  <2>1. /\ worker' \in [Worker -> {Idle} \union Matching \union Job]
        /\ inbox' \subseteq Message
    <3>1. worker[w].pc = "marked" /\ EndJob(w, "replay" \in Disturbances)
      BY <1>9 DEF spawnTimer
    <3> QED
      BY <3>1, EndJobType
  <2>2. o \in Offer
    BY <1>9 DEF spawnTimer, TypeOK, Offer
  <2>3. pending' \subseteq Offer /\ asleep' \subseteq Offer /\ offers' \in Nat
    BY <1>9, <2>2 DEF spawnTimer, Store, TypeOK
  <2> QED
    BY <1>9, <2>1, <2>3 DEF spawnTimer, TypeOK, redis, queue, outside
<1>10. CASE publishNoDriversFound(w)
  <2>1. /\ worker' \in [Worker -> {Idle} \union Matching \union Job]
        /\ inbox' \subseteq Message
    BY <1>10, EndJobType DEF publishNoDriversFound
  <2> QED
    BY <1>10, <2>1 DEF publishNoDriversFound, TypeOK, redis, queue, timers, outside
<1> QED
  BY <1>1, <1>2, <1>3, <1>4, <1>5, <1>6, <1>7, <1>8, <1>9, <1>10 DEF Goroutine

LEMMA TimerType ==
  ASSUME TypeOK, TimerSteps
  PROVE  TypeOK'
<1>1. ASSUME NEW o \in asleep, fire(o) PROVE TypeOK'
  BY <1>1 DEF fire, TypeOK, redis, queue, goroutines, outside
<1>2. ASSUME NEW o \in fired, takePending(o) PROVE TypeOK'
  <2>1. \A p \in pending :
          [timer |-> o, taken |-> p, pc |-> "clear"]
            \in [timer : Offer, taken : Offer, pc : {"clear", "retry"}]
    BY <1>2 DEF TypeOK
  <2>2. /\ pending' \subseteq Offer /\ fired' \subseteq Offer /\ restoring' \subseteq Offer
        /\ expiring' \subseteq [timer : Offer, taken : Offer, pc : {"clear", "retry"}]
    BY <1>2, <2>1 DEF takePending, PendingOf, TypeOK
  <2> QED
    BY <1>2, <2>2 DEF takePending, TypeOK, redis, queue, goroutines, outside
<1>3. ASSUME NEW p \in restoring, restore(p) PROVE TypeOK'
  BY <1>3 DEF restore, Store, TypeOK, redis, queue, goroutines, outside
<1>4. ASSUME NEW x \in expiring, clearTimedOut(x) PROVE TypeOK'
  <2>1. busy' \in [Driver -> Trip \union {None}]
    BY <1>4 DEF clearTimedOut, ClearBusy, Outcomes, TypeOK
  <2>2. [x EXCEPT !.pc = "retry"] \in [timer : Offer, taken : Offer, pc : {"clear", "retry"}]
    BY DEF TypeOK
  <2> QED
    BY <1>4, <2>1, <2>2 DEF clearTimedOut, TypeOK, queue, goroutines, outside
<1>5. ASSUME NEW x \in expiring, publishRetry(x) PROVE TypeOK'
  <2>1. Search(x.timer.trip, x.timer.exclude \union {x.timer.driver}) \in Message
    <3>1. x.timer.trip \in Trip /\ x.timer.driver \in Driver /\ x.timer.exclude \subseteq Driver
      BY DEF TypeOK, Offer
    <3> QED
      BY <3>1, MessageTypes
  <2>2. inbox' \subseteq Message
    BY <1>5, <2>1 DEF publishRetry, TypeOK
  <2> QED
    BY <1>5, <2>2 DEF publishRetry, TypeOK, redis, queue, goroutines, outside
<1> QED
  BY <1>1, <1>2, <1>3, <1>4, <1>5 DEF TimerSteps

\* What the fields of a message are.
LEMMA MessageFields ==
  ASSUME NEW m \in Message
  PROVE  /\ m.kind = "search" => m.event \in Event
         /\ m.kind # "search" => m.trip \in Trip /\ m.driver \in Driver \union {None}
BY DEF Message

LEMMA ConsumerType ==
  ASSUME TypeOK, NEW m \in inbox,
         \/ handleDriverResponse(m) \/ handleTripCancelled(m) \/ handleTripCompleted(m)
  PROVE  TypeOK'
<1>1. ASSUME NEW d, NEW t PROVE ClearBusy(d, t) => busy' \in [Driver -> Trip \union {None}]
  BY DEF ClearBusy, Outcomes, TypeOK
<1>2. ASSUME NEW d, wakeFor(d) PROVE wake' \in Nat
  BY <1>2 DEF wakeFor, TypeOK
<1>3. Committed(m) => inbox' \subseteq Message
  BY DEF Committed, TypeOK
<1>4. TakeAndCancel(m.trip) => pending' \subseteq Offer /\ asleep' \subseteq Offer
  BY DEF TakeAndCancel, TypeOK
<1>5. CASE handleDriverResponse(m)
  <2>1. busy' \in [Driver -> Trip \union {None}]
    BY <1>1, <1>5 DEF handleDriverResponse, TypeOK
  <2> QED
    BY <1>3, <1>4, <1>5, <2>1 DEF handleDriverResponse, TypeOK, queue, goroutines, outside
<1>6. CASE handleTripCancelled(m)
  <2>1. busy' \in [Driver -> Trip \union {None}] /\ wake' \in Nat
    BY <1>1, <1>2, <1>6 DEF handleTripCancelled, TypeOK
  <2>2. waiting' \subseteq Event /\ listed' \subseteq Trip
    BY <1>6 DEF handleTripCancelled, waitingDelete, Outcomes, TypeOK
  <2> QED
    BY <1>3, <1>4, <1>6, <2>1, <2>2 DEF handleTripCancelled, TypeOK, outside
<1>7. CASE handleTripCompleted(m)
  BY <1>1, <1>2, <1>3, <1>7 DEF handleTripCompleted, TypeOK, queue, timers, outside
<1> QED
  BY <1>5, <1>6, <1>7

LEMMA CallType ==
  ASSUME TypeOK, NEW d \in Driver,
         RegisterDriver(d) \/ GoOffline(d) \/ deleteHash(d) \/ UpdateLocation(d)
  PROVE  TypeOK'
<1>1. CASE RegisterIdle(d)
  BY <1>1 DEF RegisterIdle, Registered, TypeOK, queue, timers, outside
<1>2. CASE RegisterExtending(d)
  <2>1. PICK p \in PendingOf(busy[d]) :
          Store([p EXCEPT !.id = offers]) /\ asleep' = asleep \ {p}
    BY <1>2 DEF RegisterExtending
  <2>2. [p EXCEPT !.id = offers] \in Offer
    BY <2>1 DEF PendingOf, TypeOK, Offer
  <2>3. pending' \subseteq Offer /\ asleep' \subseteq Offer /\ offers' \in Nat
    BY <1>2, <2>1, <2>2 DEF RegisterExtending, Store, TypeOK
  <2> QED
    BY <1>2, <2>3 DEF RegisterExtending, Registered, TypeOK, queue, goroutines, outside
<1>3. CASE RegisterClearing(d)
  <2>1. busy' \in [Driver -> Trip \union {None}] /\ wake' \in Nat
    BY <1>3 DEF RegisterClearing, ClearBusy, Outcomes, TypeOK
  <2>2. pending' \subseteq Offer /\ restoring' \subseteq Offer
    BY <1>3 DEF RegisterClearing, PendingOf, TypeOK
  <2> QED
    BY <1>3, <2>1, <2>2 DEF RegisterClearing, Registered, TypeOK, queue, outside
<1>4. CASE GoOffline(d)
  BY <1>4 DEF GoOffline, TypeOK, queue, timers, outside
<1>5. CASE deleteHash(d)
  BY <1>5 DEF deleteHash, TypeOK, queue, timers, outside
<1>6. CASE UpdateLocation(d)
  BY <1>6 DEF UpdateLocation, TypeOK, queue, timers, goroutines, outside
<1> QED
  BY <1>1, <1>2, <1>3, <1>4, <1>5, <1>6 DEF RegisterDriver

\* What the environment leaves alone.
LEMMA EnvironmentStep ==
  ASSUME TypeOK, Environment
  PROVE  /\ UNCHANGED <<redis, pending, timers, goroutines, offers, requested>>
         /\ inbox' \subseteq Message
         /\ phase' \in [Trip -> {"new", "searching", "taken", "over"}]
         /\ assignee' \in [Trip -> Driver \union {None}]
         /\ \A t \in Trip : phase'[t] = "taken" => assignee'[t] \in Driver
<1> DEFINE Kept == /\ UNCHANGED <<redis, pending, timers, goroutines, offers, requested>>
                   /\ inbox' \subseteq Message
                   /\ phase' \in [Trip -> {"new", "searching", "taken", "over"}]
                   /\ assignee' \in [Trip -> Driver \union {None}]
                   /\ \A t \in Trip : phase'[t] = "taken" => assignee'[t] \in Driver
<1>1. ASSUME NEW t \in Trip, CreateTrip(t) PROVE Kept
  BY <1>1, MessageTypes DEF CreateTrip, Send, TypeOK
<1>2. ASSUME NEW t \in Trip, TripIsCancelled(t) PROVE Kept
  BY <1>2, MessageTypes DEF TripIsCancelled, Send, TypeOK
<1>3. ASSUME NEW t \in Trip, TripCompletes(t) PROVE Kept
  <2>1. About("completed", t, assignee[t]) \in Message
    BY <1>3 DEF TripCompletes, About, Message, TypeOK
  <2> QED
    BY <1>3, <2>1 DEF TripCompletes, Send, TypeOK
<1>4. ASSUME NEW t \in Trip, NEW d \in Driver, DriverAccepts(t, d) PROVE Kept
  BY <1>4, MessageTypes DEF DriverAccepts, Send, TypeOK
<1>5. ASSUME NEW t \in Trip, NEW d \in Driver, DriverDeclines(t, d) PROVE Kept
  BY <1>5, MessageTypes DEF DriverDeclines, Send, TypeOK
<1> QED
  BY <1>1, <1>2, <1>3, <1>4, <1>5 DEF Environment

LEMMA TypeStep ==
  ASSUME TypeOK, [Next]_vars
  PROVE  TypeOK'
<1>1. ASSUME NEW w \in Worker, NEW m \in inbox, handleFindAndNotifyDrivers(w, m)
      PROVE TypeOK'
  <2>1. m.event \in Event /\ Begin(w, m.event, "kafka", {}) /\ inbox' \subseteq Message
    BY <1>1, MessageFields DEF handleFindAndNotifyDrivers, TypeOK
  <2>2. worker' \in [Worker -> {Idle} \union Matching \union Job]
    BY <2>1, BeginType
  <2> QED
    BY <1>1, <2>1, <2>2 DEF handleFindAndNotifyDrivers, TypeOK, redis, queue, timers, outside
<1>2. CASE Searches
  BY <1>1, <1>2, GoroutineType DEF Searches
<1>3. CASE Consumers
  BY <1>3, ConsumerType DEF Consumers
<1>4. CASE Calls
  BY <1>4, CallType DEF Calls
<1>5. CASE Crash
  <2>1. \A w \in Working \union Stored :
          Search(worker[w].event.trip, worker[w].event.exclude) \in Message
    <3>1. \A w \in Working \union Stored :
            worker[w].pc \in {"claimed", "none", "stored", "picked", "notified", "marked"}
      BY DEF TypeOK, Working, Stored, Idle, Matching, Job
    <3>2. \A w \in Working \union Stored : /\ worker[w].event.trip \in Trip
                                          /\ worker[w].event.exclude \subseteq Driver
      BY <3>1, WorkerKinds DEF Working, Stored
    <3> QED
      BY <3>2, MessageTypes
  <2>2. inbox' \subseteq Message
    BY <1>5, <2>1 DEF Crash, TypeOK
  <2>3. worker' \in [Worker -> {Idle} \union Matching \union Job]
    BY <1>5 DEF Crash
  <2> QED
    BY <1>5, <2>2, <2>3 DEF Crash, TypeOK, redis, queue, outside
<1>6. CASE Environment
  BY <1>6, EnvironmentStep DEF TypeOK, redis, queue, timers, goroutines
<1>7. CASE UNCHANGED vars
  BY <1>7 DEF vars, TypeOK, redis, queue, timers, goroutines, outside
<1> QED
  BY <1>2, <1>3, <1>4, <1>5, <1>6, <1>7, TimerType DEF Next

\* The variables keep their types: of a goroutine's, what its place lets it use;
\* a trip that is taken has a driver (every handler of the driver service).
THEOREM TypeCorrect == Spec => []TypeOK
<1>1. Init => TypeOK
  BY DEF Init, TypeOK
<1> QED
  BY <1>1, TypeStep, PTL DEF Spec

-----------------------------------------------------------------------------
(* Offers *)

\* What an offer that somebody holds is, and that it is numbered.
Held == pending \union restoring \union {x.taken : x \in expiring}
Numbered == \A p \in Held : p.id < offers

OfferInv == OfferIsOwnedOnce /\ Numbered

\* No offer changes hands, but one may be given up.
LEMMA OffersGivenUp ==
  ASSUME OfferInv, pending' \subseteq pending, restoring' \subseteq restoring,
         expiring' \subseteq expiring, offers' = offers
  PROVE  OfferInv'
BY DEF OfferInv, OfferIsOwnedOnce, Numbered, Held

\* A new offer takes the place of the trip's former one.
LEMMA OfferStored ==
  ASSUME TypeOK, OfferInv, NEW p \in Offer, p.id = offers, Store(p),
         offers' = offers + 1, UNCHANGED <<restoring, expiring>>
  PROVE  OfferInv'
<1>1. p \notin Held
  BY DEF OfferInv, Numbered, TypeOK
<1>2. pending' = {q \in pending : q.trip # p.trip} \union {p}
  BY DEF Store, PendingOf
<1>3. OfferIsOwnedOnce'
  BY <1>1, <1>2 DEF OfferInv, OfferIsOwnedOnce, Held
<1>4. offers < offers' /\ \A q \in Held : q.id < offers'
  <2>1. \A q \in Held : q.id \in Nat
    BY DEF Held, TypeOK, Offer
  <2> QED
    BY <2>1 DEF OfferInv, Numbered, TypeOK
<1>5. Numbered'
  BY <1>2, <1>4 DEF Numbered, Held
<1> QED
  BY <1>3, <1>5 DEF OfferInv

LEMMA OfferStep ==
  ASSUME TypeOK, OfferInv, [Next]_vars
  PROVE  OfferInv'
<1>1. ASSUME NEW w \in Worker, spawnTimer(w)
      PROVE  OfferInv'
  <2> DEFINE o == [id |-> offers, trip |-> worker[w].event.trip, driver |-> worker[w].driver,
                   exclude |-> worker[w].event.exclude]
  <2>1. o \in Offer
    BY <1>1, WorkerKinds DEF spawnTimer, TypeOK, Offer
  <2>2. /\ Store(o) /\ offers' = offers + 1 /\ UNCHANGED <<restoring, expiring>>
    BY <1>1 DEF spawnTimer
  <2> HIDE DEF o
  <2>3. o.id = offers
    BY DEF o
  <2> QED
    BY <2>1, <2>2, <2>3, OfferStored
<1>2. ASSUME NEW w \in Worker, Goroutine(w), ~spawnTimer(w)
      PROVE  OfferInv'
  <2>1. UNCHANGED <<pending, restoring, expiring, offers>>
    BY <1>2
    DEF Goroutine, startMatching, waitingClaim, TryMatchWaiting, endMatching, storeWaiting, publishNoDriversFound,
        notifyDriver, notifyFails, SetBusy, timers
  <2> QED
    BY <2>1, OffersGivenUp
<1>3. ASSUME NEW w \in Worker, NEW m \in inbox, handleFindAndNotifyDrivers(w, m)
      PROVE  OfferInv'
  BY <1>3, OffersGivenUp DEF handleFindAndNotifyDrivers, timers
<1>4. ASSUME NEW o \in asleep, fire(o)
      PROVE  OfferInv'
  BY <1>4, OffersGivenUp DEF fire
<1>5. ASSUME NEW o \in fired, takePending(o)
      PROVE  OfferInv'
  <2>1. PICK own \in SUBSET PendingOf(o.trip) :
          /\ expiring' = expiring \union {[timer |-> o, taken |-> p, pc |-> "clear"] : p \in own}
          /\ restoring' = restoring \union (PendingOf(o.trip) \ own)
          /\ pending' = pending \ PendingOf(o.trip) /\ offers' = offers
    BY <1>5 DEF takePending
  <2>2. PendingOf(o.trip) \subseteq pending
    BY DEF PendingOf
  <2>3. /\ pending' \intersect restoring' = {}
        /\ \A p, q \in pending' : p.trip = q.trip => p = q
    BY <2>1, <2>2 DEF OfferInv, OfferIsOwnedOnce
  <2>4. \A x \in expiring' : x \in expiring \/ x.taken \in own
    BY <2>1
  <2>5. \A x \in expiring' : x.taken \notin pending' \union restoring'
    BY <2>1, <2>2, <2>4 DEF OfferInv, OfferIsOwnedOnce
  <2>6. \A x, y \in expiring' : x.taken = y.taken => x = y
    BY <2>1, <2>2 DEF OfferInv, OfferIsOwnedOnce
  <2>7. Held' \subseteq Held
    BY <2>1, <2>2, <2>4 DEF Held
  <2> QED
    BY <2>1, <2>3, <2>5, <2>6, <2>7 DEF OfferInv, OfferIsOwnedOnce, Numbered
<1>6. ASSUME NEW p \in restoring, restore(p)
      PROVE  OfferInv'
  <2>1. /\ pending' = {q \in pending : q.trip # p.trip} \union {p}
        /\ restoring' = restoring \ {p} /\ UNCHANGED <<expiring, offers>>
    BY <1>6 DEF restore, Store, PendingOf
  <2>2. Held' \subseteq Held
    BY <2>1 DEF Held
  <2> QED
    BY <2>1, <2>2 DEF OfferInv, OfferIsOwnedOnce, Numbered
<1>7. ASSUME NEW x \in expiring, clearTimedOut(x)
      PROVE  OfferInv'
  <2> DEFINE y == [x EXCEPT !.pc = "retry"]
  <2>1. y.taken = x.taken
    BY DEF TypeOK
  <2>2. /\ expiring' = (expiring \ {x}) \union {y}
        /\ UNCHANGED <<pending, restoring, offers>>
    BY <1>7 DEF clearTimedOut
  <2> HIDE DEF y
  <2>3. Held' \subseteq Held
    BY <2>1, <2>2 DEF Held
  <2> QED
    BY <2>1, <2>2, <2>3 DEF OfferInv, OfferIsOwnedOnce, Numbered
<1>8. ASSUME NEW x \in expiring, publishRetry(x)
      PROVE  OfferInv'
  BY <1>8, OffersGivenUp DEF publishRetry
<1>9. CASE Consumers
  BY <1>9, OffersGivenUp
  DEF Consumers, handleDriverResponse, handleTripCancelled, handleTripCompleted,
      TakeAndCancel, timers
<1>10. ASSUME NEW d \in Driver, RegisterExtending(d)
       PROVE  OfferInv'
  <2>1. PICK p \in PendingOf(busy[d]) : Store([p EXCEPT !.id = offers])
    BY <1>10 DEF RegisterExtending
  <2> DEFINE o == [p EXCEPT !.id = offers]
  <2>2. o \in Offer /\ o.id = offers
    BY DEF PendingOf, TypeOK, Offer
  <2>3. offers' = offers + 1 /\ UNCHANGED <<restoring, expiring>>
    BY <1>10 DEF RegisterExtending
  <2> HIDE DEF o
  <2>4. Store(o)
    BY <2>1 DEF o
  <2> QED
    BY <2>2, <2>3, <2>4, OfferStored
<1>11. ASSUME NEW d \in Driver, RegisterClearing(d)
       PROVE  OfferInv'
  <2>1. /\ pending' = pending \ PendingOf(busy[d])
        /\ restoring' = restoring \union PendingOf(busy[d])
        /\ UNCHANGED <<expiring, offers>> /\ PendingOf(busy[d]) \subseteq pending
    BY <1>11 DEF RegisterClearing, PendingOf
  <2>2. Held' \subseteq Held
    BY <2>1 DEF Held
  <2> QED
    BY <2>1, <2>2 DEF OfferInv, OfferIsOwnedOnce, Numbered
<1>12. ASSUME NEW d \in Driver,
              RegisterIdle(d) \/ GoOffline(d) \/ deleteHash(d) \/ UpdateLocation(d)
       PROVE  OfferInv'
  BY <1>12, OffersGivenUp DEF RegisterIdle, GoOffline, deleteHash, UpdateLocation, timers
<1>13. CASE Crash
  BY <1>13, OffersGivenUp DEF Crash
<1>14. CASE Environment
  BY <1>14, EnvironmentStep, OffersGivenUp DEF timers
<1>15. CASE UNCHANGED vars
  BY <1>15, OffersGivenUp DEF vars, timers
<1>16. CASE Searches
  BY <1>1, <1>2, <1>3, <1>16 DEF Searches
<1>17. CASE TimerSteps
  BY <1>4, <1>5, <1>6, <1>7, <1>8, <1>17 DEF TimerSteps
<1>18. CASE Calls
  BY <1>10, <1>11, <1>12, <1>18 DEF Calls, RegisterDriver
<1> QED
  BY <1>9, <1>13, <1>14, <1>15, <1>16, <1>17, <1>18 DEF Next

LEMMA OffersNumbered == Spec => []OfferInv
<1>1. Init => OfferInv
  BY DEF Init, OfferInv, OfferIsOwnedOnce, Numbered, Held
<1>2. TypeOK /\ OfferInv /\ [Next]_vars => OfferInv'
  BY OfferStep
<1> QED
  BY <1>1, <1>2, TypeCorrect, PTL DEF Spec

\* Whatever times out, answers, reconnects or restarts: an offer is in the map,
\* being put back, or being timed out by one timer, and only one of these
\* (LoadAndDelete in startResponseTimer and ExtendTimerForDriver).
THEOREM OffersHaveOneOwner == Spec => []OfferIsOwnedOnce
<1>1. OfferInv => OfferIsOwnedOnce
  BY DEF OfferInv
<1> QED
  BY <1>1, OffersNumbered, PTL

-----------------------------------------------------------------------------
(* What speaks of a trip *)

\* A search is somewhere: with a carrier, or in an entry that was struck.
Placed(t) ==
  \/ Messages(t) # {} \/ Jobs(t) # {} \/ Entries(t) # {} \/ Offered(t) # {} \/ Endings(t) # {}

LEMMA PlacedIsCarried ==
  ASSUME NEW t
  PROVE  Placed(t) <=> Carried(t) \/ Struck(t)
BY DEF Placed, Carried, Waits, Struck

\* The goroutines that have yet to report that nobody was found.
Reports(t) == {w \in Stored : worker[w].event.trip = t}

\* What a goroutine begins or ends.
LEMMA JobsStep ==
  ASSUME TypeOK, NEW w \in Worker, NEW v, worker' = [worker EXCEPT ![w] = v], NEW t
  PROVE  /\ v.pc \in {"idle", "match", "gone", "stored"} => Jobs(t)' = Jobs(t) \ {w}
         /\ v.pc \notin {"idle", "match", "gone", "stored"} /\ v.event.trip = t
              => Jobs(t)' = Jobs(t) \union {w}
         /\ v.pc \notin {"idle", "match", "gone", "stored"} /\ v.event.trip # t
              => Jobs(t)' = Jobs(t) \ {w}
<1>1. worker'[w] = v /\ \A u \in Worker \ {w} : worker'[u] = worker[u]
  BY DEF TypeOK
<1> QED
  BY <1>1 DEF Jobs, Working

\* What Begin makes of a goroutine is a job for the event.
LEMMA BeginStep ==
  ASSUME TypeOK, NEW w \in Worker, NEW e, NEW src, NEW rest, Begin(w, e, src, rest), NEW t
  PROVE  /\ e.trip = t => Jobs(t)' = Jobs(t) \union {w}
         /\ e.trip # t => Jobs(t)' = Jobs(t) \ {w}
<1>1. PICK d : worker' = [worker EXCEPT ![w] =
                            [pc |-> IF d = None THEN "none" ELSE "picked", event |-> e,
                             driver |-> d, from |-> src, todo |-> rest]]
  BY DEF Begin
<1> DEFINE v == [pc |-> IF d = None THEN "none" ELSE "picked", event |-> e,
                 driver |-> d, from |-> src, todo |-> rest]
<1>2. v.pc \notin {"idle", "match", "gone", "stored"} /\ v.event = e
  OBVIOUS
<1>3. worker' = [worker EXCEPT ![w] = v]
  BY <1>1
<1> HIDE DEF v
<1> QED
  BY <1>2, <1>3, JobsStep

LEMMA EndJobStep ==
  ASSUME TypeOK, NEW w \in Worker, EndJob(w, FALSE), NEW t
  PROVE  Jobs(t)' = Jobs(t) \ {w} /\ inbox' = inbox
<1>1. inbox' = inbox
  BY DEF EndJob
<1>2. PICK v \in {Idle, [pc |-> "match", todo |-> worker[w].todo]} :
        worker' = [worker EXCEPT ![w] = v]
  BY DEF EndJob
<1>3. v.pc \in {"idle", "match", "gone", "stored"}
  BY DEF Idle
<1> QED
  BY <1>1, <1>2, <1>3, JobsStep

\* A goroutine that is done with a trip.
LEMMA LeavesJob ==
  ASSUME TypeOK, NEW w \in Worker, NEW again, EndJob(w, again), NEW t
  PROVE  inbox \subseteq inbox' /\ Jobs(t)' = Jobs(t) \ {w}
<1>1. PICK v \in {Idle, [pc |-> "match", todo |-> worker[w].todo]} :
        worker' = [worker EXCEPT ![w] = v]
  BY DEF EndJob
<1>2. v.pc \in {"idle", "match", "gone", "stored"}
  BY DEF Idle
<1> QED
  BY <1>1, <1>2, JobsStep DEF EndJob

\* A trip that waits is no longer a job.
LEMMA StoreStep ==
  ASSUME TypeOK, NEW w \in Worker, storeWaiting(w), NEW t
  PROVE  /\ Jobs(t)' = Jobs(t) \ {w} /\ (w \in Jobs(t) <=> worker[w].event.trip = t)
         /\ UNCHANGED <<inbox, pending, timers, requested>>
         /\ Reports(t)' # {} => Reports(t) # {} \/ Jobs(t) # {}
<1> DEFINE v == IF worker[w].from = "kafka" THEN [worker[w] EXCEPT !.pc = "stored"]
                ELSE [pc |-> "match", todo |-> worker[w].todo]
<1>1. worker' = [worker EXCEPT ![w] = v] /\ worker[w].pc = "none"
  BY DEF storeWaiting
<1>2. worker[w] \in Job
  BY <1>1, WorkerKinds
<1>3. v.pc \in {"match", "stored"} /\ (v.pc = "stored" => v.event = worker[w].event)
  BY <1>2 DEF Job
<1> HIDE DEF v
<1>4. Jobs(t)' = Jobs(t) \ {w}
  BY <1>1, <1>3, JobsStep
<1>5. w \in Jobs(t) <=> worker[w].event.trip = t
  BY <1>1 DEF Jobs, Working
<1>6. worker'[w] = v /\ \A u \in Worker \ {w} : worker'[u] = worker[u]
  BY <1>1 DEF TypeOK
<1>7. Reports(t)' # {} => Reports(t) # {} \/ Jobs(t) # {}
  BY <1>3, <1>5, <1>6 DEF Reports, Stored
<1> QED
  BY <1>4, <1>5, <1>7 DEF storeWaiting, outside

\* So is a search that has been reported.
LEMMA ReportStep ==
  ASSUME TypeOK, NEW w \in Worker, publishNoDriversFound(w), NEW t
  PROVE  /\ Jobs(t)' = Jobs(t) /\ inbox \subseteq inbox'
         /\ UNCHANGED <<redis, pending, timers, requested>>
<1>1. worker[w].pc = "stored" /\ \E again : EndJob(w, again)
  BY DEF publishNoDriversFound
<1>2. inbox \subseteq inbox' /\ Jobs(t)' = Jobs(t) \ {w}
  <2>1. PICK again : EndJob(w, again)
    BY <1>1
  <2> QED
    BY <2>1, LeavesJob
<1>3. w \notin Jobs(t)
  BY <1>1 DEF Jobs, Working
<1> QED
  BY <1>2, <1>3 DEF publishNoDriversFound, outside

\* Nobody else is to report.
LEMMA ReportsKept ==
  ASSUME TypeOK, Searches \/ TimerSteps \/ Consumers \/ Calls \/ Crash, NEW t
  PROVE  Reports(t)' # {} => Reports(t) # {} \/ Jobs(t) # {}
<1> DEFINE Kept == Reports(t)' # {} => Reports(t) # {} \/ Jobs(t) # {}
<1>1. ASSUME NEW w \in Worker, NEW v, worker' = [worker EXCEPT ![w] = v], v.pc # "stored"
      PROVE  Kept
  <2>1. worker'[w] = v /\ \A u \in Worker \ {w} : worker'[u] = worker[u]
    BY <1>1 DEF TypeOK
  <2> QED
    BY <1>1, <2>1 DEF Reports, Stored
<1>2. ASSUME NEW w \in Worker, NEW e, NEW src, NEW rest, Begin(w, e, src, rest) PROVE Kept
  <2>1. PICK d : worker' = [worker EXCEPT ![w] =
                              [pc |-> IF d = None THEN "none" ELSE "picked", event |-> e,
                               driver |-> d, from |-> src, todo |-> rest]]
    BY <1>2 DEF Begin
  <2> DEFINE v == [pc |-> IF d = None THEN "none" ELSE "picked", event |-> e,
                   driver |-> d, from |-> src, todo |-> rest]
  <2>2. v.pc # "stored" /\ worker' = [worker EXCEPT ![w] = v]
    BY <2>1
  <2> HIDE DEF v
  <2> QED
    BY <1>1, <2>2
<1>3. ASSUME NEW w \in Worker, NEW again, EndJob(w, again) PROVE Kept
  <2>1. PICK v \in {Idle, [pc |-> "match", todo |-> worker[w].todo]} :
          worker' = [worker EXCEPT ![w] = v]
    BY <1>3 DEF EndJob
  <2>2. v.pc # "stored"
    BY DEF Idle
  <2> QED
    BY <1>1, <2>1, <2>2
<1>4. ASSUME NEW w \in Worker, Goroutine(w) PROVE Kept
  <2>1. CASE startMatching(w)
    <3> DEFINE v == [pc |-> "match", todo |-> listed]
    <3>1. worker' = [worker EXCEPT ![w] = v] /\ v.pc = "match"
      BY <2>1 DEF startMatching
    <3> HIDE DEF v
    <3> QED
      BY <1>1, <3>1
  <2>2. CASE waitingClaim(w)
    <3>1. \/ \E e \in waiting :
               worker' = [worker EXCEPT ![w] = [pc |-> "claimed", event |-> e, driver |-> None,
                                                from |-> "waiting",
                                                todo |-> worker[w].todo \ {e.trip}]]
          \/ \E u : worker' = [worker EXCEPT ![w] = [pc |-> "gone", trip |-> u,
                                                     todo |-> worker[w].todo \ {u}]]
      BY <2>2 DEF waitingClaim, Claimed
    <3>2. ASSUME NEW e,
                 worker' = [worker EXCEPT ![w] = [pc |-> "claimed", event |-> e, driver |-> None,
                                                  from |-> "waiting",
                                                  todo |-> worker[w].todo \ {e.trip}]]
          PROVE  Kept
      <4> DEFINE v == [pc |-> "claimed", event |-> e, driver |-> None, from |-> "waiting",
                       todo |-> worker[w].todo \ {e.trip}]
      <4>1. worker' = [worker EXCEPT ![w] = v] /\ v.pc = "claimed"
        BY <3>2
      <4> HIDE DEF v
      <4> QED
        BY <1>1, <4>1
    <3>3. ASSUME NEW u, worker' = [worker EXCEPT ![w] = [pc |-> "gone", trip |-> u,
                                                          todo |-> worker[w].todo \ {u}]]
          PROVE  Kept
      <4> DEFINE v == [pc |-> "gone", trip |-> u, todo |-> worker[w].todo \ {u}]
      <4>1. worker' = [worker EXCEPT ![w] = v] /\ v.pc = "gone"
        BY <3>3
      <4> HIDE DEF v
      <4> QED
        BY <1>1, <4>1
    <3> QED
      BY <3>1, <3>2, <3>3
  <2>3. CASE TryMatchWaiting(w)
    <3>1. \/ Begin(w, worker[w].event, "waiting", worker[w].todo)
          \/ worker' = [worker EXCEPT ![w] = [pc |-> "match", todo |-> worker[w].todo]]
      BY <2>3 DEF TryMatchWaiting
    <3>2. CASE worker' = [worker EXCEPT ![w] = [pc |-> "match", todo |-> worker[w].todo]]
      <4> DEFINE v == [pc |-> "match", todo |-> worker[w].todo]
      <4>1. worker' = [worker EXCEPT ![w] = v] /\ v.pc = "match"
        BY <3>2
      <4> HIDE DEF v
      <4> QED
        BY <1>1, <4>1
    <3> QED
      BY <1>2, <3>1, <3>2
  <2>4. CASE endMatching(w)
    <3>1. worker' = [worker EXCEPT ![w] = Idle] /\ Idle.pc # "stored"
      BY <2>4 DEF endMatching, Idle
    <3> QED
      BY <1>1, <3>1
  <2>5. CASE storeWaiting(w)
    BY <2>5, StoreStep
  <2>6. CASE publishNoDriversFound(w) \/ notifyFails(w) \/ spawnTimer(w)
    <3>1. \E again : EndJob(w, again)
      BY <2>6 DEF publishNoDriversFound, notifyFails, spawnTimer
    <3> QED
      BY <1>3, <3>1
  <2>7. CASE notifyDriver(w) \/ SetBusy(w)
    <3>1. PICK place \in {"notified", "marked"} : worker' = [worker EXCEPT ![w].pc = place]
      BY <2>7 DEF notifyDriver, SetBusy
    <3>2. worker[w] \in Job
      BY <2>7, WorkerKinds DEF notifyDriver, SetBusy
    <3> DEFINE v == [worker[w] EXCEPT !.pc = place]
    <3>3. worker' = [worker EXCEPT ![w] = v] /\ v.pc = place
      BY <3>1, <3>2 DEF Job
    <3> HIDE DEF v
    <3> QED
      BY <1>1, <3>3
  <2> QED
    BY <1>4, <2>1, <2>2, <2>3, <2>4, <2>5, <2>6, <2>7 DEF Goroutine
<1>5. CASE Searches
  BY <1>2, <1>4, <1>5 DEF Searches, handleFindAndNotifyDrivers
<1>6. CASE TimerSteps \/ Consumers \/ Calls
  <2>1. worker' = worker
    BY <1>6
    DEF TimerSteps, fire, takePending, restore, clearTimedOut, publishRetry,
        Consumers, handleDriverResponse, handleTripCancelled, handleTripCompleted,
        Calls, RegisterDriver, RegisterIdle, RegisterExtending, RegisterClearing,
        GoOffline, deleteHash, UpdateLocation, goroutines
  <2> QED
    BY <2>1 DEF Reports, Stored
<1>7. CASE Crash
  BY <1>7 DEF Crash, Reports, Stored, Idle
<1> QED
  BY <1>5, <1>6, <1>7

\* A goroutine that moves on to its next call.
LEMMA GoroutineMoves ==
  ASSUME TypeOK, NEW w \in Worker, NEW t \in Trip,
         startMatching(w) \/ TryMatchWaiting(w) \/ endMatching(w) \/ notifyDriver(w) \/ SetBusy(w)
  PROVE  /\ Messages(t)' = Messages(t) /\ Jobs(t)' = Jobs(t) /\ Entries(t)' = Entries(t)
         /\ Offered(t)' = Offered(t) /\ Endings(t)' = Endings(t)
<1>1. /\ Messages(t)' = Messages(t) /\ Entries(t)' = Entries(t)
      /\ Offered(t)' = Offered(t) /\ Endings(t)' = Endings(t)
  BY DEF startMatching, TryMatchWaiting, endMatching, notifyDriver, SetBusy, redis, queue, timers,
         Messages, Entries, Offered, Endings
<1>2. Jobs(t)' = Jobs(t)
  <2>1. ASSUME NEW v, worker' = [worker EXCEPT ![w] = v], v.pc \in {"idle", "match", "gone", "stored"},
               worker[w].pc \in {"idle", "match", "gone", "stored"}
        PROVE  Jobs(t)' = Jobs(t)
    <3>1. Jobs(t)' = Jobs(t) \ {w} /\ w \notin Jobs(t)
      BY <2>1, JobsStep DEF Jobs, Working
    <3> QED
      BY <3>1
  <2>2. CASE startMatching(w)
    <3> DEFINE v == [pc |-> "match", todo |-> listed]
    <3>1. worker' = [worker EXCEPT ![w] = v] /\ v.pc = "match" /\ worker[w].pc = "idle"
      BY <2>2 DEF startMatching
    <3> HIDE DEF v
    <3> QED
      BY <2>1, <3>1
  <2>3. CASE endMatching(w)
    <3>1. worker' = [worker EXCEPT ![w] = Idle] /\ Idle.pc = "idle" /\ worker[w].pc = "match"
      BY <2>3 DEF endMatching, Idle
    <3> QED
      BY <2>1, <3>1
  <2>4. CASE TryMatchWaiting(w)
    <3>1. CASE worker[w].pc = "claimed"
      <4>1. Begin(w, worker[w].event, "waiting", worker[w].todo)
        BY <2>4, <3>1 DEF TryMatchWaiting
      <4>2. w \in Jobs(t) <=> worker[w].event.trip = t
        BY <3>1 DEF Jobs, Working
      <4>3. /\ worker[w].event.trip = t => Jobs(t)' = Jobs(t) \union {w}
            /\ worker[w].event.trip # t => Jobs(t)' = Jobs(t) \ {w}
        BY <4>1, BeginStep
      <4> QED
        BY <4>2, <4>3
    <3>2. CASE worker[w].pc = "gone"
      <4> DEFINE v == [pc |-> "match", todo |-> worker[w].todo]
      <4>1. worker' = [worker EXCEPT ![w] = v] /\ v.pc = "match"
        BY <2>4, <3>2 DEF TryMatchWaiting
      <4> HIDE DEF v
      <4> QED
        BY <2>1, <3>2, <4>1
    <3> QED
      BY <2>4, <3>1, <3>2 DEF TryMatchWaiting
  <2>5. CASE notifyDriver(w) \/ SetBusy(w)
    <3>1. PICK place \in {"notified", "marked"} :
            worker' = [worker EXCEPT ![w].pc = place]
      BY <2>5 DEF notifyDriver, SetBusy
    <3>2. worker[w].pc \in {"picked", "notified"}
      BY <2>5 DEF notifyDriver, SetBusy
    <3> DEFINE v == [worker[w] EXCEPT !.pc = place]
    <3>3. worker[w] \in Job
      BY <3>2, WorkerKinds
    <3>4. worker' = [worker EXCEPT ![w] = v] /\ v.pc = place /\ v.event = worker[w].event
      BY <3>1, <3>3 DEF Job
    <3>5. w \in Jobs(t) <=> worker[w].event.trip = t
      BY <3>2 DEF Jobs, Working
    <3> HIDE DEF v
    <3>6. /\ worker[w].event.trip = t => Jobs(t)' = Jobs(t) \union {w}
          /\ worker[w].event.trip # t => Jobs(t)' = Jobs(t) \ {w}
      <4>1. v.pc \notin {"idle", "match", "gone", "stored"} /\ v.event.trip = worker[w].event.trip
        BY <3>4
      <4>2. worker' = [worker EXCEPT ![w] = v]
        BY <3>4
      <4>3. /\ v.event.trip = t => Jobs(t)' = Jobs(t) \union {w}
            /\ v.event.trip # t => Jobs(t)' = Jobs(t) \ {w}
        BY <4>1, <4>2, JobsStep
      <4> QED
        BY <4>1, <4>3
    <3> QED
      BY <3>5, <3>6
  <2> QED
    BY <2>2, <2>3, <2>4, <2>5
<1> QED
  BY <1>1, <1>2

\* A waiting trip becomes a job, or stays what it is.
LEMMA ClaimStep ==
  ASSUME TypeOK, NEW w \in Worker, waitingClaim(w), NEW t
  PROVE  \/ \E e \in Entries(t) : /\ Entries(t)' = Entries(t) \ {e}
                                  /\ Jobs(t)' = Jobs(t) \union {w}
                                  /\ w \notin Jobs(t)
         \/ /\ Jobs(t)' = Jobs(t) /\ Entries(t)' \subseteq Entries(t)
            /\ "redis" \notin Disturbances => Entries(t)' = Entries(t)
<1>1. w \notin Jobs(t)
  BY DEF waitingClaim, Jobs, Working
<1>2. ASSUME NEW e \in waiting, waiting' = waiting \ {e}, Claimed(w, e)
      PROVE  /\ Entries(t)' = Entries(t) \ {e}
             /\ e.trip = t => Jobs(t)' = Jobs(t) \union {w} /\ e \in Entries(t)
             /\ e.trip # t => Jobs(t)' = Jobs(t) \ {w} /\ e \notin Entries(t)
  <2> DEFINE v == [pc |-> "claimed", event |-> e, driver |-> None,
                   from |-> "waiting", todo |-> worker[w].todo \ {e.trip}]
  <2>1. worker' = [worker EXCEPT ![w] = v] /\ v.pc = "claimed" /\ v.event = e
    BY <1>2 DEF Claimed
  <2> HIDE DEF v
  <2>2. v.pc \notin {"idle", "match", "gone", "stored"} /\ v.event.trip = e.trip
    BY <2>1
  <2>3. /\ e.trip = t => Jobs(t)' = Jobs(t) \union {w}
        /\ e.trip # t => Jobs(t)' = Jobs(t) \ {w}
    BY <2>1, <2>2, JobsStep
  <2> QED
    BY <1>2, <2>3 DEF Entries
<1>3. ASSUME NEW u,
             worker' = [worker EXCEPT ![w] = [pc |-> "gone", trip |-> u,
                                              todo |-> worker[w].todo \ {u}]]
      PROVE  Jobs(t)' = Jobs(t) \ {w}
  <2> DEFINE v == [pc |-> "gone", trip |-> u, todo |-> worker[w].todo \ {u}]
  <2>1. worker' = [worker EXCEPT ![w] = v] /\ v.pc = "gone"
    BY <1>3
  <2> HIDE DEF v
  <2> QED
    BY <1>3, <2>1, JobsStep
<1>4. Jobs(t) \ {w} = Jobs(t)
  BY <1>1
<1> DEFINE Gone == /\ waiting' \subseteq waiting
                   /\ "redis" \notin Disturbances => waiting' = waiting
                   /\ \E u : worker' = [worker EXCEPT ![w] = [pc |-> "gone", trip |-> u,
                                                             todo |-> worker[w].todo \ {u}]]
<1>5. (\E e \in waiting : waiting' = waiting \ {e} /\ Claimed(w, e)) \/ Gone
  BY DEF waitingClaim, Outcomes
<1>6. CASE \E e \in waiting : waiting' = waiting \ {e} /\ Claimed(w, e)
  <2>1. PICK e \in waiting : waiting' = waiting \ {e} /\ Claimed(w, e)
    BY <1>6
  <2>2. CASE e.trip = t
    BY <1>1, <1>2, <2>1, <2>2
  <2>3. CASE e.trip # t
    <3>1. Jobs(t)' = Jobs(t) /\ Entries(t)' = Entries(t)
      BY <1>2, <1>4, <2>1, <2>3
    <3> QED
      BY <3>1
  <2> QED
    BY <2>2, <2>3
<1>7. CASE Gone
  BY <1>3, <1>4, <1>7 DEF Entries
<1> QED
  BY <1>5, <1>6, <1>7

\* The answers, cancellations and completions on their way, and whatever else
\* names a trip.
Answered(t) == {m \in inbox : m.kind # "search" /\ m.trip = t}
Named(t) ==
  \/ Placed(t) \/ Reports(t) # {} \/ Answered(t) # {}
  \/ \E o \in asleep \union fired : o.trip = t
  \/ \E d \in Driver : <<t, d>> \in requested

\* Only trips that were created are spoken of, and whoever ends a search has told
\* the trip service before.
CreatedInv ==
  \A t \in Trip :
    /\ phase[t] = "new" => ~Named(t)
    /\ phase[t] = "searching" =>
         \A m \in Answered(t) : m.kind = "decline" /\ "decline" \in Disturbances

\* A step that speaks of no other trips.
LEMMA NothingNew ==
  ASSUME CreatedInv, phase' = phase,
         \A t \in Trip : (Named(t)' => Named(t)) /\ Answered(t)' \subseteq Answered(t)
  PROVE  CreatedInv'
BY DEF CreatedInv

\* Only the trip service and its users change a trip.
LEMMA PhaseKept ==
  ASSUME Searches \/ TimerSteps \/ Consumers \/ Calls \/ Crash
  PROVE  phase' = phase
BY DEF Searches, Goroutine, handleFindAndNotifyDrivers, startMatching, waitingClaim,
       TryMatchWaiting, endMatching, storeWaiting, publishNoDriversFound, notifyDriver, notifyFails, SetBusy,
       spawnTimer, TimerSteps, fire, takePending, restore, clearTimedOut, publishRetry,
       Consumers, handleDriverResponse, handleTripCancelled, handleTripCompleted,
       Calls, RegisterDriver, RegisterIdle, RegisterExtending, RegisterClearing, GoOffline,
       deleteHash, UpdateLocation, Crash, outside

\* What is tried again is a goroutine's own trip.
LEMMA AgainNames ==
  ASSUME TypeOK, NEW w \in Working \union Stored, NEW again, EndJob(w, again), NEW t
  PROVE  /\ Answered(t)' = Answered(t) /\ Jobs(t)' \subseteq Jobs(t)
         /\ Messages(t)' # {} => Messages(t) # {} \/ Jobs(t) # {} \/ Reports(t) # {}
<1> DEFINE m == Search(worker[w].event.trip, worker[w].event.exclude)
<1>1. m.kind = "search" /\ m.event.trip = worker[w].event.trip
  BY DEF Search
<1>2. inbox' = inbox \/ inbox' = inbox \union {m}
  BY DEF EndJob
<1> HIDE DEF m
<1>3. Jobs(t)' = Jobs(t) \ {w}
  BY LeavesJob DEF Working, Stored
<1>4. Answered(t)' = Answered(t)
  BY <1>1, <1>2 DEF Answered
<1>5. Messages(t)' # {} => Messages(t) # {} \/ Jobs(t) # {} \/ Reports(t) # {}
  BY <1>1, <1>2 DEF Messages, Jobs, Reports
<1> QED
  BY <1>3, <1>4, <1>5

LEMMA SearchNames ==
  ASSUME TypeOK, Searches, NEW t \in Trip
  PROVE  (Named(t)' => Named(t)) /\ Answered(t)' \subseteq Answered(t)
<1> DEFINE Kept == (Named(t)' => Named(t)) /\ Answered(t)' \subseteq Answered(t)
<1>0. Reports(t)' # {} => Reports(t) # {} \/ Jobs(t) # {}
  BY ReportsKept
<1> USE <1>0
<1>1. ASSUME NEW w \in Worker, NEW m \in inbox, handleFindAndNotifyDrivers(w, m)
      PROVE  Kept
  <2>1. /\ m.kind = "search" /\ inbox' = inbox \ {m} /\ Begin(w, m.event, "kafka", {})
        /\ UNCHANGED <<waiting, pending, timers, requested>>
    BY <1>1 DEF handleFindAndNotifyDrivers, redis, queue, outside
  <2>2. Jobs(t)' # {} => Jobs(t) # {} \/ Messages(t) # {}
    BY <2>1, BeginStep DEF Messages
  <2> QED
    BY <2>1, <2>2 DEF Named, Placed, Answered, Messages, Entries, Offered, Endings, timers
<1>2. ASSUME NEW w \in Worker,
             \/ startMatching(w) \/ TryMatchWaiting(w) \/ endMatching(w)
             \/ notifyDriver(w) \/ SetBusy(w)
      PROVE  Kept
  <2>1. /\ inbox' = inbox /\ timers' = timers
        /\ requested' # requested =>
             /\ worker[w].pc = "picked"
             /\ requested' = requested \union {<<worker[w].event.trip, worker[w].driver>>}
    BY <1>2 DEF startMatching, TryMatchWaiting, endMatching, notifyDriver, SetBusy, outside
  <2>2. \A d : <<t, d>> \in requested' => <<t, d>> \in requested \/ Jobs(t) # {}
    BY <2>1 DEF Jobs, Working
  <2> QED
    BY <1>2, <2>1, <2>2, GoroutineMoves DEF Named, Placed, Answered, timers
<1>3. ASSUME NEW w \in Worker, waitingClaim(w) PROVE Kept
  <2>1. UNCHANGED <<inbox, pending, timers, requested>> /\ waiting' \subseteq waiting
    BY <1>3 DEF waitingClaim, Outcomes, outside
  <2>2. Jobs(t)' # {} => Jobs(t) # {} \/ Entries(t) # {}
    BY <1>3, ClaimStep
  <2> QED
    BY <2>1, <2>2 DEF Named, Placed, Answered, Messages, Entries, Offered, Endings, timers
<1>4. ASSUME NEW w \in Worker, notifyFails(w) PROVE Kept
  <2>1. /\ w \in Working /\ UNCHANGED <<pending, timers, requested>>
        /\ \E again : EndJob(w, again)
        /\ waiting' \subseteq waiting \union {worker[w].event}
    BY <1>4 DEF notifyFails, waitingStore, Outcomes, Working, queue, outside
  <2>2. Entries(t)' # {} => Entries(t) # {} \/ Jobs(t) # {}
    BY <2>1 DEF Entries, Jobs
  <2> QED
    BY <2>1, <2>2, AgainNames DEF Named, Placed, Offered, Endings, timers
<1>6. ASSUME NEW w \in Worker, storeWaiting(w) PROVE Kept
  <2>1. waiting' \subseteq waiting \union {worker[w].event}
    BY <1>6 DEF storeWaiting, waitingStore, Outcomes
  <2>2. Jobs(t)' = Jobs(t) \ {w} /\ (w \in Jobs(t) <=> worker[w].event.trip = t)
    BY <1>6, StoreStep
  <2>3. Entries(t)' # {} => Entries(t) # {} \/ Jobs(t) # {}
    BY <2>1, <2>2 DEF Entries
  <2>4. UNCHANGED <<inbox, pending, timers, requested>>
    BY <1>6, StoreStep
  <2> QED
    BY <2>2, <2>3, <2>4 DEF Named, Placed, Messages, Answered, Offered, Endings, timers
<1>7. ASSUME NEW w \in Worker, publishNoDriversFound(w) PROVE Kept
  <2>1. w \in Stored /\ \E again : EndJob(w, again)
    BY <1>7 DEF publishNoDriversFound, Stored
  <2>2. UNCHANGED <<waiting, pending, timers, requested>>
    BY <1>7, ReportStep DEF redis, queue
  <2> QED
    BY <2>1, <2>2, AgainNames DEF Named, Placed, Entries, Offered, Endings, timers
<1>5. ASSUME NEW w \in Worker, spawnTimer(w) PROVE Kept
  <2> DEFINE o == [id |-> offers, trip |-> worker[w].event.trip, driver |-> worker[w].driver,
                   exclude |-> worker[w].event.exclude]
  <2>1. /\ w \in Working /\ UNCHANGED <<waiting, fired, restoring, expiring, requested>>
        /\ \E again : EndJob(w, again)
        /\ Store(o) /\ asleep' = asleep \union {o} /\ o.trip = worker[w].event.trip
    BY <1>5 DEF spawnTimer, Working, redis, queue, outside
  <2> HIDE DEF o
  <2>2. /\ Offered(t)' # {} => Offered(t) # {} \/ Jobs(t) # {}
        /\ \A p \in asleep' : p.trip = t => p \in asleep \/ Jobs(t) # {}
    BY <2>1 DEF Store, Offered, Jobs
  <2> QED
    BY <2>1, <2>2, AgainNames DEF Named, Placed, Entries, Endings
<1> QED
  BY <1>1, <1>2, <1>3, <1>4, <1>5, <1>6, <1>7 DEF Searches, Goroutine

LEMMA TimerNames ==
  ASSUME TypeOK, TimerSteps, NEW t \in Trip
  PROVE  (Named(t)' => Named(t)) /\ Answered(t)' \subseteq Answered(t)
<1> DEFINE Kept == (Named(t)' => Named(t)) /\ Answered(t)' \subseteq Answered(t)
<1>0. UNCHANGED <<waiting, worker, requested>>
  BY DEF TimerSteps, fire, takePending, restore, clearTimedOut, publishRetry, redis, queue,
         goroutines, outside
<1> USE <1>0 DEF Named, Placed, Reports, Stored, Answered, Messages, Jobs, Working, Entries, Offered, Endings,
           PendingOf
<1>1. ASSUME NEW o \in asleep, fire(o) PROVE Kept
  BY <1>1 DEF fire
<1>2. ASSUME NEW o \in fired, takePending(o) PROVE Kept
  BY <1>2 DEF takePending
<1>3. ASSUME NEW p \in restoring, restore(p) PROVE Kept
  BY <1>3 DEF restore, Store
<1>4. ASSUME NEW x \in expiring, clearTimedOut(x) PROVE Kept
  <2>1. [x EXCEPT !.pc = "retry"].timer = x.timer
    BY DEF TypeOK
  <2> QED
    BY <1>4, <2>1 DEF clearTimedOut
<1>5. ASSUME NEW x \in expiring, publishRetry(x) PROVE Kept
  <2> DEFINE m == Search(x.timer.trip, x.timer.exclude \union {x.timer.driver})
  <2>1. m.kind = "search" /\ m.event.trip = x.timer.trip
    BY DEF Search
  <2>2. /\ inbox' \subseteq inbox \union {m} /\ expiring' \subseteq expiring
        /\ asleep' \subseteq asleep /\ UNCHANGED <<pending, fired, restoring>>
    BY <1>5 DEF publishRetry
  <2> HIDE DEF m
  <2> QED
    BY <2>1, <2>2
<1> QED
  BY <1>1, <1>2, <1>3, <1>4, <1>5 DEF TimerSteps

LEMMA OtherNames ==
  ASSUME TypeOK, Consumers \/ Calls \/ Crash, NEW t \in Trip
  PROVE  (Named(t)' => Named(t)) /\ Answered(t)' \subseteq Answered(t)
<1> DEFINE Kept == (Named(t)' => Named(t)) /\ Answered(t)' \subseteq Answered(t)
<1> USE DEF Named, Placed, Reports, Stored, Answered, Messages, Jobs, Working, Entries, Offered, Endings,
           PendingOf
<1>1. CASE Consumers
  <2>1. /\ inbox' \subseteq inbox /\ waiting' \subseteq waiting
        /\ pending' \subseteq pending /\ asleep' \subseteq asleep
        /\ UNCHANGED <<fired, restoring, expiring, worker, requested>>
    BY <1>1
    DEF Consumers, handleDriverResponse, handleTripCancelled, handleTripCompleted, Committed,
        TakeAndCancel, waitingDelete, Outcomes, queue, timers, goroutines, outside
  <2> QED
    BY <2>1
<1>2. ASSUME NEW d \in Driver, RegisterExtending(d) PROVE Kept
  <2>1. PICK p \in PendingOf(busy[d]) :
          Store([p EXCEPT !.id = offers]) /\ asleep' = asleep \ {p}
    BY <1>2 DEF RegisterExtending
  <2> DEFINE o == [p EXCEPT !.id = offers]
  <2>2. o.trip = p.trip
    BY DEF TypeOK, Offer
  <2>3. UNCHANGED <<inbox, waiting, worker, fired, restoring, expiring, requested>>
    BY <1>2 DEF RegisterExtending, queue, goroutines, outside
  <2> HIDE DEF o
  <2>4. pending' \subseteq pending \union {o}
    BY <2>1 DEF Store, o
  <2> QED
    BY <2>1, <2>2, <2>3, <2>4
<1>3. ASSUME NEW d \in Driver, RegisterClearing(d) PROVE Kept
  BY <1>3 DEF RegisterClearing, queue, outside
<1>4. ASSUME NEW d \in Driver,
             RegisterIdle(d) \/ GoOffline(d) \/ deleteHash(d) \/ UpdateLocation(d)
      PROVE  Kept
  BY <1>4 DEF RegisterIdle, GoOffline, deleteHash, UpdateLocation, queue, timers, goroutines, outside
<1>5. CASE Crash
  <2>1. UNCHANGED <<waiting, requested>>
    BY <1>5 DEF Crash, redis, queue, outside
  <2>2. ASSUME NEW m \in inbox' \ inbox
        PROVE  /\ m.kind = "search"
               /\ \E w \in Working \union Stored : m.event.trip = worker[w].event.trip
    BY <1>5, <2>2 DEF Crash, Search
  <2> QED
    BY <1>5, <2>1, <2>2 DEF Crash, Idle
<1> QED
  BY <1>1, <1>2, <1>3, <1>4, <1>5 DEF Calls, RegisterDriver

LEMMA CreatedEnvironment ==
  ASSUME TypeOK, CreatedInv, Environment
  PROVE  CreatedInv'
<1>1. UNCHANGED <<waiting, pending, timers, worker, requested>>
  BY EnvironmentStep DEF redis, queue, goroutines
<1>2. ASSUME NEW t PROVE Named(t)' => Named(t) \/ Messages(t)' # {} \/ Answered(t)' # {}
  BY <1>1 DEF Named, Placed, Reports, Stored, Jobs, Working, Entries, Offered, Endings, timers
<1>3. ASSUME NEW u \in Trip, CreateTrip(u) PROVE CreatedInv'
  <2>1. /\ \A t \in Trip : Answered(t)' = Answered(t)
        /\ \A t \in Trip \ {u} : Messages(t)' = Messages(t)
    BY <1>3 DEF CreateTrip, Send, Search, Answered, Messages
  <2>2. Answered(u) = {}
    BY <1>3 DEF CreateTrip, CreatedInv, Named
  <2>3. /\ \A t \in Trip \ {u} : phase'[t] = phase[t]
        /\ phase'[u] = "searching"
    BY <1>3 DEF CreateTrip, TypeOK
  <2> QED
    BY <1>2, <2>1, <2>2, <2>3 DEF CreatedInv, Named, Placed
<1>4. ASSUME NEW u \in Trip, NEW m, m.kind \in {"accept", "decline", "cancelled", "completed"},
             m.trip = u, phase[u] # "new", phase'[u] # "new",
             phase'[u] = "searching" => m.kind = "decline" /\ "decline" \in Disturbances,
             phase'[u] = "searching" => phase[u] = "searching",
             \A t \in Trip \ {u} : phase'[t] = phase[t],
             \A n \in inbox' : n \in inbox \/ n = m \/ (n.kind = "search" /\ n.event.trip = u)
      PROVE  CreatedInv'
  <2>1. ASSUME NEW t \in Trip, t # u
        PROVE  Answered(t)' \subseteq Answered(t) /\ Messages(t)' \subseteq Messages(t)
    BY <1>4, <2>1 DEF Answered, Messages
  <2>2. Answered(u)' \subseteq Answered(u) \union {m}
    BY <1>4 DEF Answered
  <2>3. ASSUME NEW t \in Trip, t # u, phase[t] = "new" PROVE ~Named(t)'
    BY <1>2, <2>1, <2>3 DEF CreatedInv, Named, Placed
  <2>4. ASSUME NEW t \in Trip, phase'[t] = "searching", NEW n \in Answered(t)'
        PROVE  n.kind = "decline" /\ "decline" \in Disturbances
    BY <1>4, <2>1, <2>2, <2>4 DEF CreatedInv
  <2> QED
    BY <1>4, <2>3, <2>4 DEF CreatedInv
<1>5. ASSUME NEW u \in Trip, NEW d \in Driver, Answers(u, d) PROVE phase[u] # "new"
  BY <1>5 DEF Answers, InTime, CreatedInv, Named
<1>6. ASSUME NEW u \in Trip, NEW d \in Driver, DriverAccepts(u, d) PROVE CreatedInv'
  <2> DEFINE m == About("accept", u, d)
  <2>1. m.kind = "accept" /\ m.trip = u
    BY DEF About
  <2>2. inbox' = inbox \union {m} /\ phase[u] # "new"
    BY <1>5, <1>6 DEF DriverAccepts, Send
  <2>3. /\ phase'[u] \notin {"new", "searching"}
        /\ \A t \in Trip \ {u} : phase'[t] = phase[t]
    BY <1>6, <2>2 DEF DriverAccepts, TypeOK
  <2> HIDE DEF m
  <2> QED
    BY <1>4, <2>1, <2>2, <2>3
<1>7. ASSUME NEW u \in Trip, NEW d \in Driver, DriverDeclines(u, d) PROVE CreatedInv'
  <2>1. /\ phase' = phase /\ phase[u] # "new" /\ "decline" \in Disturbances
        /\ inbox' = inbox \union {About("decline", u, d), Search(u, {d})}
    BY <1>5, <1>7 DEF DriverDeclines, Send
  <2> DEFINE m == About("decline", u, d)
             n == Search(u, {d})
  <2>2. m.kind = "decline" /\ m.trip = u /\ n.kind = "search" /\ n.event.trip = u
    BY DEF About, Search
  <2>3. inbox' = inbox \union {m, n}
    BY <2>1
  <2> HIDE DEF m, n
  <2> QED
    BY <1>4, <2>1, <2>2, <2>3
<1>8. ASSUME NEW u \in Trip, TripIsCancelled(u) PROVE CreatedInv'
  <2>1. PICK d : inbox' = inbox \union {About("cancelled", u, d)}
    BY <1>8 DEF TripIsCancelled, Send
  <2> DEFINE m == About("cancelled", u, d)
  <2>2. m.kind = "cancelled" /\ m.trip = u /\ inbox' = inbox \union {m}
    BY <2>1 DEF About
  <2>3. /\ phase[u] # "new" /\ phase'[u] \notin {"new", "searching"}
        /\ \A t \in Trip \ {u} : phase'[t] = phase[t]
    BY <1>8 DEF TripIsCancelled, TypeOK
  <2> HIDE DEF m
  <2> QED
    BY <1>4, <2>2, <2>3
<1>9. ASSUME NEW u \in Trip, TripCompletes(u) PROVE CreatedInv'
  <2> DEFINE m == About("completed", u, assignee[u])
  <2>1. m.kind = "completed" /\ m.trip = u /\ inbox' = inbox \union {m}
    BY <1>9 DEF TripCompletes, Send, About
  <2>2. /\ phase[u] # "new" /\ phase'[u] \notin {"new", "searching"}
        /\ \A t \in Trip \ {u} : phase'[t] = phase[t]
    BY <1>9 DEF TripCompletes, TypeOK
  <2> HIDE DEF m
  <2> QED
    BY <1>4, <2>1, <2>2
<1> QED
  BY <1>3, <1>6, <1>7, <1>8, <1>9 DEF Environment

\* Whatever disturbs the drivers.
LEMMA CreatedHolds == Spec => []CreatedInv
<1>1. Init => CreatedInv
  BY DEF Init, CreatedInv, Named, Reports, Stored, Answered, Placed, Messages, Jobs, Working, Entries,
         Offered, Endings, Idle
<1>2. ASSUME TypeOK, CreatedInv, [Next]_vars PROVE CreatedInv'
  <2>1. CASE Searches \/ TimerSteps \/ Consumers \/ Calls \/ Crash
    <3>1. phase' = phase
      BY <2>1, PhaseKept
    <3>2. ASSUME NEW t \in Trip
          PROVE  (Named(t)' => Named(t)) /\ Answered(t)' \subseteq Answered(t)
      <4>1. CASE Searches
        BY <1>2, <4>1, SearchNames
      <4>2. CASE TimerSteps
        BY <1>2, <4>2, TimerNames
      <4>3. CASE Consumers \/ Calls \/ Crash
        BY <1>2, <4>3, OtherNames
      <4> QED
        BY <2>1, <4>1, <4>2, <4>3
    <3> QED
      BY <1>2, <3>1, <3>2, NothingNew
  <2>2. CASE UNCHANGED vars
    <3>1. UNCHANGED <<inbox, waiting, pending, asleep, fired, restoring, expiring, worker,
                      requested, phase>>
      BY <2>2 DEF vars, redis, queue, timers, goroutines, outside
    <3>2. ASSUME NEW t PROVE (Named(t)' => Named(t)) /\ Answered(t)' = Answered(t)
      BY <3>1 DEF Named, Reports, Stored, Answered, Placed, Messages, Jobs, Working, Entries, Offered,
                  Endings
    <3> QED
      BY <1>2, <3>1, <3>2, NothingNew
  <2> QED
    BY <1>2, <2>1, <2>2, CreatedEnvironment DEF Next
<1> QED
  BY <1>1, <1>2, TypeCorrect, PTL DEF Spec

-----------------------------------------------------------------------------
(* A search stays in a place, as long as nothing is lost and nobody declines *)

NothingLost == Disturbances \intersect {"decline", "broker", "redis", "crash"} = {}

LEMMA SearchKeeps ==
  ASSUME TypeOK, NothingLost, Searches, NEW t \in Trip, Placed(t)
  PROVE  Placed(t)'
<1>1. restoring' = restoring
  BY DEF Searches, Goroutine, handleFindAndNotifyDrivers, startMatching, waitingClaim,
         TryMatchWaiting, endMatching, storeWaiting, publishNoDriversFound, notifyDriver, notifyFails, SetBusy,
         spawnTimer, timers
<1>2. ASSUME NEW w \in Worker, NEW m \in inbox, handleFindAndNotifyDrivers(w, m)
      PROVE  Placed(t)'
  <2>1. /\ inbox' = inbox \ {m} /\ Begin(w, m.event, "kafka", {})
        /\ UNCHANGED <<waiting, pending, expiring>> /\ worker[w].pc = "idle"
    BY <1>2 DEF handleFindAndNotifyDrivers, redis, queue, timers
  <2>2. /\ m.event.trip = t => Jobs(t)' = Jobs(t) \union {w}
        /\ m.event.trip # t => Jobs(t)' = Jobs(t) \ {w} /\ Messages(t)' = Messages(t)
        /\ w \notin Jobs(t)
    BY <2>1, BeginStep DEF Messages, Jobs, Working
  <2> QED
    BY <1>1, <2>1, <2>2 DEF Placed, Entries, Offered, Endings
<1>3. ASSUME NEW w \in Worker,
             \/ startMatching(w) \/ TryMatchWaiting(w) \/ endMatching(w)
             \/ notifyDriver(w) \/ SetBusy(w)
      PROVE  Placed(t)'
  BY <1>3, GoroutineMoves DEF Placed
<1>4. ASSUME NEW w \in Worker, waitingClaim(w) PROVE Placed(t)'
  <2>1. UNCHANGED <<inbox, pending, expiring>>
    BY <1>4 DEF waitingClaim, timers
  <2>2. \/ \E e \in Entries(t) : Jobs(t)' = Jobs(t) \union {w}
        \/ Jobs(t)' = Jobs(t) /\ Entries(t)' = Entries(t)
    BY <1>4, ClaimStep DEF NothingLost
  <2> QED
    BY <1>1, <2>1, <2>2 DEF Placed, Messages, Offered, Endings
<1>5. ASSUME NEW w \in Worker, storeWaiting(w) PROVE Placed(t)'
  <2>1. waiting' = {f \in waiting : f.trip # worker[w].event.trip} \union {worker[w].event}
    BY <1>5 DEF storeWaiting, waitingStore, Outcomes, NothingLost
  <2>2. /\ Jobs(t)' = Jobs(t) \ {w} /\ (w \in Jobs(t) <=> worker[w].event.trip = t)
        /\ UNCHANGED <<inbox, pending, timers>>
    BY <1>5, StoreStep
  <2>3. CASE worker[w].event.trip = t
    BY <2>1, <2>3 DEF Placed, Entries
  <2>4. CASE worker[w].event.trip # t
    <3>1. Entries(t)' = Entries(t)
      BY <2>1, <2>4 DEF Entries
    <3> QED
      BY <2>2, <2>4, <3>1 DEF Placed, Messages, Offered, Endings, timers
  <2> QED
    BY <2>3, <2>4
<1>7. ASSUME NEW w \in Worker, publishNoDriversFound(w) PROVE Placed(t)'
  BY <1>7, ReportStep DEF Placed, Messages, Entries, Offered, Endings, redis, queue, timers
<1>6. ASSUME NEW w \in Worker, spawnTimer(w) PROVE Placed(t)'
  <2> DEFINE o == [id |-> offers, trip |-> worker[w].event.trip, driver |-> worker[w].driver,
                   exclude |-> worker[w].event.exclude]
  <2>1. /\ w \in Working /\ UNCHANGED <<waiting, expiring>> /\ \E again : EndJob(w, again)
        /\ Store(o) /\ o.trip = worker[w].event.trip
    BY <1>6 DEF spawnTimer, Working, redis, queue
  <2> HIDE DEF o
  <2>2. inbox \subseteq inbox' /\ Jobs(t)' = Jobs(t) \ {w}
    BY <2>1, LeavesJob DEF Working
  <2>3. CASE worker[w].event.trip = t
    BY <2>1, <2>3 DEF Placed, Offered, Store
  <2>4. CASE worker[w].event.trip # t
    <3>1. Offered(t)' = Offered(t) /\ w \notin Jobs(t)
      BY <1>1, <2>1, <2>4 DEF Offered, PendingOf, Jobs, Store
    <3> QED
      BY <2>1, <2>2, <3>1 DEF Placed, Messages, Entries, Endings
  <2> QED
    BY <2>3, <2>4
<1> QED
  BY <1>2, <1>3, <1>4, <1>5, <1>6, <1>7 DEF Searches, Goroutine, notifyFails, NothingLost

LEMMA TimerKeeps ==
  ASSUME TypeOK, NothingLost, TimerSteps, NEW t \in Trip, Placed(t)
  PROVE  Placed(t)'
<1>0. UNCHANGED <<waiting, worker>>
  BY DEF TimerSteps, fire, takePending, restore, clearTimedOut, publishRetry, redis, queue,
         goroutines
<1> USE <1>0 DEF Placed, Messages, Jobs, Working, Entries, Offered, Endings, PendingOf
<1>1. ASSUME NEW o \in asleep, fire(o) PROVE Placed(t)'
  BY <1>1 DEF fire
<1>2. ASSUME NEW o \in fired, takePending(o) PROVE Placed(t)'
  <2>1. PICK own \in SUBSET PendingOf(o.trip) :
          /\ expiring' = expiring \union {[timer |-> o, taken |-> p, pc |-> "clear"] : p \in own}
          /\ restoring' = restoring \union (PendingOf(o.trip) \ own)
          /\ pending' = pending \ PendingOf(o.trip) /\ inbox' = inbox
    BY <1>2 DEF takePending
  <2>2. ASSUME NEW p \in pending \ pending', p.trip = t
        PROVE  p \in restoring' \/ \E x \in expiring' : x.timer.trip = t
    <3>1. p \in PendingOf(o.trip) /\ o.trip = t
      BY <2>1, <2>2
    <3>2. ASSUME p \in own PROVE [timer |-> o, taken |-> p, pc |-> "clear"] \in expiring'
      BY <2>1, <3>2
    <3> QED
      BY <2>1, <3>1, <3>2
  <2> QED
    BY <2>1, <2>2
<1>3. ASSUME NEW p \in restoring, restore(p) PROVE Placed(t)'
  BY <1>3 DEF restore, Store
<1>4. ASSUME NEW x \in expiring, clearTimedOut(x) PROVE Placed(t)'
  <2>1. [x EXCEPT !.pc = "retry"].timer = x.timer
    BY DEF TypeOK
  <2> QED
    BY <1>4, <2>1 DEF clearTimedOut
<1>5. ASSUME NEW x \in expiring, publishRetry(x) PROVE Placed(t)'
  <2> DEFINE m == Search(x.timer.trip, x.timer.exclude \union {x.timer.driver})
  <2>1. m.kind = "search" /\ m.event.trip = x.timer.trip
    BY DEF Search
  <2>2. /\ inbox' = inbox \union {m} /\ expiring' = expiring \ {x}
        /\ UNCHANGED <<pending, restoring>>
    BY <1>5 DEF publishRetry, NothingLost
  <2> HIDE DEF m
  <2> QED
    BY <2>1, <2>2
<1> QED
  BY <1>1, <1>2, <1>3, <1>4, <1>5 DEF TimerSteps

\* No answer, cancellation or call ends the search of an open trip.
LEMMA OthersKeep ==
  ASSUME TypeOK, CreatedInv, NothingLost, Consumers \/ Calls, NEW t \in Trip,
         phase[t] = "searching", Placed(t)
  PROVE  Placed(t)'
<1> USE DEF Placed, Messages, Jobs, Working, Entries, Offered, Endings, PendingOf
<1>1. ASSUME NEW m \in inbox,
             handleDriverResponse(m) \/ handleTripCancelled(m) \/ handleTripCompleted(m)
      PROVE  Placed(t)'
  <2>1. m.kind # "search" /\ m.trip # t
    BY <1>1 DEF handleDriverResponse, handleTripCancelled, handleTripCompleted, CreatedInv,
                Answered, NothingLost
  <2>2. /\ inbox \ {m} \subseteq inbox' /\ UNCHANGED <<worker, restoring, expiring>>
        /\ \A e \in waiting : e.trip = t => e \in waiting'
        /\ \A p \in pending : p.trip = t => p \in pending'
    BY <1>1, <2>1
    DEF handleDriverResponse, handleTripCancelled, handleTripCompleted, Committed,
        TakeAndCancel, waitingDelete, Outcomes, NothingLost, queue, timers, goroutines
  <2> QED
    BY <2>1, <2>2
<1>2. ASSUME NEW d \in Driver, RegisterExtending(d) PROVE Placed(t)'
  <2>1. PICK p \in PendingOf(busy[d]) : Store([p EXCEPT !.id = offers])
    BY <1>2 DEF RegisterExtending
  <2> DEFINE o == [p EXCEPT !.id = offers]
  <2>2. o.trip = p.trip
    BY DEF TypeOK, Offer
  <2>3. UNCHANGED <<inbox, waiting, worker, restoring, expiring>>
    BY <1>2 DEF RegisterExtending, queue, goroutines
  <2> HIDE DEF o
  <2>4. pending' = {q \in pending : q.trip # o.trip} \union {o}
    BY <2>1 DEF Store, o
  <2> QED
    BY <2>1, <2>2, <2>3, <2>4
<1>3. ASSUME NEW d \in Driver, RegisterClearing(d) PROVE Placed(t)'
  BY <1>3 DEF RegisterClearing, queue
<1>4. ASSUME NEW d \in Driver,
             RegisterIdle(d) \/ GoOffline(d) \/ deleteHash(d) \/ UpdateLocation(d)
      PROVE  Placed(t)'
  BY <1>4 DEF RegisterIdle, GoOffline, deleteHash, UpdateLocation, queue, timers, goroutines
<1> QED
  BY <1>1, <1>2, <1>3, <1>4 DEF Consumers, Calls, RegisterDriver

SearchIsPlaced == \A t \in Trip : phase[t] = "searching" => Placed(t)

LEMMA EnvironmentKeeps ==
  ASSUME TypeOK, Environment, SearchIsPlaced
  PROVE  SearchIsPlaced'
<1>1. /\ UNCHANGED <<waiting, pending, restoring, expiring, worker>> /\ inbox \subseteq inbox'
  <2>1. inbox \subseteq inbox'
    BY DEF Environment, CreateTrip, DriverAccepts, DriverDeclines, TripIsCancelled, TripCompletes,
           Send
  <2> QED
    BY <2>1, EnvironmentStep DEF redis, queue, timers, goroutines
<1>2. ASSUME NEW t, Placed(t) PROVE Placed(t)'
  BY <1>1, <1>2 DEF Placed, Messages, Jobs, Working, Entries, Offered, Endings
<1>3. ASSUME NEW t \in Trip, phase'[t] = "searching", phase[t] # "searching"
      PROVE  Messages(t)' # {}
  <2>1. CreateTrip(t)
    BY <1>3 DEF Environment, CreateTrip, DriverAccepts, DriverDeclines, TripIsCancelled,
                TripCompletes, TypeOK
  <2>2. Search(t, {}) \in inbox' /\ Search(t, {}).kind = "search" /\ Search(t, {}).event.trip = t
    BY <2>1 DEF CreateTrip, Send, Search
  <2> QED
    BY <2>2 DEF Messages
<1> QED
  BY <1>2, <1>3 DEF SearchIsPlaced, Placed

LEMMA SearchesArePlaced ==
  ASSUME NothingLost
  PROVE  Spec => []SearchIsPlaced
<1>1. Init => SearchIsPlaced
  BY DEF Init, SearchIsPlaced
<1>2. ASSUME TypeOK, CreatedInv, SearchIsPlaced, [Next]_vars PROVE SearchIsPlaced'
  <2>1. CASE Searches \/ TimerSteps \/ Consumers \/ Calls
    <3>1. phase' = phase
      BY <2>1, PhaseKept
    <3>2. \A t \in Trip : phase[t] = "searching" => Placed(t)'
      BY <1>2, <2>1, SearchKeeps, TimerKeeps, OthersKeep DEF SearchIsPlaced
    <3> QED
      BY <3>1, <3>2 DEF SearchIsPlaced
  <2>2. CASE UNCHANGED vars
    <3>1. UNCHANGED <<inbox, waiting, pending, restoring, expiring, worker, phase>>
      BY <2>2 DEF vars, redis, queue, timers, goroutines, outside
    <3>2. ASSUME NEW t, Placed(t) PROVE Placed(t)'
      BY <3>1, <3>2 DEF Placed, Messages, Jobs, Working, Entries, Offered, Endings
    <3> QED
      BY <1>2, <3>1, <3>2 DEF SearchIsPlaced
  <2> QED
    BY <1>2, <2>1, <2>2, EnvironmentKeeps DEF Next, Crash, NothingLost
<1> QED
  BY <1>1, <1>2, TypeCorrect, CreatedHolds, PTL DEF Spec

\* However drivers answer early or late, go offline or come back while they are
\* asked, and whichever messages come again: while a trip is open, a message, a
\* goroutine, a waiting and listed entry, an offer or a timer carries its search
\* on (startResponseTimer and ExtendTimerForDriver put back what is not theirs),
\* or its entry has been struck off the list and nothing does.
THEOREM SearchesGoOn ==
  ASSUME NothingLost
  PROVE  Spec => []SearchIsCarried
<1>1. SearchIsPlaced => SearchIsCarried
  BY PlacedIsCarried DEF SearchIsPlaced, SearchIsCarried
<1> QED
  BY <1>1, SearchesArePlaced, PTL

-----------------------------------------------------------------------------
(* One carrier per search, as long as no message comes again either *)

NothingRepeated == NothingLost /\ "replay" \notin Disturbances

\* At most one place carries the search of a trip.
CarriedOnce(t) ==
  /\ \A a, b \in Messages(t) : a = b
  /\ \A a, b \in Jobs(t) : a = b
  /\ \A a, b \in Entries(t) : a = b
  /\ \A a, b \in Offered(t) : a = b
  /\ \A a, b \in Endings(t) : a = b
  /\ Messages(t) # {} => Jobs(t) = {} /\ Entries(t) = {} /\ Offered(t) = {} /\ Endings(t) = {}
  /\ Jobs(t) # {} => Entries(t) = {} /\ Offered(t) = {} /\ Endings(t) = {}
  /\ Entries(t) # {} => Offered(t) = {} /\ Endings(t) = {}
  /\ Offered(t) # {} => Endings(t) = {}

\* A step hands the search of a trip over, or ends it.
Handed(t) == CarriedOnce(t)' /\ (Placed(t)' => Placed(t))

\* Nothing changes for a trip, or something of it is given up.
LEMMA NotTouched ==
  ASSUME NEW t, CarriedOnce(t),
         Messages(t)' \subseteq Messages(t), Jobs(t)' \subseteq Jobs(t),
         Entries(t)' \subseteq Entries(t), Offered(t)' \subseteq Offered(t),
         Endings(t)' \subseteq Endings(t)
  PROVE  Handed(t)
BY DEF Handed, CarriedOnce, Placed

LEMMA SearchHands ==
  ASSUME TypeOK, NothingRepeated, Searches, NEW t \in Trip, CarriedOnce(t)
  PROVE  Handed(t)
<1>1. restoring' = restoring /\ expiring' = expiring
  BY DEF Searches, Goroutine, handleFindAndNotifyDrivers, startMatching, waitingClaim,
         TryMatchWaiting, endMatching, storeWaiting, publishNoDriversFound, notifyDriver, notifyFails, SetBusy,
         spawnTimer, timers
<1>2. ASSUME NEW w \in Worker, NEW m \in inbox, handleFindAndNotifyDrivers(w, m)
      PROVE  Handed(t)
  <2>1. /\ m.kind = "search" /\ inbox' = inbox \ {m} /\ Begin(w, m.event, "kafka", {})
        /\ worker[w].pc = "idle" /\ UNCHANGED <<waiting, pending>>
    BY <1>2 DEF handleFindAndNotifyDrivers, redis, queue
  <2>2. /\ Entries(t)' = Entries(t) /\ Offered(t)' = Offered(t) /\ Endings(t)' = Endings(t)
        /\ Messages(t)' = Messages(t) \ {m} /\ w \notin Jobs(t)
    BY <1>1, <2>1 DEF Entries, Offered, Endings, Messages, Jobs, Working
  <2>3. CASE m.event.trip # t
    <3>1. Jobs(t)' = Jobs(t) \ {w}
      BY <2>1, <2>3, BeginStep
    <3> QED
      BY <2>2, <3>1, NotTouched
  <2>4. CASE m.event.trip = t
    <3>1. m \in Messages(t) /\ Jobs(t)' = Jobs(t) \union {w}
      BY <2>1, <2>4, BeginStep DEF Messages
    <3> QED
      BY <2>2, <3>1 DEF Handed, CarriedOnce, Placed
  <2> QED
    BY <2>3, <2>4
<1>3. ASSUME NEW w \in Worker,
             \/ startMatching(w) \/ TryMatchWaiting(w) \/ endMatching(w)
             \/ notifyDriver(w) \/ SetBusy(w)
      PROVE  Handed(t)
  BY <1>3, GoroutineMoves, NotTouched
<1>4. ASSUME NEW w \in Worker, waitingClaim(w) PROVE Handed(t)
  <2>1. Messages(t)' = Messages(t) /\ Offered(t)' = Offered(t) /\ Endings(t)' = Endings(t)
    BY <1>1, <1>4 DEF waitingClaim, Messages, Offered, Endings
  <2>2. CASE Jobs(t)' = Jobs(t) /\ Entries(t)' \subseteq Entries(t)
    BY <2>1, <2>2, NotTouched
  <2>3. ASSUME NEW e \in Entries(t), Entries(t)' = Entries(t) \ {e},
               Jobs(t)' = Jobs(t) \union {w}
        PROVE  Handed(t)
    BY <2>1, <2>3 DEF Handed, CarriedOnce, Placed
  <2> QED
    BY <1>4, <2>2, <2>3, ClaimStep
<1>5. ASSUME NEW w \in Worker, storeWaiting(w) PROVE Handed(t)
  <2> DEFINE e == worker[w].event
  <2>1. waiting' = {f \in waiting : f.trip # e.trip} \union {e}
    BY <1>5 DEF storeWaiting, waitingStore, Outcomes, NothingRepeated, NothingLost
  <2>2. UNCHANGED <<inbox, pending, timers>>
    BY <1>5, StoreStep
  <2>3. Jobs(t)' = Jobs(t) \ {w} /\ (w \in Jobs(t) <=> e.trip = t)
    BY <1>5, StoreStep
  <2>4. Messages(t)' = Messages(t) /\ Offered(t)' = Offered(t) /\ Endings(t)' = Endings(t)
    BY <2>2 DEF Messages, Offered, Endings, timers
  <2>5. CASE e.trip # t
    <3>1. Entries(t)' = Entries(t)
      BY <2>1, <2>5 DEF Entries
    <3> QED
      BY <2>3, <2>4, <3>1, NotTouched
  <2>6. CASE e.trip = t
    <3>1. Entries(t)' = {e}
      BY <2>1, <2>6 DEF Entries
    <3> HIDE DEF e
    <3> QED
      BY <2>3, <2>4, <2>6, <3>1 DEF Handed, CarriedOnce, Placed
  <2> QED
    BY <2>5, <2>6
<1>7. ASSUME NEW w \in Worker, publishNoDriversFound(w) PROVE Handed(t)
  <2>1. EndJob(w, Disturbances \intersect {"replay", "broker"} # {})
    BY <1>7 DEF publishNoDriversFound
  <2>2. inbox' = inbox
    BY <2>1 DEF EndJob, NothingRepeated, NothingLost
  <2>3. /\ Messages(t)' = Messages(t) /\ Jobs(t)' = Jobs(t) /\ Entries(t)' = Entries(t)
        /\ Offered(t)' = Offered(t) /\ Endings(t)' = Endings(t)
    BY <1>7, <2>2, ReportStep DEF Messages, Entries, Offered, Endings, redis, queue, timers
  <2> QED
    BY <2>3, NotTouched
<1>6. ASSUME NEW w \in Worker, spawnTimer(w) PROVE Handed(t)
  <2> DEFINE u == worker[w].event.trip
             o == [id |-> offers, trip |-> u, driver |-> worker[w].driver,
                   exclude |-> worker[w].event.exclude]
  <2>1. EndJob(w, "replay" \in Disturbances)
    BY <1>6 DEF spawnTimer
  <2>2. inbox' = inbox
    BY <2>1 DEF EndJob, NothingRepeated
  <2>3. worker[w].pc = "marked" /\ waiting' = waiting /\ Store(o) /\ o.trip = u
    BY <1>6 DEF spawnTimer, redis, queue
  <2>4. /\ Messages(t)' = Messages(t) /\ Entries(t)' = Entries(t) /\ Endings(t)' = Endings(t)
        /\ Jobs(t)' = Jobs(t) \ {w} /\ (w \in Jobs(t) <=> u = t)
    BY <1>1, <2>1, <2>2, <2>3, LeavesJob DEF Messages, Entries, Endings, Jobs, Working
  <2> HIDE DEF o
  <2>5. CASE u # t
    <3>1. Offered(t)' = Offered(t)
      BY <1>1, <2>3, <2>5 DEF Offered, Store, PendingOf
    <3> QED
      BY <2>4, <3>1, NotTouched
  <2>6. CASE u = t
    <3>1. Offered(t) = {}
      BY <2>4, <2>6 DEF CarriedOnce
    <3>2. Offered(t)' = {o}
      BY <1>1, <2>3, <2>6, <3>1 DEF Offered, Store, PendingOf
    <3> QED
      BY <2>4, <2>6, <3>2 DEF Handed, CarriedOnce, Placed
  <2> QED
    BY <2>5, <2>6
<1> QED
  BY <1>2, <1>3, <1>4, <1>5, <1>6, <1>7
  DEF Searches, Goroutine, notifyFails, NothingRepeated, NothingLost

\* A timer takes an offer of its driver, or moves another driver's.
LEMMA OfferIsTaken ==
  ASSUME TypeOK, OfferInv, NEW o \in fired, takePending(o), NEW t \in Trip, CarriedOnce(t)
  PROVE  Handed(t)
<1> DEFINE own == {p \in PendingOf(o.trip) : p.driver = o.driver}
<1>1. /\ pending' = pending \ PendingOf(o.trip)
      /\ expiring' = expiring \union {[timer |-> o, taken |-> p, pc |-> "clear"] : p \in own}
      /\ restoring' = restoring \union (PendingOf(o.trip) \ own)
      /\ UNCHANGED <<inbox, waiting, worker>>
  BY DEF takePending, redis, queue, goroutines
<1>2. own \subseteq PendingOf(o.trip) /\ PendingOf(o.trip) \subseteq pending
  BY DEF PendingOf
<1> HIDE DEF own
<1>3. Messages(t)' = Messages(t) /\ Jobs(t)' = Jobs(t) /\ Entries(t)' = Entries(t)
  BY <1>1 DEF Messages, Jobs, Working, Entries
<1>4. Offered(t)' \subseteq Offered(t)
  BY <1>1, <1>2 DEF Offered
<1>5. CASE o.trip # t \/ own = {}
  <2>1. Endings(t)' = Endings(t)
    BY <1>1, <1>5 DEF Endings
  <2> QED
    BY <1>3, <1>4, <2>1, NotTouched
<1>6. CASE o.trip = t /\ own # {}
  <2>1. PICK p \in own : TRUE
    BY <1>6
  <2>2. p \in Offered(t) /\ own \subseteq Offered(t)
    BY <1>2, <1>6, <2>1 DEF Offered, PendingOf
  <2>3. own = {p} /\ Offered(t) = {p} /\ Endings(t) = {}
    BY <2>1, <2>2 DEF CarriedOnce
  <2>4. p \notin restoring' /\ p \notin pending'
    <3>1. p \in pending /\ p \notin restoring
      BY <1>2, <2>1 DEF OfferInv, OfferIsOwnedOnce
    <3> QED
      BY <1>1, <1>2, <2>1, <3>1
  <2> DEFINE x == [timer |-> o, taken |-> p, pc |-> "clear"]
  <2>5. x.timer = o /\ expiring' = expiring \union {x}
    BY <1>1, <2>3
  <2> HIDE DEF x
  <2>6. Endings(t)' = {x}
    BY <1>6, <2>3, <2>5 DEF Endings
  <2>7. Offered(t)' = {}
    <3>1. p \notin Offered(t)'
      BY <2>4 DEF Offered
    <3> QED
      BY <1>4, <2>3, <3>1
  <2> QED
    BY <1>3, <2>2, <2>3, <2>6, <2>7 DEF Handed, CarriedOnce, Placed
<1> QED
  BY <1>5, <1>6

LEMMA TimerHands ==
  ASSUME TypeOK, OfferInv, NothingRepeated, TimerSteps, NEW t \in Trip, CarriedOnce(t)
  PROVE  Handed(t)
<1>0. Jobs(t)' = Jobs(t) /\ Entries(t)' = Entries(t)
  BY DEF TimerSteps, fire, takePending, restore, clearTimedOut, publishRetry, redis, queue,
         goroutines, Jobs, Working, Entries
<1>1. ASSUME NEW o \in asleep, fire(o) PROVE Handed(t)
  <2>1. Messages(t)' = Messages(t) /\ Offered(t)' = Offered(t) /\ Endings(t)' = Endings(t)
    BY <1>1 DEF fire, Messages, Offered, Endings
  <2> QED
    BY <1>0, <2>1, NotTouched
<1>2. ASSUME NEW o \in fired, takePending(o) PROVE Handed(t)
  BY <1>2, OfferIsTaken
<1>3. ASSUME NEW p \in restoring, restore(p) PROVE Handed(t)
  <2>1. Messages(t)' = Messages(t) /\ Endings(t)' = Endings(t) /\ Offered(t)' \subseteq Offered(t)
    BY <1>3 DEF restore, Store, Messages, Endings, Offered
  <2> QED
    BY <1>0, <2>1, NotTouched
<1>4. ASSUME NEW x \in expiring, clearTimedOut(x) PROVE Handed(t)
  <2> DEFINE y == [x EXCEPT !.pc = "retry"]
  <2>1. /\ y.timer = x.timer /\ expiring' = (expiring \ {x}) \union {y}
        /\ UNCHANGED <<inbox, pending, restoring>>
    BY <1>4 DEF clearTimedOut, TypeOK
  <2> HIDE DEF y
  <2>2. Messages(t)' = Messages(t) /\ Offered(t)' = Offered(t)
    BY <2>1 DEF Messages, Offered
  <2>3. CASE t # x.timer.trip
    <3>1. Endings(t)' = Endings(t)
      BY <2>1, <2>3 DEF Endings
    <3> QED
      BY <1>0, <2>2, <3>1, NotTouched
  <2>4. CASE t = x.timer.trip
    <3>1. x \in Endings(t) /\ Endings(t)' = (Endings(t) \ {x}) \union {y}
      BY <2>1, <2>4 DEF Endings
    <3> QED
      BY <1>0, <2>2, <3>1 DEF Handed, CarriedOnce, Placed
  <2> QED
    BY <2>3, <2>4
<1>5. ASSUME NEW x \in expiring, publishRetry(x) PROVE Handed(t)
  <2> DEFINE m == Search(x.timer.trip, x.timer.exclude \union {x.timer.driver})
  <2>1. m.kind = "search" /\ m.event.trip = x.timer.trip
    BY DEF Search
  <2>2. /\ inbox' = inbox \union {m} /\ expiring' = expiring \ {x}
        /\ UNCHANGED <<pending, restoring>>
    BY <1>5 DEF publishRetry, NothingRepeated, NothingLost
  <2> HIDE DEF m
  <2>3. Offered(t)' = Offered(t) /\ Endings(t)' = Endings(t) \ {x}
    BY <2>2 DEF Offered, Endings
  <2>4. CASE t # x.timer.trip
    <3>1. Messages(t)' = Messages(t)
      BY <2>1, <2>2, <2>4 DEF Messages
    <3> QED
      BY <1>0, <2>3, <3>1, NotTouched
  <2>5. CASE t = x.timer.trip
    <3>1. Messages(t)' = Messages(t) \union {m} /\ x \in Endings(t)
      BY <2>1, <2>2, <2>5 DEF Messages, Endings
    <3> QED
      BY <1>0, <2>3, <3>1 DEF Handed, CarriedOnce, Placed
  <2> QED
    BY <2>4, <2>5
<1> QED
  BY <1>1, <1>2, <1>3, <1>4, <1>5 DEF TimerSteps

\* What else the driver service does.
LEMMA OthersHand ==
  ASSUME TypeOK, OfferInv, NothingRepeated, Consumers \/ Calls, NEW t \in Trip, CarriedOnce(t)
  PROVE  Handed(t)
<1> USE DEF Messages, Jobs, Working, Entries, Offered, Endings
<1>1. CASE Consumers
  <2>1. /\ inbox' \subseteq inbox /\ waiting' \subseteq waiting /\ pending' \subseteq pending
        /\ UNCHANGED <<restoring, expiring, worker>>
    BY <1>1
    DEF Consumers, handleDriverResponse, handleTripCancelled, handleTripCompleted, Committed,
        TakeAndCancel, waitingDelete, Outcomes, queue, timers, goroutines
  <2> QED
    BY <2>1, NotTouched
<1>2. ASSUME NEW d \in Driver, RegisterExtending(d) PROVE Handed(t)
  <2>1. PICK p \in PendingOf(busy[d]) : Store([p EXCEPT !.id = offers])
    BY <1>2 DEF RegisterExtending
  <2> DEFINE o == [p EXCEPT !.id = offers]
  <2>2. o.trip = p.trip /\ p \in pending
    BY DEF TypeOK, Offer, PendingOf
  <2>3. UNCHANGED <<inbox, waiting, worker, restoring, expiring>>
    BY <1>2 DEF RegisterExtending, queue, goroutines
  <2> HIDE DEF o
  <2>4. pending' = {q \in pending : q.trip # o.trip} \union {o}
    BY <2>1 DEF Store, PendingOf, o
  <2>5. /\ Messages(t)' = Messages(t) /\ Jobs(t)' = Jobs(t) /\ Entries(t)' = Entries(t)
        /\ Endings(t)' = Endings(t)
    BY <2>3
  <2>6. CASE t # p.trip
    <3>1. Offered(t)' = Offered(t)
      BY <2>2, <2>3, <2>4, <2>6
    <3> QED
      BY <2>5, <3>1, NotTouched
  <2>7. CASE t = p.trip
    <3>1. p \in Offered(t) /\ Offered(t) = {p}
      BY <2>2, <2>7 DEF CarriedOnce
    <3>2. p \notin restoring
      BY <2>2 DEF OfferInv, OfferIsOwnedOnce
    <3>3. \A q \in restoring : q.trip # t
      <4>1. \A q \in restoring : q.trip = t => q \in Offered(t)
        OBVIOUS
      <4> QED
        BY <3>1, <3>2, <4>1
    <3>4. Offered(t)' = {o}
      BY <2>2, <2>3, <2>4, <2>7, <3>3
    <3> QED
      BY <2>5, <3>1, <3>4 DEF Handed, CarriedOnce, Placed
  <2> QED
    BY <2>6, <2>7
<1>3. ASSUME NEW d \in Driver, RegisterClearing(d) PROVE Handed(t)
  <2>1. UNCHANGED <<inbox, waiting, worker, expiring>>
    BY <1>3 DEF RegisterClearing, queue
  <2>2. Offered(t)' = Offered(t)
    BY <1>3 DEF RegisterClearing, PendingOf
  <2> QED
    BY <2>1, <2>2, NotTouched
<1>4. ASSUME NEW d \in Driver,
             RegisterIdle(d) \/ GoOffline(d) \/ deleteHash(d) \/ UpdateLocation(d)
      PROVE  Handed(t)
  <2>1. UNCHANGED <<inbox, waiting, worker, pending, restoring, expiring>>
    BY <1>4 DEF RegisterIdle, GoOffline, deleteHash, UpdateLocation, queue, timers, goroutines
  <2> QED
    BY <2>1, NotTouched
<1> QED
  BY <1>1, <1>2, <1>3, <1>4 DEF Consumers, Calls, RegisterDriver

\* What happens outside: a trip is created, or nobody's search changes.
LEMMA EnvironmentHands ==
  ASSUME TypeOK, CreatedInv, NothingRepeated, Environment, NEW t \in Trip, CarriedOnce(t)
  PROVE  CarriedOnce(t)' /\ (Placed(t)' => Placed(t) \/ phase[t] = "new")
<1>1. /\ Jobs(t)' = Jobs(t) /\ Entries(t)' = Entries(t) /\ Offered(t)' = Offered(t)
      /\ Endings(t)' = Endings(t)
  BY EnvironmentStep
  DEF redis, queue, timers, goroutines, Jobs, Working, Entries, Offered, Endings
<1>2. CASE Messages(t)' = Messages(t)
  BY <1>1, <1>2, NotTouched DEF Handed
<1>3. ASSUME CreateTrip(t) PROVE CarriedOnce(t)' /\ phase[t] = "new"
  <2> DEFINE m == Search(t, {})
  <2>1. m.kind = "search" /\ m.event.trip = t
    BY DEF Search
  <2>2. inbox' = inbox \union {m}
    BY <1>3 DEF CreateTrip, Send
  <2> HIDE DEF m
  <2>3. ~Placed(t)
    BY <1>3 DEF CreateTrip, CreatedInv, Named
  <2>4. Messages(t)' = {m}
    BY <2>1, <2>2, <2>3 DEF Messages, Placed
  <2> QED
    BY <1>1, <1>3, <2>3, <2>4 DEF CreateTrip, CarriedOnce, Placed
<1>4. ASSUME NEW u \in Trip, CreateTrip(u), u # t PROVE Messages(t)' = Messages(t)
  BY <1>4 DEF CreateTrip, Send, Search, Messages
<1>5. ASSUME NEW u \in Trip, NEW d \in Driver, DriverAccepts(u, d) PROVE Messages(t)' = Messages(t)
  BY <1>5 DEF DriverAccepts, Send, About, Messages
<1>6. ASSUME NEW u \in Trip, TripIsCancelled(u) PROVE Messages(t)' = Messages(t)
  BY <1>6 DEF TripIsCancelled, Send, About, Messages
<1>7. ASSUME NEW u \in Trip, TripCompletes(u) PROVE Messages(t)' = Messages(t)
  BY <1>7 DEF TripCompletes, Send, About, Messages
<1> QED
  BY <1>2, <1>3, <1>4, <1>5, <1>6, <1>7
  DEF Environment, DriverDeclines, NothingRepeated, NothingLost

OnceInv == \A t \in Trip : CarriedOnce(t)

LEMMA OnceStep ==
  ASSUME TypeOK, OfferInv, CreatedInv, OnceInv, NothingRepeated, [Next]_vars, NEW t \in Trip
  PROVE  CarriedOnce(t)' /\ (Placed(t)' => Placed(t) \/ phase[t] = "new")
<1> CarriedOnce(t)
  BY DEF OnceInv
<1>1. CASE Searches \/ TimerSteps \/ Consumers \/ Calls
  BY <1>1, SearchHands, TimerHands, OthersHand DEF Handed
<1>2. CASE UNCHANGED vars
  <2>1. UNCHANGED <<inbox, waiting, pending, restoring, expiring, worker>>
    BY <1>2 DEF vars, redis, queue, timers, goroutines
  <2>2. /\ Messages(t)' = Messages(t) /\ Jobs(t)' = Jobs(t) /\ Entries(t)' = Entries(t)
        /\ Offered(t)' = Offered(t) /\ Endings(t)' = Endings(t)
    BY <2>1 DEF Messages, Jobs, Working, Entries, Offered, Endings
  <2> QED
    BY <2>2, NotTouched DEF Handed
<1> QED
  BY <1>1, <1>2, EnvironmentHands DEF Next, Crash, NothingRepeated, NothingLost

LEMMA OnceHolds ==
  ASSUME NothingRepeated
  PROVE  Spec => []OnceInv
<1>1. Init => OnceInv
  BY DEF Init, OnceInv, CarriedOnce, Messages, Jobs, Working, Entries, Offered, Endings, Idle
<1>2. TypeOK /\ OfferInv /\ CreatedInv /\ OnceInv /\ [Next]_vars => OnceInv'
  BY OnceStep DEF OnceInv
<1> QED
  BY <1>1, <1>2, TypeCorrect, OffersNumbered, CreatedHolds, PTL DEF Spec

\* However drivers answer early or late, go offline or come back while they are
\* asked, and as long as nothing is lost or repeated: an open trip is searched
\* for by exactly one message, goroutine, waiting and listed entry, offer or
\* timer (the hand-overs of consumer.go), or by none when its entry was struck.
THEOREM OneCarrier ==
  ASSUME NothingRepeated
  PROVE  Spec => []SearchHasOneCarrier
<1>1. OnceInv /\ SearchIsPlaced => SearchHasOneCarrier
  <2> SUFFICES ASSUME OnceInv, SearchIsPlaced, NEW t \in Trip, phase[t] = "searching"
               PROVE  Carriers(t) = IF Struck(t) THEN 0 ELSE 1
    BY DEF SearchHasOneCarrier
  <2>1. CarriedOnce(t) /\ Placed(t)
    BY DEF OnceInv, SearchIsPlaced
  <2>2. Cardinality({}) = 0
    BY FS_EmptySet
  <2>3. ASSUME NEW S, \A a, b \in S : a = b, S # {} PROVE Cardinality(S) = 1
    <3>1. PICK a : S = {a}
      BY <2>3
    <3> QED
      BY <3>1, FS_Singleton
  <2> QED
    BY <2>1, <2>2, <2>3 DEF CarriedOnce, Placed, Carriers, Waits, Struck
<1>2. NothingLost
  BY DEF NothingRepeated
<1> QED
  BY <1>1, <1>2, OnceHolds, SearchesArePlaced, PTL

\* Under the same conditions nothing else strikes an entry but the clean-up of a
\* goroutine that had found the trip without one (TryMatchWaiting).
THEOREM OnlyCleanUpStrikes ==
  ASSUME NothingRepeated
  PROVE  Spec => StruckByCleanUp
<1> DEFINE ByCleanUp(t) == \E w \in Worker : worker[w].pc = "gone" /\ worker[w].trip = t
<1>1. ASSUME TypeOK, OnceInv, [Next]_vars, NEW t \in Trip, ~ Struck(t), Struck(t)'
      PROVE  ByCleanUp(t)
  <2>1. ASSUME Entries(t)' \subseteq Entries(t), t \in listed => t \in listed'
        PROVE  FALSE
    BY <1>1, <2>1 DEF Struck
  <2>2. CASE UNCHANGED queue
    BY <2>1, <2>2 DEF queue, Entries
  <2>3. ASSUME NEW w \in Worker, waitingClaim(w) PROVE FALSE
    <3>1. waiting' \subseteq waiting /\ listed' = listed
      BY <2>3 DEF waitingClaim, Outcomes
    <3> QED
      BY <2>1, <3>1 DEF Entries
  <2>4. ASSUME NEW w \in Worker, TryMatchWaiting(w) PROVE ByCleanUp(t)
    <3>1. CASE worker[w].pc = "gone"
      <4>1. waiting' = waiting /\ listed' = listed \ {worker[w].trip}
        BY <2>4, <3>1 DEF TryMatchWaiting, Outcomes, NothingRepeated, NothingLost
      <4>2. CASE worker[w].trip = t
        BY <3>1, <4>2
      <4>3. CASE worker[w].trip # t
        BY <2>1, <4>1, <4>3 DEF Entries
      <4> QED
        BY <4>2, <4>3
    <3>2. CASE worker[w].pc = "claimed"
      <4>1. waiting' = waiting /\ listed' = listed \ {worker[w].event.trip}
        BY <2>4, <3>2 DEF TryMatchWaiting, Outcomes, NothingRepeated, NothingLost
      <4>2. CASE worker[w].event.trip = t
        <5>1. w \in Jobs(t)
          BY <3>2, <4>2 DEF Jobs, Working
        <5>2. Entries(t) = {}
          BY <1>1, <5>1 DEF OnceInv, CarriedOnce
        <5> QED
          BY <1>1, <4>1, <5>2 DEF Struck, Entries
      <4>3. CASE worker[w].event.trip # t
        BY <2>1, <4>1, <4>3 DEF Entries
      <4> QED
        BY <4>2, <4>3
    <3> QED
      BY <2>4, <3>1, <3>2 DEF TryMatchWaiting
  <2>5. ASSUME NEW w \in Worker, storeWaiting(w) PROVE FALSE
    <3>1. /\ waiting' = {f \in waiting : f.trip # worker[w].event.trip} \union {worker[w].event}
          /\ listed' = listed \union {worker[w].event.trip}
      BY <2>5 DEF storeWaiting, waitingStore, Outcomes, NothingRepeated, NothingLost
    <3> QED
      BY <1>1, <3>1 DEF Struck, Entries
  <2>6. ASSUME NEW m \in inbox, handleTripCancelled(m) PROVE FALSE
    <3>1. /\ waiting' = {f \in waiting : f.trip # m.trip}
          /\ listed' = listed \ {e.trip : e \in {f \in waiting : f.trip = m.trip}}
      BY <2>6 DEF handleTripCancelled, waitingDelete, Outcomes, NothingRepeated, NothingLost
    <3> QED
      BY <1>1, <3>1 DEF Struck, Entries
  <2>7. CASE Environment
    BY <1>1, <2>2, <2>7, EnvironmentStep DEF redis
  <2>8. ASSUME NEW w \in Worker,
               \/ \E m \in inbox : handleFindAndNotifyDrivers(w, m)
               \/ startMatching(w) \/ endMatching(w) \/ publishNoDriversFound(w)
               \/ notifyDriver(w) \/ SetBusy(w) \/ spawnTimer(w)
        PROVE  UNCHANGED queue
    BY <2>8 DEF handleFindAndNotifyDrivers, startMatching, endMatching, publishNoDriversFound,
                notifyDriver, SetBusy, spawnTimer, redis
  <2>9. TimerSteps \/ Calls => UNCHANGED queue
    BY DEF TimerSteps, fire, takePending, restore, clearTimedOut, publishRetry, Calls,
           RegisterDriver, RegisterIdle, RegisterExtending, RegisterClearing, GoOffline,
           deleteHash, UpdateLocation, redis
  <2>10. ASSUME NEW m \in inbox, handleDriverResponse(m) \/ handleTripCompleted(m)
         PROVE  UNCHANGED queue
    BY <2>10 DEF handleDriverResponse, handleTripCompleted
  <2>11. UNCHANGED vars => UNCHANGED queue
    BY DEF vars, redis
  <2> QED
    BY <1>1, <2>2, <2>3, <2>4, <2>5, <2>6, <2>7, <2>8, <2>9, <2>10, <2>11
    DEF Next, Searches, Goroutine, notifyFails, Consumers, Crash, NothingRepeated, NothingLost
<1>2. ASSUME TypeOK, OnceInv, [Next]_vars
      PROVE  [\A t \in Trip : ~ Struck(t) /\ Struck(t)' => ByCleanUp(t)]_vars
  BY <1>1, <1>2
<1> QED
  BY <1>2, OnceHolds, TypeCorrect, PTL DEF Spec, StruckByCleanUp

-----------------------------------------------------------------------------
(* One driver is asked at a time and nobody twice *)

\* Whoever was asked is left out from now on: excluded already, or the one the
\* request is with.
LeftOut(t, d) ==
  /\ \A m \in Messages(t) : d \in m.event.exclude
  /\ \A w \in Jobs(t) : \/ d \in worker[w].event.exclude
                        \/ worker[w].pc \in {"notified", "marked"} /\ d = worker[w].driver
  /\ \A e \in Entries(t) : d \in e.exclude
  /\ \A p \in Offered(t) : d \in p.exclude \union {p.driver}
  /\ \A x \in Endings(t) : d \in x.timer.exclude \union {x.timer.driver}

\* A timer of the trip that may still run out is one of a driver asked before, and
\* leaves out whom that driver's offer leaves out.
TimerFits(o) ==
  /\ <<o.trip, o.driver>> \in requested
  /\ \A p \in Offered(o.trip) : p.driver = o.driver => p.exclude = o.exclude
  /\ o.driver \notin Told(o.trip)

AskInv ==
  /\ \A t \in Trip, d \in Driver : <<t, d>> \in requested => LeftOut(t, d)
  /\ \A w \in Worker : worker[w].pc = "picked" => worker[w].driver \notin worker[w].event.exclude
  /\ \A t \in Trip : \A d \in Told(t) : <<t, d>> \in requested
  /\ \A o \in asleep \union fired : TimerFits(o)

\* What the goroutines of drivers who were told do not do.
Quiet(r) == r.pc \notin {"notified", "marked"}

LEMMA ToldStep ==
  ASSUME TypeOK, NEW w \in Worker, NEW v, worker' = [worker EXCEPT ![w] = v],
         Quiet(worker[w]), Quiet(v), NEW t
  PROVE  Told(t)' = Told(t)
<1> DEFINE S == {u \in Jobs(t) : worker[u].pc \in {"notified", "marked"}}
<1>1. worker'[w] = v /\ \A u \in Worker \ {w} : worker'[u] = worker[u]
  BY DEF TypeOK
<1>2. S' = S /\ w \notin S /\ S \subseteq Worker
  BY <1>1 DEF Quiet, Jobs, Working
<1>3. \A u \in S : worker'[u].driver = worker[u].driver
  BY <1>1, <1>2
<1>4. Told(t)' = {worker'[u].driver : u \in S'} /\ Told(t) = {worker[u].driver : u \in S}
  BY DEF Told
<1> HIDE DEF S
<1> QED
  BY <1>2, <1>3, <1>4

\* The searches but for the calls that concern the driver who was picked.
Searching(w) ==
  \/ \E m \in inbox : handleFindAndNotifyDrivers(w, m)
  \/ startMatching(w) \/ waitingClaim(w) \/ TryMatchWaiting(w) \/ endMatching(w)
  \/ storeWaiting(w) \/ publishNoDriversFound(w)

\* Begin picks nobody who is excluded.
LEMMA BeginPicks ==
  ASSUME NEW w \in Worker, NEW e, NEW src, NEW rest, Begin(w, e, src, rest)
  PROVE  \E v : /\ worker' = [worker EXCEPT ![w] = v]
                /\ v.pc \in {"none", "picked"} /\ v.event = e
                /\ v.pc = "picked" => v.driver \notin e.exclude
<1>1. PICK d \in (IF FindAvailableDrivers(e) = {} THEN {None} ELSE FindAvailableDrivers(e)) :
        worker' = [worker EXCEPT ![w] =
                     [pc |-> IF d = None THEN "none" ELSE "picked", event |-> e,
                      driver |-> d, from |-> src, todo |-> rest]]
  BY DEF Begin
<1> DEFINE v == [pc |-> IF d = None THEN "none" ELSE "picked", event |-> e,
                 driver |-> d, from |-> src, todo |-> rest]
<1>2. v.pc \in {"none", "picked"} /\ v.event = e /\ v.driver = d
  OBVIOUS
<1>3. v.pc = "picked" => d \notin e.exclude
  BY DEF FindAvailableDrivers
<1>4. worker' = [worker EXCEPT ![w] = v]
  BY <1>1
<1> HIDE DEF v
<1> QED
  BY <1>2, <1>3, <1>4

\* Where the event comes from that a goroutine goes on with.
LEMMA SearchingMoves ==
  ASSUME TypeOK, NEW w \in Worker, Searching(w)
  PROVE  \E v : /\ worker' = [worker EXCEPT ![w] = v]
                /\ Quiet(worker[w]) /\ Quiet(v)
                /\ v.pc = "picked" => v.driver \notin v.event.exclude
                /\ v.pc \notin {"idle", "match", "gone", "stored"} =>
                     \/ \E m \in inbox : m.kind = "search" /\ v.event = m.event
                     \/ v.event \in waiting
                     \/ w \in Working /\ v.event = worker[w].event
<1>1. ASSUME NEW m \in inbox, handleFindAndNotifyDrivers(w, m)
      PROVE  \E v : /\ worker' = [worker EXCEPT ![w] = v]
                    /\ v.pc \in {"none", "picked"} /\ v.event = m.event
                    /\ v.pc = "picked" => v.driver \notin m.event.exclude
  BY <1>1, BeginPicks DEF handleFindAndNotifyDrivers
<1>2. CASE \E m \in inbox : handleFindAndNotifyDrivers(w, m)
  <2>1. PICK m \in inbox : handleFindAndNotifyDrivers(w, m)
    BY <1>2
  <2>2. m.kind = "search" /\ Quiet(worker[w])
    BY <2>1 DEF handleFindAndNotifyDrivers, Quiet
  <2> QED
    BY <1>1, <2>1, <2>2 DEF Quiet
<1>3. CASE startMatching(w)
  <2> DEFINE v == [pc |-> "match", todo |-> listed]
  <2>1. worker' = [worker EXCEPT ![w] = v] /\ v.pc = "match" /\ Quiet(worker[w])
    BY <1>3 DEF startMatching, Quiet
  <2> HIDE DEF v
  <2> QED
    BY <2>1 DEF Quiet
<1>4. CASE waitingClaim(w)
  <2>1. Quiet(worker[w])
    BY <1>4 DEF waitingClaim, Quiet
  <2>2. ASSUME NEW e \in waiting, Claimed(w, e)
        PROVE  \E v : worker' = [worker EXCEPT ![w] = v] /\ v.pc = "claimed" /\ v.event = e
    <3> DEFINE v == [pc |-> "claimed", event |-> e, driver |-> None,
                     from |-> "waiting", todo |-> worker[w].todo \ {e.trip}]
    <3>1. worker' = [worker EXCEPT ![w] = v] /\ v.pc = "claimed" /\ v.event = e
      BY <2>2 DEF Claimed
    <3> HIDE DEF v
    <3> QED
      BY <3>1
  <2>3. ASSUME NEW u, worker' = [worker EXCEPT ![w] = [pc |-> "gone", trip |-> u,
                                                        todo |-> worker[w].todo \ {u}]]
        PROVE  \E v : worker' = [worker EXCEPT ![w] = v] /\ v.pc = "gone"
    <3> DEFINE v == [pc |-> "gone", trip |-> u, todo |-> worker[w].todo \ {u}]
    <3>1. worker' = [worker EXCEPT ![w] = v] /\ v.pc = "gone"
      BY <2>3
    <3> HIDE DEF v
    <3> QED
      BY <3>1
  <2>4. \/ \E e \in waiting : Claimed(w, e)
        \/ \E u : worker' = [worker EXCEPT ![w] = [pc |-> "gone", trip |-> u,
                                                   todo |-> worker[w].todo \ {u}]]
    BY <1>4 DEF waitingClaim
  <2> QED
    BY <2>1, <2>2, <2>3, <2>4 DEF Quiet
<1>5. CASE TryMatchWaiting(w)
  <2>1. CASE worker[w].pc = "claimed"
    <3>1. Begin(w, worker[w].event, "waiting", worker[w].todo) /\ w \in Working /\ Quiet(worker[w])
      BY <1>5, <2>1 DEF TryMatchWaiting, Working, Quiet
    <3> QED
      BY <3>1, BeginPicks DEF Quiet
  <2>2. CASE worker[w].pc = "gone"
    <3> DEFINE v == [pc |-> "match", todo |-> worker[w].todo]
    <3>1. worker' = [worker EXCEPT ![w] = v] /\ v.pc = "match" /\ Quiet(worker[w])
      BY <1>5, <2>2 DEF TryMatchWaiting, Quiet
    <3> HIDE DEF v
    <3> QED
      BY <3>1 DEF Quiet
  <2> QED
    BY <1>5, <2>1, <2>2 DEF TryMatchWaiting
<1>6. CASE endMatching(w)
  <2>1. worker' = [worker EXCEPT ![w] = Idle] /\ Idle.pc = "idle" /\ Quiet(worker[w])
    BY <1>6 DEF endMatching, Idle, Quiet
  <2> QED
    BY <2>1 DEF Quiet
<1>7. CASE publishNoDriversFound(w)
  <2>1. Quiet(worker[w]) /\ \E again : EndJob(w, again)
    BY <1>7 DEF publishNoDriversFound, Quiet
  <2>2. PICK v \in {Idle, [pc |-> "match", todo |-> worker[w].todo]} :
          worker' = [worker EXCEPT ![w] = v]
    BY <2>1 DEF EndJob
  <2>3. v.pc \in {"idle", "match"}
    BY DEF Idle
  <2> QED
    BY <2>1, <2>2, <2>3 DEF Quiet
<1>8. CASE storeWaiting(w)
  <2> DEFINE v == IF worker[w].from = "kafka" THEN [worker[w] EXCEPT !.pc = "stored"]
                  ELSE [pc |-> "match", todo |-> worker[w].todo]
  <2>1. worker' = [worker EXCEPT ![w] = v] /\ worker[w].pc = "none"
    BY <1>8 DEF storeWaiting
  <2>2. worker[w] \in Job
    BY <2>1, WorkerKinds
  <2>3. v.pc \in {"match", "stored"}
    BY <2>2 DEF Job
  <2> HIDE DEF v
  <2> QED
    BY <2>1, <2>3 DEF Quiet
<1> QED
  BY <1>2, <1>3, <1>4, <1>5, <1>6, <1>7, <1>8 DEF Searching

\* A step that asks nobody.
LEMMA NobodyAsked ==
  ASSUME AskInv, requested' = requested, asleep' \union fired' \subseteq asleep \union fired,
         \A t \in Trip : Told(t)' \subseteq Told(t),
         \A t \in Trip : \A p \in Offered(t)' :
           \E q \in Offered(t) : q.driver = p.driver /\ q.exclude = p.exclude,
         \A w \in Worker : worker'[w].pc = "picked" =>
                             worker'[w].driver \notin worker'[w].event.exclude,
         \A t \in Trip, d \in Driver : LeftOut(t, d) => LeftOut(t, d)',
         \A o \in asleep \union fired : o.trip \in Trip
  PROVE  AskInv'
<1>1. ASSUME NEW o \in asleep' \union fired' PROVE TimerFits(o)'
  <2>1. o \in asleep \union fired /\ o.trip \in Trip /\ TimerFits(o)
    BY DEF AskInv
  <2>2. ASSUME NEW p \in Offered(o.trip)', p.driver = o.driver PROVE p.exclude = o.exclude
    <3>1. PICK q \in Offered(o.trip) : q.driver = p.driver /\ q.exclude = p.exclude
      BY <2>1
    <3> QED
      BY <2>1, <2>2, <3>1 DEF TimerFits
  <2>3. <<o.trip, o.driver>> \in requested' /\ o.driver \notin Told(o.trip)'
    BY <2>1 DEF TimerFits
  <2> QED
    BY <2>2, <2>3 DEF TimerFits
<1>2. \A t \in Trip : \A d \in Told(t)' : <<t, d>> \in requested'
  BY DEF AskInv
<1> QED
  BY <1>1, <1>2 DEF AskInv

LEMMA AskSearching ==
  ASSUME TypeOK, AskInv, NothingRepeated, NEW w \in Worker, Searching(w)
  PROVE  AskInv' /\ \A t \in Trip : Asked(t)' = Asked(t)
<1>1. PICK v : /\ worker' = [worker EXCEPT ![w] = v]
               /\ Quiet(worker[w]) /\ Quiet(v)
               /\ v.pc = "picked" => v.driver \notin v.event.exclude
               /\ v.pc \notin {"idle", "match", "gone", "stored"} =>
                    \/ \E m \in inbox : m.kind = "search" /\ v.event = m.event
                    \/ v.event \in waiting
                    \/ w \in Working /\ v.event = worker[w].event
  BY SearchingMoves
<1>2. worker'[w] = v /\ \A u \in Worker \ {w} : worker'[u] = worker[u]
  BY <1>1 DEF TypeOK
<1>3. UNCHANGED <<pending, timers, requested>>
  BY DEF Searching, handleFindAndNotifyDrivers, startMatching, waitingClaim, TryMatchWaiting,
         endMatching, storeWaiting, publishNoDriversFound, outside
<1>4. /\ inbox' \subseteq inbox
      /\ waiting' \subseteq waiting \/ (/\ worker[w].pc = "none"
                                        /\ waiting' \subseteq waiting \union {worker[w].event})
  <2>1. CASE publishNoDriversFound(w)
    <3>1. EndJob(w, Disturbances \intersect {"replay", "broker"} # {})
      BY <2>1 DEF publishNoDriversFound
    <3>2. inbox' = inbox
      BY <3>1 DEF EndJob, NothingRepeated, NothingLost
    <3> QED
      BY <2>1, <3>2 DEF publishNoDriversFound, redis, queue
  <2>2. CASE storeWaiting(w)
    BY <2>2 DEF storeWaiting, waitingStore, Outcomes
  <2>3. CASE waitingClaim(w)
    BY <2>3 DEF waitingClaim, Outcomes
  <2> QED
    BY <2>1, <2>2, <2>3 DEF Searching, handleFindAndNotifyDrivers, startMatching,
                            TryMatchWaiting, endMatching, redis, queue
<1>5. ASSUME NEW t \in Trip, NEW d \in Driver, LeftOut(t, d) PROVE LeftOut(t, d)'
  <2>1. \A m \in Messages(t)' : d \in m.event.exclude
    BY <1>4, <1>5 DEF LeftOut, Messages
  <2>2. /\ \A p \in Offered(t)' : d \in p.exclude \union {p.driver}
        /\ \A x \in Endings(t)' : d \in x.timer.exclude \union {x.timer.driver}
    BY <1>3, <1>5 DEF LeftOut, Offered, Endings, timers
  <2>3. \A e \in Entries(t)' : d \in e.exclude
    BY <1>1, <1>4, <1>5 DEF LeftOut, Entries, Jobs, Working
  <2>4. ASSUME NEW u \in Jobs(t)'
        PROVE  \/ d \in worker'[u].event.exclude
               \/ worker'[u].pc \in {"notified", "marked"} /\ d = worker'[u].driver
    <3>1. CASE u = w
      <4>1. v.pc \notin {"idle", "match", "gone", "stored"} /\ v.event.trip = t
        BY <1>2, <2>4, <3>1 DEF Jobs, Working
      <4> QED
        BY <1>1, <1>2, <1>5, <3>1, <4>1 DEF LeftOut, Messages, Entries, Jobs, Quiet
    <3>2. CASE u # w
      BY <1>2, <1>5, <2>4, <3>2 DEF LeftOut, Jobs, Working
    <3> QED
      BY <3>1, <3>2
  <2> QED
    BY <2>1, <2>2, <2>3, <2>4 DEF LeftOut
<1>6. \A t : Told(t)' = Told(t)
  BY <1>1, ToldStep
<1>7. AskInv'
  <2>1. \A u \in Worker : worker'[u].pc = "picked" =>
                            worker'[u].driver \notin worker'[u].event.exclude
    BY <1>1, <1>2 DEF AskInv
  <2>2. \A t : Offered(t)' = Offered(t)
    BY <1>3 DEF Offered, timers
  <2>3. \A o \in asleep \union fired : o.trip \in Trip
    BY DEF TypeOK, Offer
  <2> QED
    BY <1>3, <1>5, <1>6, <2>1, <2>2, <2>3, NobodyAsked DEF timers
<1> QED
  BY <1>3, <1>6, <1>7 DEF Asked, Offered, Endings, timers

\* The request is published: nobody else is asked, and the driver was not before.
LEMMA AskNotify ==
  ASSUME TypeOK, AskInv, OnceInv, NEW w \in Worker, notifyDriver(w), NEW t, NEW d,
         t = worker[w].event.trip, d = worker[w].driver
  PROVE  /\ AskInv' /\ t \in Trip /\ d \in Driver
         /\ <<t, d>> \notin requested /\ requested' = requested \union {<<t, d>>}
         /\ Asked(t) = {} /\ Asked(t)' = {d}
         /\ \A u \in Trip \ {t} : Asked(u)' = Asked(u)
<1> DEFINE v == [worker[w] EXCEPT !.pc = "notified"]
<1>1. /\ worker[w].pc = "picked" /\ worker' = [worker EXCEPT ![w] = v]
      /\ requested' = requested \union {<<t, d>>}
      /\ UNCHANGED <<inbox, waiting, pending, timers>>
  BY DEF notifyDriver, redis, queue
<1>2. t \in Trip /\ d \in Driver /\ worker[w] \in Job
  BY <1>1, WorkerKinds
<1>3. v.pc = "notified" /\ v.event = worker[w].event /\ v.driver = d
  BY <1>2 DEF Job
<1>4. worker'[w] = v /\ \A u \in Worker \ {w} : worker'[u] = worker[u]
  BY <1>1 DEF TypeOK
<1>5. w \in Jobs(t) /\ Jobs(t) = {w} /\ v.event.trip = t
  BY <1>1, <1>2, <1>3 DEF Jobs, Working, OnceInv, CarriedOnce
<1>6. Messages(t) = {} /\ Entries(t) = {} /\ Offered(t) = {} /\ Endings(t) = {}
  BY <1>2, <1>5 DEF OnceInv, CarriedOnce
<1> HIDE DEF v
<1>7. <<t, d>> \notin requested
  BY <1>1, <1>2, <1>5 DEF AskInv, LeftOut
<1>8. \A u : /\ Messages(u)' = Messages(u) /\ Entries(u)' = Entries(u)
             /\ Offered(u)' = Offered(u) /\ Endings(u)' = Endings(u) /\ Jobs(u)' = Jobs(u)
  BY <1>1, <1>3, <1>4 DEF Messages, Entries, Offered, Endings, Jobs, Working, timers
<1>9. Told(t) = {} /\ Told(t)' = {d}
  <2>1. {u \in Jobs(t) : worker[u].pc \in {"notified", "marked"}} = {}
    BY <1>1, <1>5
  <2>2. {u \in Jobs(t)' : worker'[u].pc \in {"notified", "marked"}} = {w}
    BY <1>3, <1>4, <1>5, <1>8
  <2>3. Told(t) = {worker[u].driver : u \in {}}
    BY <2>1 DEF Told
  <2>4. Told(t)' = {worker'[u].driver : u \in {w}}
    BY <2>2 DEF Told
  <2> QED
    BY <1>3, <1>4, <2>3, <2>4
<1>10. ASSUME NEW u \in Trip \ {t} PROVE Told(u)' = Told(u)
  <2> DEFINE S == {k \in Jobs(u) : worker[k].pc \in {"notified", "marked"}}
  <2>1. w \notin Jobs(u) /\ Jobs(u) \subseteq Worker
    BY DEF Jobs, Working
  <2>2. S' = S /\ \A k \in S : worker'[k].driver = worker[k].driver
    BY <1>4, <1>8, <2>1
  <2>3. Told(u)' = {worker'[k].driver : k \in S'} /\ Told(u) = {worker[k].driver : k \in S}
    BY DEF Told
  <2> HIDE DEF S
  <2> QED
    BY <2>2, <2>3
<1>11. ASSUME NEW u \in Trip, NEW e \in Driver, <<u, e>> \in requested' PROVE LeftOut(u, e)'
  <2>1. ASSUME NEW k \in Jobs(u)'
        PROVE  \/ e \in worker'[k].event.exclude
               \/ worker'[k].pc \in {"notified", "marked"} /\ e = worker'[k].driver
    <3>1. CASE k = w
      <4>1. u = t
        BY <1>3, <1>4, <2>1, <3>1 DEF Jobs
      <4>2. CASE e = d
        BY <1>3, <1>4, <3>1, <4>2
      <4>3. CASE e # d
        <5>1. <<u, e>> \in requested
          BY <1>1, <1>11, <4>3
        <5>2. LeftOut(t, e)
          BY <1>2, <4>1, <5>1 DEF AskInv
        <5>3. e \in worker[w].event.exclude
          BY <1>1, <1>5, <5>2 DEF LeftOut
        <5> QED
          BY <1>3, <1>4, <3>1, <5>3
      <4> QED
        BY <4>2, <4>3
    <3>2. CASE k # w
      <4>0. k \in Jobs(u)
        BY <1>8, <2>1
      <4>1. k \in Jobs(u) /\ k \in Worker /\ u # t
        BY <1>5, <3>2, <4>0 DEF Jobs, Working
      <4>2. LeftOut(u, e)
        BY <1>1, <1>11, <4>1 DEF AskInv
      <4> QED
        BY <1>4, <3>2, <4>1, <4>2 DEF LeftOut
    <3> QED
      BY <3>1, <3>2
  <2>2. CASE u = t
    BY <1>6, <1>8, <2>1, <2>2 DEF LeftOut
  <2>3. CASE u # t
    <3>1. LeftOut(u, e)
      BY <1>1, <1>11, <2>3 DEF AskInv
    <3> QED
      BY <1>8, <2>1, <3>1 DEF LeftOut
  <2> QED
    BY <2>2, <2>3
<1>12. ASSUME NEW o \in asleep \union fired PROVE TimerFits(o)'
  <2>1. o.trip \in Trip /\ TimerFits(o)
    BY DEF TypeOK, Offer, AskInv
  <2>2. o.trip = t => o.driver # d
    BY <1>7, <2>1 DEF TimerFits
  <2> QED
    BY <1>1, <1>8, <1>9, <1>10, <2>1, <2>2 DEF TimerFits
<1>13. AskInv'
  <2>1. \A u \in Worker : worker'[u].pc = "picked" =>
                            worker'[u].driver \notin worker'[u].event.exclude
    BY <1>3, <1>4 DEF AskInv
  <2>2. \A u \in Trip : \A e \in Told(u)' : <<u, e>> \in requested'
    BY <1>1, <1>9, <1>10 DEF AskInv
  <2> QED
    BY <1>1, <1>11, <1>12, <2>1, <2>2 DEF AskInv, timers
<1>14. Asked(t) = {} /\ Asked(t)' = {d}
  BY <1>6, <1>8, <1>9 DEF Asked
<1>15. \A u \in Trip \ {t} : Asked(u)' = Asked(u)
  <2>1. \A u \in Trip \ {t} : {p.driver : p \in Offered(u)}' = {p.driver : p \in Offered(u)}
    BY <1>8
  <2>2. \A u \in Trip \ {t} : {x.timer.driver : x \in Endings(u)}' = {x.timer.driver : x \in Endings(u)}
    BY <1>8
  <2> QED
    BY <1>10, <2>1, <2>2 DEF Asked
<1> QED
  BY <1>1, <1>2, <1>7, <1>13, <1>14, <1>15

\* The mark of the driver who was told changes nothing for the request.
LEMMA AskSetBusy ==
  ASSUME TypeOK, AskInv, NEW w \in Worker, SetBusy(w)
  PROVE  AskInv' /\ \A t \in Trip : Asked(t)' = Asked(t)
<1> DEFINE v == [worker[w] EXCEPT !.pc = "marked"]
<1>1. /\ worker[w].pc = "notified" /\ worker' = [worker EXCEPT ![w] = v]
      /\ UNCHANGED <<inbox, waiting, pending, timers, requested>>
  BY DEF SetBusy, queue, outside
<1>2. worker[w] \in Job
  BY <1>1, WorkerKinds
<1>3. v.pc = "marked" /\ v.event = worker[w].event /\ v.driver = worker[w].driver
  BY <1>2 DEF Job
<1> HIDE DEF v
<1>4. worker'[w] = v /\ \A u \in Worker \ {w} : worker'[u] = worker[u]
  BY <1>1 DEF TypeOK
<1>5. \A t : /\ Messages(t)' = Messages(t) /\ Entries(t)' = Entries(t)
             /\ Offered(t)' = Offered(t) /\ Endings(t)' = Endings(t) /\ Jobs(t)' = Jobs(t)
  BY <1>1, <1>3, <1>4 DEF Messages, Entries, Offered, Endings, Jobs, Working, timers
<1>6. ASSUME NEW t PROVE Told(t)' = Told(t)
  <2> DEFINE S == {u \in Jobs(t) : worker[u].pc \in {"notified", "marked"}}
  <2>1. Jobs(t) \subseteq Worker
    BY DEF Jobs, Working
  <2>2. S' = S /\ \A u \in S : worker'[u].driver = worker[u].driver
    BY <1>1, <1>3, <1>4, <1>5, <2>1
  <2>3. Told(t)' = {worker'[u].driver : u \in S'} /\ Told(t) = {worker[u].driver : u \in S}
    BY DEF Told
  <2> HIDE DEF S
  <2> QED
    BY <2>2, <2>3
<1>7. ASSUME NEW t \in Trip, NEW d \in Driver, LeftOut(t, d) PROVE LeftOut(t, d)'
  <2>1. ASSUME NEW u \in Jobs(t)
        PROVE  \/ d \in worker'[u].event.exclude
               \/ worker'[u].pc \in {"notified", "marked"} /\ d = worker'[u].driver
    <3>1. u \in Worker
      BY DEF Jobs, Working
    <3> QED
      BY <1>1, <1>3, <1>4, <1>7, <3>1 DEF LeftOut
  <2> QED
    BY <1>5, <1>7, <2>1 DEF LeftOut
<1>8. AskInv'
  <2>1. \A u \in Worker : worker'[u].pc = "picked" =>
                            worker'[u].driver \notin worker'[u].event.exclude
    BY <1>3, <1>4 DEF AskInv
  <2>2. \A o \in asleep \union fired : o.trip \in Trip
    BY DEF TypeOK, Offer
  <2> QED
    BY <1>1, <1>5, <1>6, <1>7, <2>1, <2>2, NobodyAsked DEF timers
<1> QED
  BY <1>5, <1>6, <1>8 DEF Asked

\* The offer is made: the request stays with the driver, and no timer of the trip
\* that is still to run out is a former one of this driver.
LEMMA AskSpawn ==
  ASSUME TypeOK, AskInv, OnceInv, NothingRepeated, NEW w \in Worker, spawnTimer(w),
         NEW t, NEW d, NEW X,
         t = worker[w].event.trip, d = worker[w].driver, X = worker[w].event.exclude
  PROVE  AskInv' /\ \A u \in Trip : Asked(u)' = Asked(u)
<1> DEFINE n == [id |-> offers, trip |-> t, driver |-> d, exclude |-> X]
<1>1. /\ worker[w].pc = "marked" /\ EndJob(w, "replay" \in Disturbances)
      /\ UNCHANGED <<waiting, restoring, fired, expiring, requested>>
  BY DEF spawnTimer, redis, queue, outside
<1>2. PICK o : /\ Store(o) /\ asleep' = asleep \union {o}
               /\ o.trip = t /\ o.driver = d /\ o.exclude = X
  <2>1. Store(n) /\ asleep' = asleep \union {n}
    BY DEF spawnTimer
  <2>2. n.trip = t /\ n.driver = d /\ n.exclude = X
    OBVIOUS
  <2> HIDE DEF n
  <2> QED
    BY <2>1, <2>2
<1> HIDE DEF n
<1>3. t \in Trip /\ d \in Driver
  BY <1>1, WorkerKinds
<1>4. inbox' = inbox
  BY <1>1 DEF EndJob, NothingRepeated
<1>5. PICK v : worker' = [worker EXCEPT ![w] = v] /\ v.pc \in {"idle", "match"}
  <2>1. PICK v \in {Idle, [pc |-> "match", todo |-> worker[w].todo]} :
          worker' = [worker EXCEPT ![w] = v]
    BY <1>1 DEF EndJob
  <2>2. v.pc \in {"idle", "match"}
    BY DEF Idle
  <2> QED
    BY <2>1, <2>2
<1>6. worker'[w] = v /\ \A u \in Worker \ {w} : worker'[u] = worker[u]
  BY <1>5 DEF TypeOK
<1>7. w \in Jobs(t) /\ Jobs(t) = {w}
  BY <1>1, <1>3 DEF Jobs, Working, OnceInv, CarriedOnce
<1>8. Messages(t) = {} /\ Entries(t) = {} /\ Offered(t) = {} /\ Endings(t) = {}
  BY <1>3, <1>7 DEF OnceInv, CarriedOnce
<1>9. \A u : Jobs(u)' = Jobs(u) \ {w}
  BY <1>5, <1>6 DEF Jobs, Working
<1>10. \A u : Messages(u)' = Messages(u) /\ Entries(u)' = Entries(u) /\ Endings(u)' = Endings(u)
  BY <1>1, <1>4 DEF Messages, Entries, Endings
<1>11. Offered(t)' = {o} /\ \A u : u # t => Offered(u)' = Offered(u)
  BY <1>1, <1>2, <1>8 DEF Offered, Store, PendingOf
<1>12. Told(t) = {d} /\ Told(t)' = {}
  <2>1. {u \in Jobs(t) : worker[u].pc \in {"notified", "marked"}} = {w}
    BY <1>1, <1>7
  <2>2. {u \in Jobs(t)' : worker'[u].pc \in {"notified", "marked"}} = {}
    BY <1>7, <1>9
  <2>3. Told(t) = {worker[u].driver : u \in {w}}
    BY <2>1 DEF Told
  <2>4. Told(t)' = {worker'[u].driver : u \in {}}
    BY <2>2 DEF Told
  <2> QED
    BY <2>3, <2>4
<1>13. ASSUME NEW u \in Trip \ {t} PROVE Told(u)' = Told(u)
  <2> DEFINE S == {k \in Jobs(u) : worker[k].pc \in {"notified", "marked"}}
  <2>1. w \notin Jobs(u) /\ Jobs(u) \subseteq Worker
    BY DEF Jobs, Working
  <2>2. S' = S /\ \A k \in S : worker'[k].driver = worker[k].driver
    BY <1>6, <1>9, <2>1
  <2>3. Told(u)' = {worker'[k].driver : k \in S'} /\ Told(u) = {worker[k].driver : k \in S}
    BY DEF Told
  <2> HIDE DEF S
  <2> QED
    BY <2>2, <2>3
<1>14. ASSUME NEW u \in Trip, NEW e \in Driver, <<u, e>> \in requested' PROVE LeftOut(u, e)'
  <2>1. LeftOut(u, e)
    BY <1>1, <1>14 DEF AskInv
  <2>2. ASSUME NEW k \in Jobs(u)'
        PROVE  \/ e \in worker'[k].event.exclude
               \/ worker'[k].pc \in {"notified", "marked"} /\ e = worker'[k].driver
    <3>1. k \in Jobs(u) /\ k \in Worker \ {w}
      BY <1>9, <2>2 DEF Jobs, Working
    <3> QED
      BY <1>6, <2>1, <3>1 DEF LeftOut
  <2>3. CASE u = t
    <3>1. e \in X \union {d}
      BY <1>7, <2>1, <2>3 DEF LeftOut
    <3> QED
      BY <1>2, <1>8, <1>10, <1>11, <2>2, <2>3, <3>1 DEF LeftOut
  <2>4. CASE u # t
    BY <1>10, <1>11, <2>1, <2>2, <2>4 DEF LeftOut
  <2> QED
    BY <2>3, <2>4
<1>15. ASSUME NEW p \in asleep \union fired PROVE TimerFits(p)'
  <2>1. p.trip \in Trip /\ TimerFits(p)
    BY DEF TypeOK, Offer, AskInv
  <2>2. p.trip = t => p.driver # d
    BY <1>12, <2>1 DEF TimerFits
  <2> QED
    BY <1>1, <1>2, <1>11, <1>12, <1>13, <2>1, <2>2 DEF TimerFits
<1>16. TimerFits(o)'
  <2>1. <<t, d>> \in requested
    BY <1>3, <1>12 DEF AskInv
  <2> QED
    BY <1>1, <1>2, <1>11, <1>12, <2>1 DEF TimerFits
<1>17. AskInv'
  <2>1. \A u \in Worker : worker'[u].pc = "picked" =>
                            worker'[u].driver \notin worker'[u].event.exclude
    BY <1>5, <1>6 DEF AskInv
  <2>2. \A u \in Trip : \A e \in Told(u)' : <<u, e>> \in requested'
    BY <1>1, <1>12, <1>13 DEF AskInv
  <2>3. asleep' \union fired' = asleep \union fired \union {o}
    BY <1>1, <1>2
  <2> QED
    BY <1>14, <1>15, <1>16, <2>1, <2>2, <2>3 DEF AskInv
<1>18. Asked(t)' = Asked(t)
  BY <1>2, <1>8, <1>10, <1>11, <1>12 DEF Asked
<1>19. ASSUME NEW u \in Trip \ {t} PROVE Asked(u)' = Asked(u)
  <2>1. {p.driver : p \in Offered(u)}' = {p.driver : p \in Offered(u)}
    BY <1>11
  <2>2. {x.timer.driver : x \in Endings(u)}' = {x.timer.driver : x \in Endings(u)}
    BY <1>10
  <2> QED
    BY <1>13, <2>1, <2>2 DEF Asked
<1> QED
  BY <1>17, <1>18, <1>19

\* Every request stays where it is, or that for one trip ends.
AskedKept == \A t \in Trip : Asked(t)' = Asked(t)
AskedEnds == \E t \in Trip : Asked(t)' = {} /\ \A u \in Trip \ {t} : Asked(u)' = Asked(u)

\* A timer fires, takes its driver's offer, or puts another driver's back: the
\* request stays with the driver until the next search is asked for.
LEMMA AskTimer ==
  ASSUME TypeOK, OfferInv, OnceInv, AskInv, NothingRepeated, TimerSteps
  PROVE  AskInv' /\ (AskedKept \/ AskedEnds)
<1>1. /\ UNCHANGED <<worker, requested, waiting>>
      /\ \A t : Jobs(t)' = Jobs(t) /\ Entries(t)' = Entries(t)
  BY DEF TimerSteps, fire, takePending, restore, clearTimedOut, publishRetry, redis, queue,
         goroutines, outside, Jobs, Working, Entries
<1>2. \A t : Told(t)' = Told(t)
  BY <1>1 DEF Told
<1>3. \A o \in asleep \union fired : o.trip \in Trip
  BY DEF TypeOK, Offer
<1>4. \A w \in Worker : worker'[w].pc = "picked" =>
                          worker'[w].driver \notin worker'[w].event.exclude
  BY <1>1 DEF AskInv
<1>5. ASSUME asleep' \union fired' \subseteq asleep \union fired,
             \A t \in Trip : Offered(t)' \subseteq Offered(t),
             \A t \in Trip, d \in Driver : LeftOut(t, d) => LeftOut(t, d)'
      PROVE  AskInv'
  BY <1>1, <1>2, <1>3, <1>4, <1>5, NobodyAsked
<1>6. ASSUME NEW o \in asleep, fire(o) PROVE AskInv' /\ AskedKept
  <2>1. /\ asleep' \union fired' \subseteq asleep \union fired
        /\ UNCHANGED <<pending, restoring, expiring, inbox>>
    BY <1>6 DEF fire
  <2>2. \A t : /\ Messages(t)' = Messages(t) /\ Offered(t)' = Offered(t)
               /\ Endings(t)' = Endings(t)
    BY <2>1 DEF Messages, Offered, Endings
  <2>3. \A t \in Trip, d \in Driver : LeftOut(t, d) => LeftOut(t, d)'
    BY <1>1, <2>2 DEF LeftOut
  <2>4. AskedKept
    BY <1>2, <2>2 DEF AskedKept, Asked
  <2> QED
    BY <1>5, <2>1, <2>2, <2>3, <2>4
<1>7. ASSUME NEW o \in fired, takePending(o) PROVE AskInv' /\ AskedKept
  <2> DEFINE own == {p \in PendingOf(o.trip) : p.driver = o.driver}
             new == {[timer |-> o, taken |-> p, pc |-> "clear"] : p \in own}
  <2>1. /\ fired' = fired \ {o} /\ asleep' = asleep /\ inbox' = inbox
        /\ pending' = pending \ PendingOf(o.trip)
        /\ expiring' = expiring \union new
        /\ restoring' = restoring \union (PendingOf(o.trip) \ own)
    BY <1>7 DEF takePending
  <2>2. /\ own \subseteq pending /\ own \intersect restoring = {}
        /\ \A p \in own : p.trip = o.trip /\ p.driver = o.driver
    BY DEF PendingOf, OfferInv, OfferIsOwnedOnce
  <2>3. (\A x \in new : x.timer = o) /\ (new = {} <=> own = {})
    <3>1. \A x \in new : x.timer = o
      OBVIOUS
    <3>2. \A p \in own : [timer |-> o, taken |-> p, pc |-> "clear"] \in new
      OBVIOUS
    <3>3. \A x \in new : \E p \in own : TRUE
      OBVIOUS
    <3> HIDE DEF own, new
    <3> QED
      BY <3>1, <3>2, <3>3
  <2>4. own \subseteq PendingOf(o.trip) /\ PendingOf(o.trip) \subseteq pending
    BY DEF PendingOf
  <2> HIDE DEF own, new
  <2>5. \A t : Offered(t)' = Offered(t) \ own
    <3>1. pending' \union restoring' = (pending \union restoring) \ own
      BY <2>1, <2>2, <2>4
    <3> QED
      BY <3>1 DEF Offered
  <2>6. \A t : Messages(t)' = Messages(t)
    BY <2>1 DEF Messages
  <2>7. \A t : Endings(t)' = Endings(t) \union (IF t = o.trip THEN new ELSE {})
    BY <2>1, <2>3 DEF Endings
  <2>8. ASSUME NEW t \in Trip, NEW d \in Driver, LeftOut(t, d) PROVE LeftOut(t, d)'
    <3>1. ASSUME NEW x \in Endings(t)' PROVE d \in x.timer.exclude \union {x.timer.driver}
      <4>1. CASE x \in Endings(t)
        BY <2>8, <4>1 DEF LeftOut
      <4>2. CASE t = o.trip /\ x \in new
        <5>1. PICK p \in own : TRUE
          BY <2>3, <4>2
        <5>2. p \in Offered(t) /\ p.driver = o.driver
          BY <2>2, <4>2, <5>1 DEF Offered
        <5>3. p.exclude = o.exclude
          BY <4>2, <5>2 DEF AskInv, TimerFits
        <5> QED
          BY <2>3, <2>8, <4>2, <5>2, <5>3 DEF LeftOut
      <4> QED
        BY <2>7, <3>1, <4>1, <4>2
    <3> QED
      BY <1>1, <2>5, <2>6, <2>8, <3>1 DEF LeftOut
  <2>9. ASSUME NEW t \in Trip PROVE Asked(t)' = Asked(t)
    <3>1. Asked(t)' = Told(t) \union {p.driver : p \in Offered(t) \ own}
                        \union {x.timer.driver : x \in Endings(t)'}
      BY <1>2, <2>5 DEF Asked
    <3>2. CASE t # o.trip
      <4>1. Offered(t) \ own = Offered(t) /\ Endings(t)' = Endings(t)
        BY <2>2, <2>7, <3>2 DEF Offered
      <4> QED
        BY <3>1, <4>1 DEF Asked
    <3>3. CASE t = o.trip
      <4>1. own \subseteq Offered(t) /\ Endings(t)' = Endings(t) \union new
        BY <2>2, <2>7, <3>3 DEF Offered
      <4> QED
        BY <2>2, <2>3, <3>1, <4>1 DEF Asked
    <3> QED
      BY <3>2, <3>3
  <2> QED
    BY <1>5, <2>1, <2>5, <2>8, <2>9 DEF AskedKept
<1>8. ASSUME NEW p \in restoring, restore(p) PROVE AskInv' /\ AskedKept
  <2>1. /\ restoring' = restoring \ {p} /\ Store(p)
        /\ UNCHANGED <<asleep, fired, expiring, inbox>>
    BY <1>8 DEF restore
  <2>2. p.trip \in Trip /\ p \in Offered(p.trip)
    BY DEF TypeOK, Offer, Offered
  <2>3. \A q \in Offered(p.trip) : q = p
    BY <2>2 DEF OnceInv, CarriedOnce
  <2>4. \A t : Offered(t)' = Offered(t)
    BY <2>1, <2>2, <2>3 DEF Offered, Store, PendingOf
  <2>5. \A t : Messages(t)' = Messages(t) /\ Endings(t)' = Endings(t)
    BY <2>1 DEF Messages, Endings
  <2>6. \A t \in Trip, d \in Driver : LeftOut(t, d) => LeftOut(t, d)'
    BY <1>1, <2>4, <2>5 DEF LeftOut
  <2>7. AskedKept
    BY <1>2, <2>4, <2>5 DEF AskedKept, Asked
  <2> QED
    BY <1>5, <2>1, <2>4, <2>6, <2>7
<1>9. ASSUME NEW x \in expiring, clearTimedOut(x) PROVE AskInv' /\ AskedKept
  <2> DEFINE y == [x EXCEPT !.pc = "retry"]
  <2>1. y.timer = x.timer
    BY DEF TypeOK
  <2>2. /\ expiring' = (expiring \ {x}) \union {y}
        /\ UNCHANGED <<pending, asleep, fired, restoring, inbox>>
    BY <1>9 DEF clearTimedOut
  <2> HIDE DEF y
  <2>3. \A t : Messages(t)' = Messages(t) /\ Offered(t)' = Offered(t)
    BY <2>2 DEF Messages, Offered
  <2>4. \A t : /\ \A z \in Endings(t)' : \E u \in Endings(t) : u.timer = z.timer
               /\ \A u \in Endings(t) : \E z \in Endings(t)' : u.timer = z.timer
    BY <2>1, <2>2 DEF Endings
  <2>5. \A t \in Trip, d \in Driver : LeftOut(t, d) => LeftOut(t, d)'
    BY <1>1, <2>3, <2>4 DEF LeftOut
  <2>6. ASSUME NEW t PROVE {z.timer.driver : z \in Endings(t)}' = {z.timer.driver : z \in Endings(t)}
    BY <2>4
  <2>7. AskedKept
    BY <1>2, <2>3, <2>6 DEF AskedKept, Asked
  <2> QED
    BY <1>5, <2>2, <2>3, <2>5, <2>7
<1>10. ASSUME NEW x \in expiring, publishRetry(x) PROVE AskInv' /\ AskedEnds
  <2> DEFINE m == Search(x.timer.trip, x.timer.exclude \union {x.timer.driver})
  <2>1. m.event.trip = x.timer.trip /\ m.event.exclude = x.timer.exclude \union {x.timer.driver}
    BY DEF Search
  <2>2. /\ inbox' = inbox \union {m} /\ expiring' = expiring \ {x}
        /\ asleep' \subseteq asleep /\ UNCHANGED <<pending, fired, restoring>>
    BY <1>10 DEF publishRetry, NothingRepeated, NothingLost
  <2> HIDE DEF m
  <2>3. PICK t \in Trip : t = x.timer.trip
    BY DEF TypeOK, Offer
  <2>4. Endings(t) = {x} /\ Jobs(t) = {} /\ Offered(t) = {}
    BY <2>3 DEF OnceInv, CarriedOnce, Endings
  <2>5. \A u : /\ Offered(u)' = Offered(u) /\ Endings(u)' = Endings(u) \ {x}
               /\ Messages(u)' \subseteq Messages(u) \union (IF u = t THEN {m} ELSE {})
    BY <2>1, <2>2, <2>3 DEF Offered, Endings, Messages
  <2>6. \A u \in Trip, d \in Driver : LeftOut(u, d) => LeftOut(u, d)'
    BY <1>1, <2>1, <2>3, <2>4, <2>5 DEF LeftOut
  <2>7. Asked(t)' = {}
    <3>1. Told(t)' = {}
      BY <1>1, <2>4 DEF Told
    <3> QED
      BY <2>4, <2>5, <3>1 DEF Asked
  <2>8. ASSUME NEW u \in Trip \ {t} PROVE Asked(u)' = Asked(u)
    <3>1. Endings(u)' = Endings(u)
      BY <2>3, <2>5 DEF Endings
    <3> QED
      BY <1>2, <2>5, <3>1 DEF Asked
  <2> QED
    BY <1>5, <2>2, <2>5, <2>6, <2>7, <2>8 DEF AskedEnds
<1> QED
  BY <1>6, <1>7, <1>8, <1>9, <1>10 DEF TimerSteps

\* An answer or a cancellation ends the request; a driver who comes back keeps it.
LEMMA AskOthers ==
  ASSUME TypeOK, OfferInv, OnceInv, AskInv, Consumers \/ Calls
  PROVE  AskInv' /\ (AskedKept \/ AskedEnds)
<1>1. /\ UNCHANGED <<worker, requested, expiring>> /\ inbox' \subseteq inbox
      /\ waiting' \subseteq waiting /\ asleep' \union fired' \subseteq asleep \union fired
  BY DEF Consumers, handleDriverResponse, handleTripCancelled, handleTripCompleted, Committed,
         TakeAndCancel, waitingDelete, Outcomes, Calls, RegisterDriver, RegisterIdle, RegisterExtending,
         RegisterClearing, GoOffline, deleteHash, UpdateLocation, queue, timers, goroutines,
         outside
<1>2. \A t : /\ Jobs(t)' = Jobs(t) /\ Endings(t)' = Endings(t) /\ Told(t)' = Told(t)
             /\ Messages(t)' \subseteq Messages(t) /\ Entries(t)' \subseteq Entries(t)
  BY <1>1 DEF Jobs, Working, Endings, Told, Messages, Entries
<1>3. ASSUME \A t \in Trip : \A p \in Offered(t)' :
               \E q \in Offered(t) : q.driver = p.driver /\ q.exclude = p.exclude
      PROVE  AskInv'
  <2>1. \A t \in Trip, d \in Driver : LeftOut(t, d) => LeftOut(t, d)'
    BY <1>1, <1>2, <1>3 DEF LeftOut
  <2>2. \A o \in asleep \union fired : o.trip \in Trip
    BY DEF TypeOK, Offer
  <2>3. \A w \in Worker : worker'[w].pc = "picked" =>
                            worker'[w].driver \notin worker'[w].event.exclude
    BY <1>1 DEF AskInv
  <2> QED
    BY <1>1, <1>2, <1>3, <2>1, <2>2, <2>3, NobodyAsked
<1>4. ASSUME \A t \in Trip : Offered(t)' = Offered(t) PROVE AskInv' /\ AskedKept
  BY <1>2, <1>3, <1>4 DEF AskedKept, Asked
<1>5. ASSUME NEW m \in inbox,
             handleDriverResponse(m) \/ handleTripCancelled(m) \/ handleTripCompleted(m)
      PROVE  AskInv' /\ (AskedKept \/ AskedEnds)
  <2>1. restoring' = restoring
    BY <1>5 DEF handleDriverResponse, handleTripCancelled, handleTripCompleted, timers
  <2>2. CASE pending' = pending
    BY <1>4, <2>1, <2>2 DEF Offered
  <2>3. CASE m.kind # "search" /\ TakeAndCancel(m.trip) /\ PendingOf(m.trip) # {}
    <3>1. PICK t \in Trip : t = m.trip
      BY <2>3, MessageFields DEF TypeOK
    <3>2. PICK p \in pending : p.trip = t
      BY <2>3, <3>1 DEF PendingOf
    <3>3. /\ Offered(t) = {p} /\ p \notin restoring /\ Jobs(t) = {} /\ Endings(t) = {}
      BY <3>1, <3>2 DEF OnceInv, CarriedOnce, Offered, OfferInv, OfferIsOwnedOnce
    <3>4. pending' = {q \in pending : q.trip # t}
      BY <2>3, <3>1 DEF TakeAndCancel, PendingOf
    <3>5. Offered(t)' = {} /\ \A u \in Trip \ {t} : Offered(u)' = Offered(u)
      BY <2>1, <3>3, <3>4 DEF Offered
    <3>6. Told(t) = {}
      BY <3>3 DEF Told
    <3>7. Asked(t)' = {} /\ \A u \in Trip \ {t} : Asked(u)' = Asked(u)
      BY <1>2, <3>3, <3>5, <3>6 DEF Asked
    <3>8. \A u \in Trip : Offered(u)' \subseteq Offered(u)
      BY <3>5
    <3> QED
      BY <1>3, <3>7, <3>8 DEF AskedEnds
  <2> QED
    BY <1>5, <2>2, <2>3
    DEF handleDriverResponse, handleTripCancelled, handleTripCompleted, TakeAndCancel
<1>6. ASSUME NEW d \in Driver, RegisterExtending(d) PROVE AskInv' /\ AskedKept
  <2>1. PICK p \in PendingOf(busy[d]) : Store([p EXCEPT !.id = offers])
    BY <1>6 DEF RegisterExtending
  <2> DEFINE o == [p EXCEPT !.id = offers]
  <2>2. o.trip = p.trip /\ o.driver = p.driver /\ o.exclude = p.exclude /\ p \in pending
    BY DEF TypeOK, Offer, PendingOf
  <2>3. restoring' = restoring
    BY <1>6 DEF RegisterExtending
  <2> HIDE DEF o
  <2>4. pending' = {q \in pending : q.trip # p.trip} \union {o}
    BY <2>1, <2>2 DEF Store, PendingOf, o
  <2>5. \A q \in pending : q.trip = p.trip => q = p
    BY <2>2 DEF OfferInv, OfferIsOwnedOnce
  <2>6. \A t : /\ \A q \in Offered(t)' :
                    \E r \in Offered(t) : r.driver = q.driver /\ r.exclude = q.exclude
               /\ \A r \in Offered(t) : \E q \in Offered(t)' : r.driver = q.driver
    BY <2>2, <2>3, <2>4, <2>5 DEF Offered
  <2>7. ASSUME NEW t PROVE {q.driver : q \in Offered(t)}' = {q.driver : q \in Offered(t)}
    BY <2>6
  <2>8. AskedKept
    BY <1>2, <2>7 DEF AskedKept, Asked
  <2> QED
    BY <1>3, <2>6, <2>8
<1>7. ASSUME NEW d \in Driver, RegisterClearing(d) PROVE AskInv' /\ AskedKept
  <2>1. \A t \in Trip : Offered(t)' = Offered(t)
    BY <1>7 DEF RegisterClearing, Offered, PendingOf
  <2> QED
    BY <1>4, <2>1
<1>8. ASSUME NEW d \in Driver,
             RegisterIdle(d) \/ GoOffline(d) \/ deleteHash(d) \/ UpdateLocation(d)
      PROVE  AskInv' /\ AskedKept
  <2>1. UNCHANGED <<pending, restoring>>
    BY <1>8 DEF RegisterIdle, GoOffline, deleteHash, UpdateLocation, timers
  <2> QED
    BY <1>4, <2>1 DEF Offered
<1> QED
  BY <1>5, <1>6, <1>7, <1>8 DEF Consumers, Calls, RegisterDriver

\* A trip is created, of which nobody was told; otherwise drivers and riders speak.
LEMMA AskEnvironment ==
  ASSUME TypeOK, CreatedInv, AskInv, NothingRepeated, Environment
  PROVE  /\ AskInv' /\ AskedKept
         /\ \/ \E t \in Trip : /\ phase[t] = "new"
                               /\ phase' = [phase EXCEPT ![t] = "searching"]
            \/ \A t \in Trip : phase'[t] = "new" <=> phase[t] = "new"
<1>1. UNCHANGED <<pending, timers, worker, requested, waiting>>
  BY EnvironmentStep DEF redis, queue, goroutines
<1>2. \A t : /\ Jobs(t)' = Jobs(t) /\ Entries(t)' = Entries(t) /\ Offered(t)' = Offered(t)
             /\ Endings(t)' = Endings(t) /\ Told(t)' = Told(t)
  BY <1>1 DEF Jobs, Working, Entries, Offered, Endings, Told, timers
<1>3. ASSUME \A t \in Trip, d \in Driver : LeftOut(t, d) /\ <<t, d>> \in requested => LeftOut(t, d)'
      PROVE  AskInv'
  <2>1. \A t \in Trip, d \in Driver : <<t, d>> \in requested' => LeftOut(t, d)'
    BY <1>1, <1>3 DEF AskInv
  <2>2. \A o \in asleep' \union fired' : TimerFits(o)'
    BY <1>1, <1>2 DEF AskInv, TimerFits, timers
  <2>3. \A t \in Trip : \A d \in Told(t)' : <<t, d>> \in requested'
    BY <1>1, <1>2 DEF AskInv
  <2>4. \A w \in Worker : worker'[w].pc = "picked" =>
                            worker'[w].driver \notin worker'[w].event.exclude
    BY <1>1 DEF AskInv
  <2> QED
    BY <2>1, <2>2, <2>3, <2>4 DEF AskInv
<1>4. AskedKept
  BY <1>2 DEF AskedKept, Asked
<1>5. ASSUME NEW t \in Trip, CreateTrip(t)
      PROVE  AskInv' /\ phase[t] = "new" /\ phase' = [phase EXCEPT ![t] = "searching"]
  <2> DEFINE m == Search(t, {})
  <2>1. m.kind = "search" /\ m.event.trip = t
    BY DEF Search
  <2>2. inbox' = inbox \union {m}
    BY <1>5 DEF CreateTrip, Send
  <2> HIDE DEF m
  <2>3. \A d \in Driver : <<t, d>> \notin requested
    BY <1>5 DEF CreateTrip, CreatedInv, Named
  <2>4. \A u \in Trip \ {t} : Messages(u)' = Messages(u)
    BY <2>1, <2>2 DEF Messages
  <2>5. \A u \in Trip, d \in Driver : LeftOut(u, d) /\ <<u, d>> \in requested => LeftOut(u, d)'
    BY <1>1, <1>2, <2>3, <2>4 DEF LeftOut
  <2> QED
    BY <1>3, <1>5, <2>5 DEF CreateTrip
<1>6. ASSUME NEW t \in Trip, NEW d \in Driver, DriverAccepts(t, d)
      PROVE  AskInv' /\ \A u \in Trip : phase'[u] = "new" <=> phase[u] = "new"
  <2>1. \A u : Messages(u)' = Messages(u)
    BY <1>6 DEF DriverAccepts, Send, About, Messages
  <2>2. \A u \in Trip, e \in Driver : LeftOut(u, e) /\ <<u, e>> \in requested => LeftOut(u, e)'
    BY <1>1, <1>2, <2>1 DEF LeftOut
  <2>3. \A u \in Trip : phase'[u] = "new" <=> phase[u] = "new"
    BY <1>6 DEF DriverAccepts, TypeOK
  <2> QED
    BY <1>3, <2>2, <2>3
<1>7. ASSUME NEW t \in Trip, TripIsCancelled(t) \/ TripCompletes(t)
      PROVE  AskInv' /\ \A u \in Trip : phase'[u] = "new" <=> phase[u] = "new"
  <2>1. \A u : Messages(u)' = Messages(u)
    BY <1>7 DEF TripIsCancelled, TripCompletes, Send, About, Messages
  <2>2. \A u \in Trip, e \in Driver : LeftOut(u, e) /\ <<u, e>> \in requested => LeftOut(u, e)'
    BY <1>1, <1>2, <2>1 DEF LeftOut
  <2>3. \A u \in Trip : phase'[u] = "new" <=> phase[u] = "new"
    BY <1>7 DEF TripIsCancelled, TripCompletes, TypeOK
  <2> QED
    BY <1>3, <2>2, <2>3
<1> QED
  BY <1>4, <1>5, <1>6, <1>7 DEF Environment, DriverDeclines, NothingRepeated, NothingLost

\* Every step keeps who was asked left out, and is one of the contract's.
LEMMA AskingStep ==
  ASSUME TypeOK, OfferInv, CreatedInv, OnceInv, AskInv, NothingRepeated, [Next]_vars
  PROVE  AskInv' /\ [Asking!Next]_(Asking!vars)
<1> DEFINE opened == {t \in Trip : phase[t] # "new"}
           asked == [t \in Trip |-> Asked(t)]
<1>1. ASSUME AskedKept, requested' = requested, opened' = opened
      PROVE  UNCHANGED Asking!vars
  BY <1>1 DEF AskedKept, Asking!vars
<1>2. ASSUME AskedEnds, requested' = requested, opened' = opened
      PROVE  Asking!Next
  <2>1. PICK t \in Trip : Asked(t)' = {} /\ \A u \in Trip \ {t} : Asked(u)' = Asked(u)
    BY <1>2 DEF AskedEnds
  <2>2. asked' = [asked EXCEPT ![t] = {}]
    BY <2>1
  <2> QED
    BY <1>2, <2>2 DEF Asking!Next, Asking!Release
<1>3. ASSUME phase' = phase PROVE opened' = opened
  BY <1>3
<1>4. CASE TimerSteps \/ Consumers \/ Calls
  <2>1. requested' = requested /\ phase' = phase
    BY <1>4, PhaseKept
    DEF TimerSteps, fire, takePending, restore, clearTimedOut, publishRetry, Consumers,
        handleDriverResponse, handleTripCancelled, handleTripCompleted, Calls, RegisterDriver,
        RegisterIdle, RegisterExtending, RegisterClearing, GoOffline, deleteHash,
        UpdateLocation, outside
  <2>2. AskInv' /\ (AskedKept \/ AskedEnds)
    BY <1>4, AskTimer, AskOthers
  <2> QED
    BY <1>1, <1>2, <1>3, <2>1, <2>2
<1>5. CASE Searches
  <2>0. phase' = phase
    BY <1>5, PhaseKept
  <2>1. ASSUME NEW w \in Worker, Searching(w) \/ SetBusy(w) \/ spawnTimer(w)
        PROVE  AskInv' /\ [Asking!Next]_(Asking!vars)
    <3>1. AskInv' /\ AskedKept
      BY <2>1, AskSearching, AskSetBusy, AskSpawn DEF AskedKept
    <3>2. requested' = requested
      BY <2>1 DEF Searching, handleFindAndNotifyDrivers, startMatching, waitingClaim,
                  TryMatchWaiting, endMatching, storeWaiting, publishNoDriversFound, SetBusy, spawnTimer, outside
    <3> QED
      BY <1>1, <1>3, <2>0, <3>1, <3>2
  <2>2. ASSUME NEW w \in Worker, notifyDriver(w) PROVE AskInv' /\ Asking!Next
    <3>1. PICK t, d : t = worker[w].event.trip /\ d = worker[w].driver
      OBVIOUS
    <3>2. /\ AskInv' /\ t \in Trip /\ d \in Driver
          /\ <<t, d>> \notin requested /\ requested' = requested \union {<<t, d>>}
          /\ Asked(t) = {} /\ Asked(t)' = {d}
          /\ \A u \in Trip \ {t} : Asked(u)' = Asked(u)
      BY <2>2, <3>1, AskNotify
    <3>3. asked' = [asked EXCEPT ![t] = {d}]
      BY <3>2
    <3>4. phase[t] # "new"
      <4>1. w \in Jobs(t)
        BY <2>2, <3>1 DEF notifyDriver, Jobs, Working
      <4> QED
        BY <3>2, <4>1 DEF CreatedInv, Named, Placed
    <3> QED
      BY <1>3, <2>0, <3>2, <3>3, <3>4 DEF Asking!Next, Asking!Ask
  <2>3. ASSUME NEW w \in Worker PROVE ~notifyFails(w)
    BY DEF notifyFails, NothingRepeated, NothingLost
  <2> QED
    BY <1>5, <2>1, <2>2, <2>3 DEF Searches, Goroutine, Searching
<1>6. CASE Environment
  <2>1. requested' = requested
    BY <1>6, EnvironmentStep
  <2>2. CASE \A t \in Trip : phase'[t] = "new" <=> phase[t] = "new"
    BY <1>1, <1>6, <2>1, <2>2, AskEnvironment
  <2>3. CASE \E t \in Trip : phase[t] = "new" /\ phase' = [phase EXCEPT ![t] = "searching"]
    <3>1. PICK t \in Trip : phase[t] = "new" /\ phase' = [phase EXCEPT ![t] = "searching"]
      BY <2>3
    <3>2. t \notin opened /\ opened' = opened \union {t}
      BY <3>1 DEF TypeOK
    <3>3. AskInv' /\ asked' = asked
      BY <1>6, AskEnvironment DEF AskedKept
    <3> QED
      BY <2>1, <3>2, <3>3 DEF Asking!Next, Asking!Open
  <2> QED
    BY <1>6, <2>2, <2>3, AskEnvironment
<1>7. CASE UNCHANGED vars
  <2>1. UNCHANGED <<inbox, waiting, pending, restoring, asleep, fired, expiring, worker,
                    requested, phase>>
    BY <1>7 DEF vars, redis, queue, timers, goroutines, outside
  <2>2. \A t : /\ Messages(t)' = Messages(t) /\ Jobs(t)' = Jobs(t) /\ Entries(t)' = Entries(t)
               /\ Offered(t)' = Offered(t) /\ Endings(t)' = Endings(t) /\ Told(t)' = Told(t)
    BY <2>1 DEF Messages, Jobs, Working, Entries, Offered, Endings, Told
  <2>3. \A t, d : LeftOut(t, d)' <=> LeftOut(t, d)
    BY <2>1, <2>2 DEF LeftOut
  <2>4. AskInv'
    BY <2>1, <2>2, <2>3 DEF AskInv, TimerFits
  <2>5. AskedKept
    BY <2>2 DEF AskedKept, Asked
  <2> QED
    BY <1>1, <1>3, <2>1, <2>4, <2>5
<1> QED
  BY <1>4, <1>5, <1>6, <1>7 DEF Next, Crash, NothingRepeated, NothingLost

\* The searches, offers, timers and answers keep what AskingContract promises the
\* drivers, whoever answers too late, goes offline or comes back, as long as nothing
\* is lost or repeated: one driver is asked at a time, and no driver twice
\* (notifyDriver, startResponseTimer and the exclusions of its retries).
THEOREM Refinement ==
  ASSUME NothingRepeated
  PROVE  Spec => ImplementsAsking
<1>1. Init => AskInv /\ Asking!Init
  <2> SUFFICES ASSUME Init PROVE AskInv /\ Asking!Init
    OBVIOUS
  <2>1. \A t : Jobs(t) = {}
    BY DEF Init, Jobs, Working, Idle
  <2>2. \A t : Told(t) = {}
    BY <2>1 DEF Told
  <2>3. \A t : Asked(t) = {}
    BY <2>2 DEF Init, Asked, Offered, Endings
  <2>4. AskInv
    BY <2>2 DEF Init, AskInv, Idle
  <2> QED
    BY <2>3, <2>4 DEF Init, Asking!Init
<1>2. /\ TypeOK /\ OfferInv /\ CreatedInv /\ OnceInv /\ AskInv /\ [Next]_vars
      => AskInv' /\ [Asking!Next]_(Asking!vars)
  BY AskingStep
<1> QED
  BY <1>1, <1>2, TypeCorrect, OffersNumbered, CreatedHolds, OnceHolds, PTL
  DEF Spec, ImplementsAsking, Asking!Spec
===============================================================================

# Drova in TLA+

Drova is a ride-hailing backend in Go: eight services that talk through Kafka, gRPC,
Redis and PostgreSQL. This directory models the parts of it where several processes,
messages and crashes meet, model-checks them with TLC and proves theorems about them
with TLAPS. Everything is translated from the Go source (paths below are relative to
`src/`); the documents are used only where a run shows that the code differs from them.

* Part 1 is the inventory of the system.
* Part 2 is the plan: what is modelled now, what comes next, what is left out.
* Part 3 describes each model: its correspondence with the code, its runs and bounds.
* Part 4 describes the proofs, Part 5 what the runs found, Part 6 the limits.

To repeat a run: `tlc -config Dispatch_offers.cfg MCDispatch`. To repeat a proof:
`tlapm TripServiceProofs.tla`.

## 1. Inventory

### A ride, from end to end

1. The rider asks the gateway for a fare and starts a trip. **trip-service** stores the
   trip and an outbox row in one transaction; a relay publishes the row as
   `trip.event.created`.
2. **driver-service** searches Redis for a free driver near the pickup, sends that driver
   a request through Kafka and the gateway's WebSocket, marks them busy and starts a
   timer of 15 seconds. A timeout or a decline excludes the driver and starts another
   search; a trip for which nobody is found waits in Redis until a driver is free.
3. The driver accepts: both trip-service (the row gets its driver) and driver-service
   (the timer is cancelled) consume the message.
4. The ride's progress arrives as messages (from the driver's app or the simulator). On
   completion trip-service requests a payment; **payment-service** makes a Stripe session
   and publishes its URL; the rider pays at Stripe; Stripe calls the **api-gateway**'s
   webhook, which publishes the success; payment-service books it, trip-service marks the
   trip as paid.
5. **search-indexer** consumes the trip events into Elasticsearch, **chat-service**
   connects rider and driver, **user-service** holds accounts, sessions and the rate limit.

Every Kafka message passes through **shared/messaging**, which retries a failed message
through three retry topics and ends in a dead letter queue.

### Components

| component | state | operations | interacts through |
|---|---|---|---|
| trip-service: trips | `trips` and `outbox` tables, one search timer per new trip in memory | create, accept, decline, progress, cancel, pay, rate; timeout, sweep, relay | Kafka in and out, gRPC from the gateway |
| trip-service: fares | `ride_fares` table, route cache in Redis | quote, save, validate, re-price a shortened ride | gRPC, Mapbox |
| driver-service: dispatch | drivers, geo set, busy marks and waiting trips in Redis; offers and timers in memory | register, go offline, heartbeat; search, offer, answer, time out, match waiting trips | Kafka in and out, gRPC from the gateway |
| driver-service: simulator | a map from trip to cancel function | start, stop | publishes progress |
| shared/messaging: retry | committed offsets, reader positions | fetch, handle, copy to retry topic, commit, dead letter | every service |
| shared/messaging: connections | map of WebSocket connections per process | add, remove, send | gateway |
| payment-service | `payments` table | make a session, book a payment | Kafka, Stripe |
| api-gateway: webhook | deduplication key in Redis | receive, publish | Stripe, Kafka |
| api-gateway: WebSockets, notifications | sockets, Redis subscriptions | forward commands, push notifications | Kafka, Redis pub/sub |
| api-gateway: HTTP handlers for trips | one circuit breaker per service in memory | preview, start, rate, history, search | gRPC, Elasticsearch |
| api-gateway: auth, limits | tickets, revoked tokens, counters in Redis | issue and use a ticket, check a token, limit | Redis, gRPC |
| user-service: accounts, cache | users and invitations tables, cache in Redis | register, activate, read, update | gRPC, SMTP |
| user-service: sessions | refresh tokens, revocation list in Redis | log in, refresh, log out | HTTP through the gateway, Redis |
| user-service: rate limit | sliding window in Redis | allow | HTTP middleware |
| chat-service | rooms and subscriptions in memory, participants in Redis, messages in MongoDB | open, join, leave, send, mark as read, delete | WebSocket, Redis pub/sub |
| search-indexer | one document per trip in Elasticsearch | index, update | Kafka |
| review-service, schema registry, logging, tracing, frontend, manifests | none of the application | | |

### What is hard about it

* **Messages come again and out of order.** Each topic has a consumer of its own; a
  failed message is committed and returns minutes later from a retry topic; a restart
  repeats what was not committed.
* **Statements are atomic, handlers are not.** Handlers publish after their UPDATE, mark
  a driver after the request is out, set a deduplication key before the publish. Another
  goroutine, or a crash, may come in between.
* **State lives in three places** - PostgreSQL, Redis and the memory of one replica - and
  only the first two survive a restart.
* **Timers race with answers.** A goroutine that has passed its `select` cannot be
  cancelled, and by then the trip may have another offer.
* **Errors are logged and swallowed** at several places (`publishRetry`, `CreatePayment`,
  the refused UPDATE of a completion).

### What makes each component correct

* Trips: one driver at most, for good; the announced driver is the one in the row; the
  outbox agrees with the table; a search that is reported unserved has ended and has no
  driver; every search ends.
* Dispatch: one driver is asked at a time and nobody twice; the search of an open trip is
  carried on by exactly one message, goroutine, listed entry, offer or timer, unless its entry
  has been struck off the list, and only the clean-up of a goroutine that found no entry strikes
  one; an offer belongs to one goroutine; every offer ends; a silent driver is free again.
* Retry: what a service has committed it has handled, or a copy waits for it; no reader passes
  a message by.
* Payment: at most one session per trip reaches the rider; only paid sessions are booked, every
  paid one is, and until then somebody pursues it; the success is published once; the shares are
  covered by the price.
* Sessions: a ticket opens one socket; a revoked token opens none; a browser is not left with
  a refresh cookie that nobody knows; what is cached of an account is what is stored.
* Chat: one room with one subscription per trip, which somebody will close; events once and
  in order; true receipts; a member stays one until replaced.
* Booking: a fare that is shown has its row at the price shown; a trip belongs to the rider who started it and
  costs what was shown; a ride is charged between a tenth and all of it.
* Sockets: a driver is greeted before notices are relayed; a notice that reached the gateway is
  written or its socket closed; of a client that is gone nothing is left.
* Simulator: a ride that drives can be stopped. The search index owes little: its documents
  follow events in any order, and may fall back to an earlier status (Part 3).

## 2. Plan

| order | module | status | what |
|---|---|---|---|
| 1 | `TripContract` | done | abstract specification of a trip as riders and drivers see it |
| 2 | `TripService` | done | the trips table, outbox, timers, sweep and consumers; implements `TripContract` |
| 3 | `TripServiceProofs` | done | types, the inductive invariant, `DriverIsKept`, the refinement |
| 4 | `AskingContract`, `Dispatch` | done | what drivers are promised; driver search, offers, timers, waiting trips, busy marks |
| 5 | `RetryPipeline`, `RetryPipelineProofs` | done | consume, retry, dead letter; at-least-once delivery |
| 6 | `PaymentFlow`, `PaymentFlowProofs` | done | payment-service, webhook, Stripe |
| 7 | `Sessions`, `SessionsProofs` | done | one account and its sessions: registration, login, refresh, logout, the cached user, tickets |
| 8 | `ChatRooms`, `ChatRoomsProofs` | done | the chat of a trip: rooms, subscriptions, handlers, messages, receipts |
| 9 | `Breaker`, `Fares`, `Booking` | done | from a quote to a bill: the gateway's trip handlers, their circuit breaker, fares and their prices |
| 10 | `Sockets` | done | WebSockets that are replaced, and the notices that reach them through Redis |
| 11 | `Simulator` | done | one goroutine per ride and the map of cancel functions |
| 12 | `SearchIndex` | done | the document of a trip under reordered and repeated events |
| 13 | `Ride` | done | what a ride sets in motion: sockets, simulator and index together |
| 14 | `DispatchProofs`, `BookingProofs`, `RideProofs` | done | types and every safety property of their runs; the last properties of `TripService`, `PaymentFlow` and `ChatRooms` |
| 15 | `EventBus` | later | partition keys, once topics have more than one partition |

`TripService` and `Dispatch` instantiate `TripContract` and `AskingContract`; `Booking` extends `Breaker` and
`Fares`; `Ride` extends `Sockets` and instantiates `Simulator` and `SearchIndex` with its own
variables. Each `MC...` module extends the module it checks, each `...Proofs` module the one it is
about. Otherwise the models do not share state: each has its own view of the others.

An abstract specification worth adding: an at-most-once token for `Sessions`.

## 3. The models

All models follow the same rules. One database statement or transaction, Redis command or
script, operation on a `sync.Map`, call to Stripe or publish is one step; anything may
happen between two of them. Where a model groups more into a step, its header says so.
Messages are records that keep what the properties tell apart. What may go wrong is a set
of names or a bound (`Disturbances`, `Faults`, `Flaky`, `MaxFaults`) that a configuration
chooses, so that a property is checked under the widest set it holds for that TLC can finish. Type
invariants, and what follows from the shape of a step, are not repeated in the runs where a theorem
proves them for every instance (Part 4). Definitions marked `Mutant` are plausible mistakes; they are not used
by the specification, and each property is violated when one of them takes the place of
the definition it imitates.

### TripService (services/trip-service)

State: `status`, `driver` and `rated` are the columns of `trips`; `outbox` the unpublished
rows; `timers` the goroutines `runSearchTimeout` of all replicas; `queue` and `running` the
messages not yet consumed and those whose handler is between its UPDATE and its publish;
`log` everything ever published.

| action | code |
|---|---|
| `CreateTrip` | `grpc_handler.go` `CreateTrip`, `postgres.go` `CreateTripWithOutbox` |
| `runSearchTimeout`, `ExpireStaleSearching` | the goroutine in `grpc_handler.go`, the sweep in `postgres.go` |
| `RelayPublish` | `outbox_relay.go`: publish the rows, then commit; the commit may fail. One row at a time: the code takes several by their id and stops at the first it cannot publish, which no property depends on |
| `handleTripAccepted`, `publishAssigned` | `driver_consumer.go`: UPDATE, then publish |
| `handleTripDeclined`, `handleTripCompleted`, `publishCreateSession`, `handleTripCancelled`, `handleStatusUpdate` | `driver_consumer.go`; an UPDATE of a completion that is refused or fails is only logged, and the payment is requested all the same |
| `handlePaymentSuccess` | `payment_consumer.go` |
| `RateTrip` | `postgres.go` |
| `GiveUp`, `Interrupt` | a handler's error; a replica's restart |
| `Environment` | what the gateway, the simulator, drivers and payment-service publish |

`TripContract` states what the service promises without table, outbox, timers or retries.
The refinement maps the phase of a trip to its status, the assignee to `driver_id`, and what
riders were told to the published messages.

| run | shows | bounds |
|---|---|---|
| `TripService_two_drivers` | table, outbox and announcements agree, a rated trip took place, the refinement, and both liveness properties, with drivers who answer, report and cancel in any order | 1 trip, 2 drivers: trips share no row, so one trip and two competing drivers reach every race on a row; `MaxLag` = 1: the environment publishes only when no message waits, while the relay may always add one. The timer, the sweep, the relay and ratings race with the message that waits, and a handler that has updated the row may be interrupted and its message come again, but two drivers' messages do not wait at the same time: they follow each other. With `MaxLag` = 2 all properties hold as well (1.2 million states, too many for a run of every day), and the theorems of Part 4 hold for every lag |

Fairness: the timer of `runSearchTimeout`, the sweep's ticker and the relay's ticker run for
ever on some replica. Nothing else is fair: no message has to be delivered and nobody has to
answer. `SearchEnds` therefore rests on the sweep, since a timer is lost with its replica.

### Dispatch (services/driver-service)

State in Redis: `known`, `online`, `busy`, `waiting`, `listed`. In memory: `pending` (the
`sync.Map` of offers), `asleep` and `fired` (timer goroutines before and after their
`select`), `restoring` (offers taken by mistake that will be put back), `expiring` (timers
that took their offer and clean up), `worker` (searches in progress), `wake`, `leaving`.
The trip service is reduced to `phase` and `assignee`.

| action | code |
|---|---|
| `handleFindAndNotifyDrivers`, `storeWaiting`, `publishNoDriversFound`, `notifyDriver`, `notifyFails`, `SetBusy`, `spawnTimer` | one search, `events/consumer.go`, one action per call |
| `startMatching`, `waitingClaim`, `TryMatchWaiting`, `endMatching` | the goroutine that looks at waiting trips |
| `fire`, `takePending`, `restore`, `clearTimedOut`, `publishRetry` | `startResponseTimer` |
| `handleDriverResponse`, `handleTripCancelled`, `handleTripCompleted` | the consumers |
| `RegisterIdle`, `RegisterExtending`, `RegisterClearing` | `grpc/handler.go` `RegisterDriver` with `ExtendTimerForDriver` and `ClearBusy`; the driver's own offer is taken and stored again in one step, another's in two (`restoring`) |
| `GoOffline`, `deleteHash`, `UpdateLocation` | `service/service.go` |
| `Crash` | a restart of the one replica |

| run | shows | bounds |
|---|---|---|
| `Dispatch_two_trips` | one carrier per search, or none when its entry was struck, and one way only to strike it, with answers in time, early or late and drivers who come back, asked or marked with a trip of before | 2 trips, 2 drivers, 2 goroutines, 2 offers |
| `Dispatch_offers` | no offer has two owners, with declines, reconnects, failed publishes, repeated messages and crashes | 1 trip, 2 drivers: two drivers compete for one trip's entry in the map; 2 offers |
| `Dispatch_one_trip` | `AskingContract` is implemented, every offer ends, a silent driver is free again, also when drivers go offline or answer early or late | 1 trip, 2 drivers, 1 goroutine, 3 offers: the contract is about one trip at a time, and three offers would ask one of two drivers again |

Two trips, two drivers and two goroutines are the least with which two searches choose among
the same drivers; a third adds no new pair. `MaxOffers` bounds how often trips are offered
(two: an offer and its repetition, or one per trip), `MaxWake` the goroutines that wait to look
at waiting trips. `MaxLag` = 1 lets the environment publish only when no message waits; the timers
and the searches that come again may add theirs at any time.

A trip waits when it has an entry *and* is listed: `TryMatchWaiting` visits the trips of the set, and
an entry that is not in the set is looked at by nobody (`Waits`, `Struck`). One interleaving ends there:
a goroutine claims the entry (`GETDEL`), a second one finds none, the first finds no driver and puts
the trip back (SET, SADD), and the second cleans the set up (SREM). The search stops until the trip
times out; `SearchHasOneCarrier` allows for it, and `StruckByCleanUp` says that no other step does it.

`AskingContract` has a trip with at most one driver at a time, and asks no driver twice. The
refinement maps whom a trip is with to the goroutine that has told a driver, the offer (in the map or
being put back) and the timer that has taken one (`Asked`): the request stays with the driver
through all these hands and ends before the next driver is asked. Whom a search leaves out travels
in the messages, waiting entries, offers and the timers' own copies of the event; the contract says
that these copies never fall behind.

Each property is checked under disturbances it tolerates, and proved under all that it tolerates:

| property | does not hold with | because |
|---|---|---|
| `SearchIsCarried` | declines, failed publishes, crashes, failing Redis commands | an answer takes whatever offer the trip has by then; the result of `publishRetry` is ignored; offers and claimed trips are lost with the replica; a `waitingStore` that fails is logged, a `GETDEL` whose reply is lost counts as none found |
| `SearchHasOneCarrier`, `ImplementsAsking` | these, repeated messages | a search that comes again runs next to the first |
| `OfferEnds` | reconnects | an offer that a reconnect extends gets a timer whose context ends with the RPC (`RegisterExtending`); one that is put back may find its own timer gone |
| `SilentDriverIsFreed` | these, failing Redis commands | a `ClearBusy` that fails is logged, and the mark stays |

A reconnect during a ride frees the driver; the reminder sent to a driver who comes back while asked
repeats the request they have. All these steps are in the model (`handleDriverResponse`,
`RegisterExtending`, `RegisterClearing`, `takePending`), and the hazards list in `PROJECT.json`
names them. Failing Redis commands ("redis": `SetBusy`, `ClearBusy`, `waitingStore`, `waitingClaim`,
`waitingDelete` and SREM, each with or without effect) are in no run, as they multiply the states
beyond what a run finishes; the theorems `TypeCorrect` and `OffersHaveOneOwner` cover them.

Fairness: timers fire and goroutines that have begun go on. Drivers, riders and Kafka may
stay away for ever.

### RetryPipeline (shared/messaging/kafka.go)

Level 0 is a topic, 1 to 3 the retry topics, 4 the dead letter queue; each has one partition
(`EnsureTopics`). Per service and level there is a committed offset, a position and a place in
the loop.

| action | code |
|---|---|
| `PublishMessage` | `PublishMessage` |
| `Succeed`, `Fail` | the handler in `consumeLoop` and `consumeRetryLoop` |
| `publishToRetry`, `publishFails` | the copy to the next level, and its failure at each level |
| `CommitMessages` | the cumulative commit |
| `Restart` | positions fall back to the committed offsets |

| run | shows | bounds |
|---|---|---|
| `RetryPipeline_settles` | every message is handled or parked in the dead letter queue, and a service that can write its copies loses nothing, next to one that cannot and that, like search-indexer, starts no retry consumers: its readers come to whatever it has neither handled nor parked, from the committed offsets after a restart and from where they are without one | 2 services, 1 message, 5 failures (four reach the dead letter queue), 1 restart |
| `RetryPipeline_SkippedComesAgain` | finding, see Part 5 | 1 service, 2 messages |

That one message overtakes another, and that the commit of a later one covers it, takes two messages:
TLC has them with one service (the run of Part 5), the theorem `AtLeastOnce` with any number of
services and messages.

Fairness: each reader's loop goes on while there is something to read. The number of failures
and restarts is bounded; a handler that fails for ever still ends in the dead letter queue.

### PaymentFlow (services/payment-service, the gateway's webhook)

State: `requests` and `job` (the consumers of the topic and its retry topics, which run at the
same time), `payments`, `successes`; `session`, `told` and `paid` for Stripe and the rider;
`unacked`, `dedup`, `hook` and `published` for the webhook.

| action | code |
|---|---|
| `handleCreateSession`, `CreatePaymentSession`, `CreateFails`, `Save`, `PublishSession` | `trip_consumer.go` and the Stripe client, one call each; a call or a publish that fails may have taken effect |
| `Commit` | the commit in `consumeLoop`, after the copy for a retry is written |
| `handleSuccess` with `MarkSuccess`, `Fee`, `Payout` | `payment_consumer.go`, `store.go` |
| `Receive`, `PublishSuccess` | `handleStripeWebhook` in `http.go`: SET NX, then publish |
| `Crash`, `GatewayStops`, `Expire` | restarts; the key's expiry |
| `Ask`, `Pay` | trip-service and the rider |

| run | shows | bounds |
|---|---|---|
| `PaymentFlow_retried` | only paid sessions are booked; the rows of what was published are booked unless the message still waits or was given up to the dead letter queue (`dead`); each success is published once; all this although Stripe, statements, publishes and both processes fail, and the rider may get several sessions | 1 trip, 3 sessions, 2 requests, 1 retry topic (a first try and a retry), two webhook calls at a time |
| `PaymentFlow_liveness` | every payment is booked although requests come again and Redis fails or forgets the key; until its success is published, Stripe calls again or a call is about to publish it (`PaidIsPursued`); the rider is told of at most one session per trip | 2 trips, 2 sessions, 2 requests each, 1 retry topic, two webhook calls at a time |

Fairness: consumers and webhook calls in progress go on; Stripe calls the webhook until it is
acknowledged (strong fairness of `Receive` per session, as other sessions' calls may occupy the
gateway in between). Nobody has to ask or to pay.
`OneCheckoutPerTrip` says at most one, not one: when the publish of the URL fails, the retry finds the
row and returns, and the rider is never told (Part 5). It does not hold when the query or the INSERT
behind the guard fails, nor when a request that failed at Stripe is repeated as well: its retry and its
repetition pass the guard of `handleCreateSession` at the same time. Part 4 has the two conditions under
which it is proved; the run has repeated requests and redelivered messages. `PaidIsBooked` is about the
payments that have a row: a failed INSERT is logged, the rider is asked to pay a session without one,
and its booking finds nothing. `PaidIsPursued` and `PaymentsAreBooked` are checked without failing publishes and
restarts: behind the deduplication key either leaves a payment whose next call is a duplicate.

### Sessions (services/user-service, the gateway's authentication, frontend/index.html)

One user with several tabs of one browser, since no key is shared between users. State: `account`,
`invitation` and `activation` for the tables; `cached` and `reading` for the cache and the reads that
will fill it; `refresh`, `revoked` and `tickets` for Redis; `tab` with each tab's token and its
request in progress, `jar` with the cookie they share; `granting`, `upgrading`, `sockets` for the
gateway.

| action | code |
|---|---|
| `Register`, `Invite`, `SendActivation`, `Activate`, `FinishActivation` | `service.go`, `users.go`, `invitations.go`, `mailer.go`, one statement each |
| `GetByID`, `StoreRead`, `UpdateProfile` | the read through the cache and what deletes from it |
| `Login`, `Validate`, `Rotate`, `DeleteOld`, `Revoke`, `DeleteCookie` | `handleCreateToken`, `handleRefreshToken`, `handleLogout`, one Redis command each |
| `SendRefresh`, `LogOut`, `Receive` | the page, which shares the cookie between tabs |
| `AskTicket`, `handleWsTicket`, `TakeTicket`, `Open` | `requireAuth`, `handleWsTicket`, `resolveWSAuth` |
| `Lose`, `ExpireToken`, `ExpireCookie`, `ExpireTicket`, `ExpireInvitation`, `ExpireCached` | requests cut off, and time |

| run | shows | bounds |
|---|---|---|
| `Sessions_tabs` | tickets, revoked tokens, cookies and the cache | 2 tabs, 2 access tokens, 3 cookies (that of an earlier visit and two rotations), 1 ticket, 1 failure |

Two tabs are enough for two refreshes, or a refresh and a logout, to race with one cookie. A write
that fails may have taken effect or not. A token expires only while a tab has it and a cookie only
while no request carries it (no request runs for seven days); both leave out orders without an
effect. `CookieIsValid` allows the one case the code cannot exclude: a cookie was deleted and the
answer that replaces it was lost (`dead`). What is not claimed, because it does not hold: that a
logout with an expired token ends the session (it is refused and the cookie stays), that the answer
of a slow tab does not clear the newer cookie of another, and that a failed `Invite` leaves an
account that can be activated. The cache keeps no profile, so a profile that is read from it is
empty; the model keeps of the cached user what the cache keeps. A chat's upgrade takes the same
tickets without a look at the revoked tokens; `RevokedOpensNothing` is about the gateway's.

### ChatRooms (services/chat-service, the gateway's record of participants)

One trip, since trips share nothing but the manager's lock. State: `participants` in Redis; `store`
in MongoDB; `published` the events of the trip's channel; `room`, `cancelled`, `members` for the
`RoomManager` and its rooms; `sub`, `inbox`, `missed` for each room's subscription; `pc`, `joined`,
`target`, `job` for the handler of each connection; `lost`, `history`, `seen` for its client. A room
is named after the connection that made it.

| action | code |
|---|---|
| `handleNotification`, `Open` | `notification_consumer.go` records who takes part, `handleChat` asks for it |
| `Join`, `join`, `Leave`, `leave`, `isEmpty`, `CloseRoom` | `manager.go`, one critical section each |
| `Subscribe`, `broadcast`, `Unsubscribe` | the goroutine `subscribeRoom` |
| `GetMessages`, `Send`, `MarkAllRead`, `SoftDelete`, `Publish` | `handleChat` with `store.go`, one statement or publish each |
| `WritesCollide` | the history is written without the lock under which broadcasts write to the same socket |
| `Lose`, `Restart` | a client that is gone; the replica |

| run | shows | bounds |
|---|---|---|
| `ChatRooms_reconnect` | rooms, order, receipts and membership | 3 connections of 2 roles, so that one participant comes back, before or after the old socket is noticed to be gone; 1 message, 2 events (the message and its receipt or deletion), 1 failure |

A statement of MongoDB that took effect and returned an error, after which no event is published, is left
out (`Send`, `MarkAllRead`, `SoftDelete`): no property depends on it. Three connections are the least with which a room is replaced while another is left: its maker, the
participant who leaves and the one who joins. What is not claimed: a participant who joins a room
that has been found empty is in a room without a subscription and hears nothing, and so does one
whose entry was removed by the end of the connection they replaced; `MemberUnlessReplaced` and
`LiveInOrder` say how far that goes. Names, the limit of 50 messages and the authentication, which
`Sessions` has, are left out.

### Booking, with Breaker and Fares (services/api-gateway/http.go, services/trip-service)

State: `breaker` is `TripBreaker`; `calls` each rider's request on its way through the gateway and the
trip service; `fares` and `trips` are the tables; `billed` what the payment service was asked for;
`shown` and `told` what the browser and the riders know. `Breaker` gives the rules of the library as
`breakers.go` sets it up, with a mark on calls of the current generation in place of its number;
`Fares` gives prices in exact arithmetic over whole metres, seconds and cents.

| action | code |
|---|---|
| `handleTripPreview`, `handleTripStart`, `handleTripRate`, `handleTripHistory`, `Return` | `http.go`: `Execute` admits the request, and counts how it ends |
| `GetRoute`, `SaveRideFare`, `GenerateTripFares` | `PreviewTrip` and `service.go`: Mapbox, the parallel INSERTs, `g.Wait` |
| `GetAndValidateFare`, `CreateTrip` | the SELECT with its checks, then the transaction |
| `RateTrip`, `GetTripsByUser` | one statement each; the history of drivers alike |
| `Disconnect`, `Leave` | the connection to the trip service; the rider's request. Both end the trip service's work on it as well, which in the code may still insert a row that nobody is told of |
| `Elapse`, `Expire` | the breaker's interval and timeout; the five minutes of a fare |
| `handleTripCompleted` | `driver_consumer.go`, of which only the amount is kept here, once per trip: a repetition asks for an amount within the same bounds |

| run | shows | bounds |
|---|---|---|
| `Booking_quotes` | what is shown is stored at the price shown, whatever INSERT fails; a trip somebody is told of is theirs, for a fare the browser was shown, at its price; a bill stays between a tenth and all of it | 2 riders who share a browser, 2 packages (so that one INSERT fails while the other goes on), 1 quote, 2 trips from it, 1 failure; a ride below a tenth of its route, one just short of 95 %, one whose end is not known; a breaker that opens after 2 failures and closes after 1 success |

`shown` keeps each fare with its rider and the price in the preview's answer, which is computed from
the route and not read from the row. One quote is enough: fares of different quotes never meet. `Breaker`
is the library's behaviour in full, more than these properties need: it decides only which requests
enter. The breaker's thresholds of 10 and 3 are
constants, since only their order matters to the steps in between. The rounding of prices is checked
at a route whose price is no whole number of cents. What is not claimed, because it does not hold: a
fare makes one trip (it is not used up, and a start whose answer was lost is repeated), a trip the
rider was not told of does not exist, and the rider's own mistakes do not open the breaker (see
Part 5). The cache of routes decides only which of its possible answers a preview gets.

### Sockets, Simulator, SearchIndex and Ride

`Sockets` (`ws.go`, `connection_manager.go`, `notification_consumer.go`) has one rider and one driver
with numbered connections. State: `role`, `peer`, `open` for each socket; `pc`, `target`, `greeted`
for its handler; `sub`, `tuned`, `inbox` for its subscriber and subscription; `entry` and `added` for
the connection managers; `jammed` for mutexes nobody unlocks again.

| action | code |
|---|---|
| `Upgrade`, `RegisterDriver`, `Add`, `Find`, `BeginGreeting`, `EndGreeting` | `handleDriversWebSocket` up to the subscriber; a rider has `Upgrade` and `Add` only |
| `Location`, `CommandFails`, `BeginError`, `EndError` | the read loop and `sendWSError` |
| `ReadFails`, `Remove`, `Close` | the deadline of 35 seconds, and the deferred calls in their order |
| `Subscribe`, `BeginWrite`, `EndWrite`, `Cancelled`, `EndSubscriber` | `subscribeUserWS` and the goroutine around it |
| `Publish` | `handleNotification` and the simulator |
| `Leave`, `Detune`, `Restart`, `WritesCollide` | a client that goes, Redis, the gateway's process, and two writes at once, on which the WebSocket library panics |

`Simulator` (`sim/simulator.go`) has the map `active`, and `drives`, `leg`, `stopped` for the
goroutines. `Start`, `Stop` and the deferred `Delete` (`Leave`) are one operation on the map each;
`Advance` ends a leg and reports, also when the goroutine was stopped and its timer won the `select`.
`SearchIndex` (`indexer/consumer.go`, `es.go`) has `docs` and the `events` not yet committed, in no
order since each type has its own topic; `IndexTrip` replaces a document, `UpdateTrip` merges into it.
`Stop` takes the entry and cancels in one step. The search of a rider's trips (`handleTripSearch`)
reads the 50 newest documents, by the time they were indexed; it changes nothing and is left out, and no
property is stated of the index: its status may fall back, and what is left would restate one statement.

`Ride` joins them: `Search` and `Cancel` are events for the index, `Accept` starts a simulation,
`StopRide` ends it, `Drive` publishes its completion. Of the sockets the rest sees nothing but
notices, which are counted there and come at any time. Its variable `scene` therefore lets either the
sockets move or the trips, chosen in the initial state: this leaves out interleavings of steps that do
not see each other, and nothing else.

| run | shows | bounds |
|---|---|---|
| `Ride_reconnect` | a driver's socket relays only after it was greeted, unless replaced; writes collide only when the older connection's handler greets the newer socket; delivered notices are written or the socket is closed; of a client that is gone nothing stays; a ride that drives can be stopped, unless another took its place in the map | 2 connections, of either role: one and its replacement; 1 notice, 1 failure; 1 trip, driven 3 times: one ride stopped, one whose entry it deletes, and one after that |

Fairness: handlers and subscribers go on. Nobody has to connect, leave or send, Redis has to deliver
nothing, and trips and indexer owe nothing. What is not claimed, because it does not hold: that a
replaced connection's end spares its successor's entry (`Remove` deletes whatever is there); that an
older, slower connection is not added after the newer one and greets the wrong socket; that no notice
is lost; that a stopped ride reports nothing more; that the index shows the latest status, since a
repeated creation resets it. Without Redis the gateway falls back to the sockets of its own process;
that path is left out.

## 4. Proofs

Proved by TLAPS for every value of the constants, from the named assumptions of the
modules (`NoDriver` is no driver, `None` is no session, bounds are naturals, and the like).

| theorem | argument |
|---|---|
| `TripServiceProofs!TypeCorrect` | one step per action |
| `OutboxAgrees`, `AnnouncedIsAssigned`, `UnservedIsDriverless` | `IInv` of `TripService` is inductive. None of the parts is inductive alone: an announcement is safe because a half-handled acceptance is the row's driver's (`HalfAcceptedTripIsTheirs`), and stays so because a driver is only written while the status is "searching", when there is none (`DriverMatchesStatus`) |
| `RatedIsFinished` | also a part of `IInv`: no statement takes a trip back to a status that could not be rated |
| `DriverStays` | an action property from the same invariant |
| `Refinement` | every step of `TripService` is one of `TripContract` or a stutter; the invariant supplies the guards of `Announce` and `ReportUnserved` |
| `DispatchProofs!TypeCorrect` | one step per action, grouped by who acts: goroutines, timers, consumers, calls |
| `OffersHaveOneOwner` | `OfferInv`: every offer that is held has a number below the next one, so that a new offer is not yet held by anybody, and taking one is moving it |
| `SearchesGoOn` | nobody speaks of a trip before it was created, and whoever ends a search has told the trip service before (`CreatedInv`); a step that gives up one place of a search's hands it to another, or strikes it off the list (`Placed`) |
| `OneCarrier` | `OnceInv`: a trip is in one of the five places only, so that each step either hands its search from one to the next or ends it (`Handed`) |
| `OnlyCleanUpStrikes` | an action property from `OnceInv`: who puts a trip back lists it, and who takes it off after a claim has the search in hand |
| `DispatchProofs!Refinement` | `AskInv`: every place that carries a search leaves out, or holds, each driver who was asked (`LeftOut`); a timer that may still run out names a driver asked before and excludes whom that driver's offer excludes (`TimerFits`). With `OnceInv` each step is an `Ask`, a `Release`, an `Open` or a stutter |
| `RetryPipelineProofs!TypeCorrect` | with `committed < position` while a failed message is in hand |
| `AtLeastOnce` | `PassedOn`: whatever a reader whose service can write its copies has passed was handled or is on the next level. Followed from level to level it says what a reader still comes to from where it is (`ReadersMeetAll`), and hence from its commits, as no reader commits what it has not passed (`RestartedMeetAll`) |
| `PaymentFlowProofs!TypeCorrect` | with "a job that saves or publishes has a session" |
| `OnlyPaidIsMarked` | successes, keys, hooks and unacknowledged webhooks are only of paid sessions |
| `SharesCovered` | arithmetic on the two roundings |
| `OneCheckout` | if calls to Stripe and statements succeed, only the topic's consumer charges, and a trip whose request is retried or done has its row (`OneAtATime`); every session told has a row, and a trip has one (`Traced`) |
| `OneCheckoutWhenRetried` | if a message comes again only when it failed, `LoneInv`: a trip's request is in one place - waiting in one topic, with one consumer, or answered - and once a session was told, perhaps by a publish that returned an error, the trip has a row at which the retry stops |
| `HandledIsBooked` | `BookInv`: jobs that have made a session have one each, nobody is told of it before its row was tried, and only sessions that were told are paid |
| `SuccessOnce` | if Redis answers and keys do not expire, a webhook call that will publish holds the session's key, and so only one does (`Claimed`) |
| `PaymentsArePursued` | if publishes succeed and the processes stay, `PursuedInv`: whoever holds a key is published or will be, and so an acknowledged duplicate loses nothing |
| `SessionsProofs!TypeCorrect` | one step per action |
| `OneSocketPerTicket` | `TicketInv`: a ticket is being stored, stored, taken or used, and in one of these places only |
| `LogoutClosesTickets` | `RevokedInv`: tokens stay revoked, so that what is noted when a ticket is taken still holds when it is checked |
| `CacheAgrees` | `AccountInv`: whoever has a token has an activated account, and only they fill the cache |
| `BrowserKeepsItsSession` | `CookieInv`: a new cookie is stored and known to one tab only until it is received, so that no other request deletes it |
| `ChatRoomsProofs!TypeCorrect` | store and events only grow, so that what points into them stays in range |
| `NeverTwoRooms`, `EveryRoomIsLeft` | `RoomInv`: nobody knows of the room a connection that has not joined yet may make; a member of the room in the map is in its handler or about to leave that very room. The second part is why a room that is found not to be empty may be left to its members |
| `ReceiptsAreTrue` | `ReceiptInv`: a receipt is true when it is made, and messages stay read or deleted |
| `MembersStay` | from `RoomInv`: whoever leaves or replaces has joined |
| `ClientsAreSentInOrder` | `FeedInv`: a subscription receives events in order and notes what it misses, and what a client was sent came before what still waits for its room |
| `BookingProofs!TypeCorrect` | the gateway's call and the trip service's fit together (`CallOK`); amounts by `RepriceBounds`, the arithmetic of the integer division |
| `ShownFaresAreStored` | `OpenQuotes`: a quote belongs to one preview, and a fare is stored exactly by its INSERT, for the rider and at the price that the preview computes (`Stored`); the preview answers only when all of them succeeded |
| `ToldTripsAreTheirs` | `Booked`: a trip has the rider and the price of a fare that was shown and then validated for its rider; `ShownIsStored` makes that the price shown, and fares do not change |
| `BillsStayWithinPrices` | from `Booked` and `RepriceBounds` |
| `RideProofs!TypeCorrect` | with a bound on what waits for a socket (`InboxIsBounded`) |
| `GreetedFirst`, `OnlyOlderGreetingsCollide` | `SocketInv`: the entry of a user is the connection added last; a handler finds its own or a later one, and so greets none that is older (`Order`) |
| `RidesCanBeStopped` | `SimInv`: an entry is the latest run's, and a run that nobody stopped has its entry, unless one before it was stopped and deleted the entry when it ended |

TLC checks the properties that are proved on a small instance as well. Left to the proofs alone are the
type invariants, `DriverIsKept`, the arithmetic of `SharesCovered`, and `SearchIsCarried`: without repeated messages
`SearchHasOneCarrier` says more, and with them it is what remains. `AtLeastOnce` is about the
services that start their retry consumers and can write their copies, whatever the others do
(`Reliable`, the sets are parameters). `OneCheckout` assumes in its statement that calls to Stripe and
statements succeed (`RowsAreSaved`): requests are repeated and redelivered, publishes fail with or
without effect, and the service restarts between any two steps. `OneCheckoutWhenRetried` assumes that the
payment is asked for once, statements succeed and a message comes again only when it failed
(`AskedOnce`): calls to Stripe and publishes fail, with or without effect. Both sets of faults together
are not tolerated, as Part 3 says. `SuccessOnce` assumes that Redis neither fails nor
forgets the key (`KeysHold`), `PaymentsArePursued` that publishes succeed and processes stay
(`CallsEnd`). `SearchesGoOn` assumes that there are no declines, failed publishes, failing Redis commands
and crashes (`NothingLost`), `OneCarrier`, `OnlyCleanUpStrikes` and `Refinement` of `Dispatch` also that no
message comes again (`NothingRepeated`); the table in Part 3 says why. No other
theorem restricts the faults: they hold under any `Disturbances`, `Faults`, `Flaky` and bounds.

Every safety property of a passing run is proved. Only model-checked are the liveness properties
(`SearchEnds`, `OutboxIsPublished`, `OfferEnds`, `SilentDriverIsFreed`, `EveryMessageSettles`,
`PaymentsAreBooked`, `NoticeIsWrittenOrClosed`, `GoneIsForgotten`), since fairness and `ENABLED` are
out of this prover's reach, and the violated `SkippedComesAgain`. The models use no recursion over
data whose result would have to be proved by induction.

## 5. What the runs found

`RetryPipeline_SkippedComesAgain` is the one run that is to be violated. `consumeRetryLoop` says
"skipping commit" when the copy of a failed retry could not be written, and
`docs/kafka-deep-dive.md` says that a message that was not committed is delivered again. But the
reader goes on to the next message, whose commit covers the skipped one: it is neither handled,
nor on the next level, nor read again. `NothingIsLost` therefore is about services whose copies
can be written.

Other differences between comments and code were met while modelling. The models do what the code does,
and the properties are stated so that they hold of it:

* `trip_consumer.go` (43-44) says of a request whose trip has a session already "republish the checkout
  URL so the rider still gets it"; the code logs and returns (45-48). When the publish of the URL has
  failed, the retry ends there and the rider is told of no session, though the trip is to be charged
  (`handleCreateSession`, `PublishSession`). `OneCheckoutPerTrip` therefore says at most one.
* `events/consumer.go` of the driver service (174-175) says that `ExtendTimerForDriver` extends the timer of
  a driver who comes back; the new timer's context is a child of the gRPC call's (`RegisterDriver` in
  `grpc/handler.go`, 38, and 191), which ends when the call returns, and the timer with it, without any
  clean-up. Such an offer is ended by an answer or a cancellation only (`RegisterExtending`; `OfferEnds`
  does not hold with reconnects).
* The same file says "clean up set" (325) of a trip without an entry, and so takes off the list a trip that
  another goroutine has put back since (333): its search stops until the trip's own timeout
  (`TryMatchWaiting`; `StruckByCleanUp`).
* `ws.go` (45-46) asks that the mutex of a subscriber is the one under which everybody writes, but the
  greeting is written under the connection manager's (`WritesCollide`; `CollidesOnlyWhenReplacing` says
  when).
* `breakers.go` (17-18) says that business errors should not trip the breaker, but of the five handlers
  only `handleTripPreview` filters them (`Fails`): an expired fare that is tried ten times in a row, or
  ten ratings of an unfinished trip, refuse everybody for five seconds.

For other steps that surprised us we found no statement of the repository that they contradict. They are
in the models as well, and Part 3 and the hazards in `PROJECT.json` name them.

## 6. Limits

* PostgreSQL, Redis, Kafka and Stripe are modelled by what the code uses of them: atomic
  statements and scripts, a log with cumulative commits, a session with an id.
* Positions, names and all formatting are left out. Prices are exact where the code computes with
  floating point and rounds; the models do not say what the last bit of a product may do to a cent.
* Times are left out: a timer may fire at any moment after it was started. The orders that
  constants such as 15 seconds or 10 minutes would exclude are named where they matter
  (an expiring waiting entry in `Dispatch`).
* `Ride` composes sockets, simulator and index; the other models have their own view of the others as
  their environment.
* Components listed as `not_modelled` in `PROJECT.json` have a note each: a stub, a single
  atomic script, pure encoding, or observability.

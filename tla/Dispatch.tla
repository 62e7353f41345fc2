------------------------------- MODULE Dispatch -------------------------------
(***************************************************************************)
(* services/driver-service: which driver is offered which trip.  Drivers   *)
(* and waiting trips live in Redis, the offer a driver has 15 seconds to   *)
(* answer lives in the memory of the one replica (the map "pending"), each *)
(* with a timer goroutine.  Searches run concurrently: one goroutine per   *)
(* topic and retry topic, one per driver who registers or is freed.        *)
(*                                                                         *)
(* In a search, a timer and GoOffline a Redis command, an operation on the *)
(* sync.Map and a Kafka publish are one step each, and anything may happen *)
(* between two of them; the reads of FindAvailableDrivers are one step,    *)
(* and so are a last publish and the commit that follows it.               *)
(* The short handlers of answers, cancellations and completions and        *)
(* RegisterDriver are one step each, but for an offer a reconnect puts     *)
(* back.  A search times out before a waiting trip expires (10 minutes),   *)
(* so expiry is left out.  The trip service is the environment, reduced    *)
(* to which trips are open.                                                *)
(***************************************************************************)
EXTENDS Naturals, FiniteSets

CONSTANTS
  Trip, Driver,
  None,         \* no driver, no trip
  Worker,       \* goroutines that may search at one time
  Disturbances, \* what may go wrong besides a driver who does not answer
  MaxOffers,    \* bound on the offers made
  MaxWake,      \* bound on the goroutines that wait to look at the waiting trips
  MaxLag        \* trips, riders and drivers send only while fewer messages wait

AllDisturbances ==
  {"offline",    \* a driver goes offline or loses the connection
   "decline",    \* a driver declines
   "stray",      \* a driver answers too early or too late
   "reconnect",  \* a driver registers while marked busy
   "replay",     \* a handled message comes again
   "broker",     \* a publish fails
   "redis",      \* a command about waiting trips or busy marks fails
   "crash"}      \* the replica restarts

ASSUME NoneAssumption == None \notin Trip \union Driver
ASSUME DisturbancesAssumption == Disturbances \subseteq AllDisturbances
ASSUME BoundsAssumption == MaxOffers \in Nat /\ MaxWake \in Nat /\ MaxLag \in Nat

VARIABLES
  \* Redis
  known,     \* drivers with a hash (name, package)
  online,    \* drivers in the geo set whose heartbeat is alive
  busy,      \* the busy field: the trip a driver is marked with, or None
  waiting,   \* drv:waiting:<trip>: events of trips for which no driver was found
  listed,    \* drv:waiting:pkg:<package>: the trips a matching goroutine looks at
  \* memory of the replica
  pending,   \* offers that wait for an answer, at most one per trip
  asleep,    \* offers whose timer goroutine waits
  fired,     \* offers whose timer has passed its select
  restoring, \* offers a timer or a reconnect took by mistake and will put back
  expiring,  \* timers that took an offer and clean up
  worker,    \* the searches in progress
  wake,      \* goroutines that will look at the waiting trips
  leaving,   \* idle drivers whose hash GoOffline or a search is about to delete
  offers,    \* number of offers made so far
  \* the outside
  inbox,     \* Kafka messages not yet committed
  requested, \* pairs <<t, d>>: d was asked to take t
  phase,     \* trip service: "new", "searching", "taken", "over"
  assignee   \* trip service: whose accept was first, or None

queue == <<waiting, listed>>
redis == <<known, online, busy, queue>>
timers == <<asleep, fired, restoring, expiring>>
goroutines == <<worker, wake, leaving>>
outside == <<requested, phase, assignee>>
vars == <<redis, pending, timers, goroutines, offers, inbox, outside>>

-----------------------------------------------------------------------------

\* TripCreatedEvent: a trip to be offered, and whom not to ask.
Event == [trip : Trip, exclude : SUBSET Driver]
Offer == [id : Nat, trip : Trip, driver : Driver, exclude : SUBSET Driver]

Search(t, X) == [kind |-> "search", event |-> [trip |-> t, exclude |-> X]]
About(k, t, d) == [kind |-> k, trip |-> t, driver |-> d]

Message ==
  [kind : {"search"}, event : Event]
    \union [kind : {"accept", "decline", "completed"}, trip : Trip, driver : Driver]
    \union [kind : {"cancelled"}, trip : Trip, driver : Driver \union {None}]

\* A search: "none" and "picked" follow FindAvailableDrivers, the rest one
\* call each.  A matching goroutine goes through the trips it has listed, and
\* has "claimed" each or found its entry "gone".
Idle == [pc |-> "idle"]
Matching == [pc : {"match"}, todo : SUBSET Trip]
              \union [pc : {"gone"}, trip : Trip, todo : SUBSET Trip]
Job ==
  [pc : {"claimed", "none", "stored"}, driver : {None}, event : Event,
   from : {"kafka", "waiting"}, todo : SUBSET Trip]
    \union [pc : {"picked", "notified", "marked"}, driver : Driver, event : Event,
            from : {"kafka", "waiting"}, todo : SUBSET Trip]
Stored == {w \in Worker : worker[w].pc = "stored"}
Working == {w \in Worker : worker[w].pc \notin {"idle", "match", "gone", "stored"}}

TypeOK ==
  /\ known \subseteq Driver
  /\ online \subseteq Driver
  /\ busy \in [Driver -> Trip \union {None}]
  /\ waiting \subseteq Event
  /\ listed \subseteq Trip
  /\ pending \subseteq Offer
  /\ asleep \subseteq Offer
  /\ fired \subseteq Offer
  /\ restoring \subseteq Offer
  /\ expiring \subseteq [timer : Offer, taken : Offer, pc : {"clear", "retry"}]
  /\ worker \in [Worker -> {Idle} \union Matching \union Job]
  /\ wake \in Nat
  /\ leaving \subseteq Driver
  /\ offers \in Nat
  /\ inbox \subseteq Message
  /\ requested \subseteq Trip \X Driver
  /\ phase \in [Trip -> {"new", "searching", "taken", "over"}]
  /\ assignee \in [Trip -> Driver \union {None}]
  /\ \A t \in Trip : phase[t] = "taken" => assignee[t] \in Driver

Init ==
  /\ known = {} /\ online = {} /\ leaving = {}
  /\ busy = [d \in Driver |-> None]
  /\ waiting = {} /\ listed = {} /\ pending = {}
  /\ asleep = {} /\ fired = {} /\ restoring = {} /\ expiring = {}
  /\ worker = [w \in Worker |-> Idle]
  /\ wake = 0 /\ offers = 0
  /\ inbox = {} /\ requested = {}
  /\ phase = [t \in Trip |-> "new"]
  /\ assignee = [t \in Trip |-> None]

-----------------------------------------------------------------------------
(* Redis and the map *)

\* The failures of these commands are logged or ignored.
Outcomes(done, failed) ==
  {done} \union (IF "redis" \in Disturbances THEN {failed} ELSE {})

\* ClearBusy's script: only a driver still marked with this trip is freed.
ClearBusy(d, t) ==
  busy' \in Outcomes(IF d # None /\ busy[d] = t THEN [busy EXCEPT ![d] = None] ELSE busy, busy)

\* Online, known by name, not busy, not excluded; the nearest is asked.
FindAvailableDrivers(e) ==
  {d \in (online \intersect known) \ e.exclude : busy[d] = None}

\* Mutant: the trip is put back without being put on the list.
waitingSet(e) ==
  /\ waiting' = {f \in waiting : f.trip # e.trip} \union {e}
  /\ UNCHANGED listed

\* SET and SADD.
waitingStore(e) ==
  /\ waiting' \in Outcomes({f \in waiting : f.trip # e.trip} \union {e}, waiting)
  /\ listed' \in Outcomes(listed \union {e.trip}, listed)

\* A trip that has no entry is not taken off the list.
waitingDelete(t) ==
  /\ waiting' \in Outcomes({f \in waiting : f.trip # t}, waiting)
  /\ listed' \in Outcomes(listed \ {e.trip : e \in {f \in waiting : f.trip = t}}, listed)

PendingOf(t) == {p \in pending : p.trip = t}
Store(p) == pending' = (pending \ PendingOf(p.trip)) \union {p}

\* LoadAndDelete and, unless the timer has passed its select, cancel.
TakeAndCancel(t) ==
  /\ pending' = pending \ PendingOf(t)
  /\ asleep' = asleep \ PendingOf(t)

-----------------------------------------------------------------------------
(* Searches *)

\* The goroutine is done with one trip: its message is committed, or comes
\* again, or it goes on with the other waiting trips.
EndJob(w, again) ==
  /\ worker' = [worker EXCEPT ![w] = IF @.from = "kafka" THEN Idle
                                     ELSE [pc |-> "match", todo |-> @.todo]]
  /\ LET m == Search(worker[w].event.trip, worker[w].event.exclude) IN
     inbox' \in {inbox} \union
                (IF worker[w].from = "kafka" /\ again THEN {inbox \union {m}} ELSE {})

\* No search begins that could exceed the bound MaxOffers.
MayBegin == offers + Cardinality(Working) < MaxOffers

\* What FindAvailableDrivers finds decides how the search goes on.
Begin(w, e, src, rest) ==
  LET found == FindAvailableDrivers(e) IN
  \E d \in IF found = {} THEN {None} ELSE found :
    worker' = [worker EXCEPT ![w] =
                 [pc |-> IF d = None THEN "none" ELSE "picked", event |-> e,
                  driver |-> d, from |-> src, todo |-> rest]]

\* A trip.event.created or driver_not_interested message.
handleFindAndNotifyDrivers(w, m) ==
  /\ worker[w].pc = "idle"
  /\ m.kind = "search"
  /\ MayBegin
  /\ inbox' = inbox \ {m}
  /\ Begin(w, m.event, "kafka", {})
  /\ UNCHANGED <<redis, pending, timers, wake, leaving, offers, outside>>

\* SMEMBERS of the trips that wait.
startMatching(w) ==
  /\ worker[w].pc = "idle"
  /\ wake > 0
  /\ wake' = wake - 1
  /\ worker' = [worker EXCEPT ![w] = [pc |-> "match", todo |-> listed]]
  /\ UNCHANGED <<redis, pending, timers, leaving, offers, inbox, outside>>

Claimed(w, e) ==
  worker' = [worker EXCEPT ![w] = [pc |-> "claimed", event |-> e, driver |-> None,
                                   from |-> "waiting", todo |-> @.todo \ {e.trip}]]

\* Mutant: GET in place of GETDEL, so that two goroutines claim one trip.
waitingGet(w) ==
  /\ worker[w].pc = "match"
  /\ \E t \in worker[w].todo :
       \/ MayBegin /\ \E e \in waiting : e.trip = t /\ Claimed(w, e)
       \/ /\ \A e \in waiting : e.trip # t
          /\ worker' = [worker EXCEPT ![w] = [pc |-> "gone", trip |-> t, todo |-> @.todo \ {t}]]
  /\ UNCHANGED <<redis, pending, timers, wake, leaving, offers, inbox, outside>>

\* A GETDEL: the trip is this goroutine's, or another has it already, or its
\* reply was lost, which is taken for the same.
waitingClaim(w) ==
  /\ worker[w].pc = "match"
  /\ \E t \in worker[w].todo :
       \/ /\ MayBegin
          /\ \E e \in waiting : e.trip = t /\ waiting' = waiting \ {e} /\ Claimed(w, e)
       \/ /\ "redis" \in Disturbances \/ \A e \in waiting : e.trip # t
          /\ worker' = [worker EXCEPT ![w] = [pc |-> "gone", trip |-> t, todo |-> @.todo \ {t}]]
          /\ waiting' \in Outcomes({e \in waiting : e.trip # t}, waiting)
  /\ UNCHANGED <<known, online, busy, listed, pending, timers, wake, leaving, offers, inbox,
                 outside>>

\* The trip is taken off the list either way; a search begins if it was claimed.
TryMatchWaiting(w) ==
  /\ \/ /\ worker[w].pc = "claimed"
        /\ listed' \in Outcomes(listed \ {worker[w].event.trip}, listed)
        /\ Begin(w, worker[w].event, "waiting", worker[w].todo)
     \/ /\ worker[w].pc = "gone"
        /\ listed' \in Outcomes(listed \ {worker[w].trip}, listed)
        /\ worker' = [worker EXCEPT ![w] = [pc |-> "match", todo |-> @.todo]]
  /\ UNCHANGED <<known, online, busy, waiting, pending, timers, wake, leaving, offers, inbox,
                 outside>>

endMatching(w) ==
  /\ worker[w] = [pc |-> "match", todo |-> {}]
  /\ worker' = [worker EXCEPT ![w] = Idle]
  /\ UNCHANGED <<redis, pending, timers, wake, leaving, offers, inbox, outside>>

\* Nobody found: the trip waits, and the search is over but for its report.
storeWaiting(w) ==
  /\ worker[w].pc = "none"
  /\ waitingStore(worker[w].event)
  /\ worker' = [worker EXCEPT ![w] = IF @.from = "kafka" THEN [@ EXCEPT !.pc = "stored"]
                                     ELSE [pc |-> "match", todo |-> @.todo]]
  /\ UNCHANGED <<known, online, busy, pending, timers, wake, leaving, offers, inbox, outside>>

\* A search from Kafka tells the rider; when that publish fails the message is
\* tried again although the trip waits.
publishNoDriversFound(w) ==
  /\ worker[w].pc = "stored"
  /\ EndJob(w, Disturbances \intersect {"replay", "broker"} # {})
  /\ UNCHANGED <<redis, pending, timers, wake, leaving, offers, outside>>

notifyDriver(w) ==
  /\ worker[w].pc = "picked"
  /\ requested' = requested \union {<<worker[w].event.trip, worker[w].driver>>}
  /\ worker' = [worker EXCEPT ![w].pc = "notified"]
  /\ UNCHANGED <<redis, pending, timers, wake, leaving, offers, inbox, phase, assignee>>

\* A search from Kafka fails and is tried again, or given up in the end; a
\* waiting trip is put back.
notifyFails(w) ==
  /\ "broker" \in Disturbances
  /\ worker[w].pc = "picked"
  /\ IF worker[w].from = "waiting" THEN waitingStore(worker[w].event)
                                   ELSE UNCHANGED queue
  /\ EndJob(w, TRUE)
  /\ UNCHANGED <<known, online, busy, pending, timers, wake, leaving, offers, outside>>

SetBusy(w) ==
  /\ worker[w].pc = "notified"
  /\ busy' \in Outcomes([busy EXCEPT ![worker[w].driver] = worker[w].event.trip], busy)
  /\ worker' = [worker EXCEPT ![w].pc = "marked"]
  /\ UNCHANGED <<known, online, queue, pending, timers, wake, leaving, offers, inbox, outside>>

\* The entry replaces the trip's former one, whose timer is not cancelled.
spawnTimer(w) ==
  /\ worker[w].pc = "marked"
  /\ LET e == worker[w].event
         o == [id |-> offers, trip |-> e.trip, driver |-> worker[w].driver,
               exclude |-> e.exclude]
     IN  Store(o) /\ asleep' = asleep \union {o}
  /\ offers' = offers + 1
  /\ EndJob(w, "replay" \in Disturbances)
  /\ UNCHANGED <<redis, fired, restoring, expiring, wake, leaving, outside>>

-----------------------------------------------------------------------------
(* startResponseTimer *)

\* 15 seconds have passed; from here on a cancel comes too late.
fire(o) ==
  /\ o \in asleep
  /\ asleep' = asleep \ {o}
  /\ fired' = fired \union {o}
  /\ UNCHANGED <<redis, pending, restoring, expiring, goroutines, offers, inbox, outside>>

\* Mutant: Load in place of LoadAndDelete.
loadPending(o) ==
  /\ o \in fired
  /\ fired' = fired \ {o}
  /\ expiring' = expiring \union {[timer |-> o, taken |-> p, pc |-> "clear"] :
                                    p \in {q \in PendingOf(o.trip) : q.driver = o.driver}}
  /\ UNCHANGED <<redis, pending, asleep, restoring, goroutines, offers, inbox, outside>>

\* Mutant: the test for another driver's offer the wrong way round.
takeOthers(o) ==
  /\ o \in fired
  /\ fired' = fired \ {o}
  /\ pending' = pending \ PendingOf(o.trip)
  /\ LET other == {p \in PendingOf(o.trip) : p.driver # o.driver} IN
     /\ expiring' = expiring \union {[timer |-> o, taken |-> p, pc |-> "clear"] : p \in other}
     /\ restoring' = restoring \union (PendingOf(o.trip) \ other)
  /\ UNCHANGED <<redis, asleep, goroutines, offers, inbox, outside>>

\* LoadAndDelete: nothing, the driver's own offer, or another driver's.
takePending(o) ==
  /\ o \in fired
  /\ fired' = fired \ {o}
  /\ pending' = pending \ PendingOf(o.trip)
  /\ LET own == {p \in PendingOf(o.trip) : p.driver = o.driver} IN
     /\ expiring' = expiring \union {[timer |-> o, taken |-> p, pc |-> "clear"] : p \in own}
     /\ restoring' = restoring \union (PendingOf(o.trip) \ own)
  /\ UNCHANGED <<redis, asleep, goroutines, offers, inbox, outside>>

restore(p) ==
  /\ p \in restoring
  /\ restoring' = restoring \ {p}
  /\ Store(p)
  /\ UNCHANGED <<redis, asleep, fired, expiring, goroutines, offers, inbox, outside>>

\* Mutant: the cleanup runs under the timer's own, cancelled context.
clearCancelled(x) ==
  /\ x \in expiring
  /\ x.pc = "clear"
  /\ expiring' = (expiring \ {x}) \union {[x EXCEPT !.pc = "retry"]}
  /\ UNCHANGED <<redis, pending, asleep, fired, restoring, goroutines, offers, inbox, outside>>

clearTimedOut(x) ==
  /\ x \in expiring
  /\ x.pc = "clear"
  /\ ClearBusy(x.timer.driver, x.timer.trip)
  /\ expiring' = (expiring \ {x}) \union {[x EXCEPT !.pc = "retry"]}
  /\ UNCHANGED <<known, online, queue, pending, asleep, fired, restoring, goroutines,
                 offers, inbox, outside>>

\* Mutant: the driver who did not answer is not excluded.
publishUnchanged(x) ==
  /\ x \in expiring
  /\ x.pc = "retry"
  /\ inbox' \in {inbox \union {Search(x.timer.trip, x.timer.exclude)}}
                  \union (IF "broker" \in Disturbances THEN {inbox} ELSE {})
  /\ expiring' = expiring \ {x}
  /\ asleep' = asleep \ {x.taken}
  /\ UNCHANGED <<redis, pending, fired, restoring, goroutines, offers, outside>>

\* The search goes on without the driver; a failed publish is ignored.
publishRetry(x) ==
  /\ x \in expiring
  /\ x.pc = "retry"
  /\ inbox' \in {inbox \union {Search(x.timer.trip, x.timer.exclude \union {x.timer.driver})}}
                  \union (IF "broker" \in Disturbances THEN {inbox} ELSE {})
  /\ expiring' = expiring \ {x}
  /\ asleep' = asleep \ {x.taken}
  /\ UNCHANGED <<redis, pending, fired, restoring, goroutines, offers, outside>>

-----------------------------------------------------------------------------
(* The other consumers *)

Committed(m) ==
  inbox' \in {inbox \ {m}} \union (IF "replay" \in Disturbances THEN {inbox} ELSE {})

\* Whoever answers, the trip's offer is taken and its timer cancelled.
handleDriverResponse(m) ==
  /\ m.kind \in {"accept", "decline"}
  /\ TakeAndCancel(m.trip)
  /\ IF m.kind = "decline" THEN ClearBusy(m.driver, m.trip) ELSE UNCHANGED busy
  /\ Committed(m)
  /\ UNCHANGED <<known, online, queue, fired, restoring, expiring, goroutines, offers, outside>>

\* tryMatchFreedDriver: a driver without hash or position wakes nobody.
wakeFor(d) ==
  wake' \in (IF d \in known THEN {wake + 1} ELSE {}) \union (IF d \in online THEN {} ELSE {wake})

handleTripCancelled(m) ==
  /\ m.kind = "cancelled"
  /\ waitingDelete(m.trip)
  /\ TakeAndCancel(m.trip)
  /\ \/ \E p \in PendingOf(m.trip) : ClearBusy(p.driver, m.trip) /\ UNCHANGED wake
     \/ PendingOf(m.trip) = {} /\ m.driver # None /\ ClearBusy(m.driver, m.trip)
          /\ wake < MaxWake /\ wakeFor(m.driver)
     \/ PendingOf(m.trip) = {} /\ m.driver = None /\ UNCHANGED <<busy, wake>>
  /\ Committed(m)
  /\ UNCHANGED <<known, online, fired, restoring, expiring, worker, leaving, offers, outside>>

handleTripCompleted(m) ==
  /\ m.kind = "completed"
  /\ ClearBusy(m.driver, m.trip)
  /\ wake < MaxWake
  /\ wakeFor(m.driver)
  /\ Committed(m)
  /\ UNCHANGED <<known, online, queue, pending, timers, worker, leaving, offers, outside>>

-----------------------------------------------------------------------------
(* gRPC calls of the gateway *)

Registered(d) == known' = known \union {d} /\ online' = online \union {d}

\* A driver not marked busy looks for waiting trips a little later.
RegisterIdle(d) ==
  /\ busy[d] = None
  /\ Registered(d)
  /\ wake < MaxWake
  /\ wake' = wake + 1
  /\ UNCHANGED <<busy, queue, pending, timers, worker, leaving, offers, inbox, outside>>

\* ExtendTimerForDriver finds the driver's offer: the old timer is cancelled
\* and the new one, a child of the call's context, ends when the call returns.
\* The reminder that follows repeats a request already made.
RegisterExtending(d) ==
  /\ "reconnect" \in Disturbances
  /\ offers < MaxOffers
  /\ \E p \in PendingOf(busy[d]) :
       /\ p.driver = d
       /\ Store([p EXCEPT !.id = offers])
       /\ asleep' = asleep \ {p}
  /\ offers' = offers + 1
  /\ Registered(d)
  /\ UNCHANGED <<busy, queue, fired, restoring, expiring, goroutines, inbox, outside>>

\* It does not: another driver's offer is put back, and the busy mark cleared.
RegisterClearing(d) ==
  /\ "reconnect" \in Disturbances
  /\ busy[d] # None
  /\ \A p \in PendingOf(busy[d]) : p.driver # d
  /\ pending' = pending \ PendingOf(busy[d])
  /\ restoring' = restoring \union PendingOf(busy[d])
  /\ ClearBusy(d, busy[d])
  /\ Registered(d)
  /\ wake < MaxWake
  /\ wake' = wake + 1
  /\ UNCHANGED <<queue, asleep, fired, expiring, worker, leaving, offers, inbox, outside>>

RegisterDriver(d) == RegisterIdle(d) \/ RegisterExtending(d) \/ RegisterClearing(d)

\* GoOffline, or the heartbeat expires and a search reaps the driver: out of
\* the geo set, and the hash is to go if its busy field is empty just now.
GoOffline(d) ==
  /\ "offline" \in Disturbances
  /\ d \in online
  /\ online' = online \ {d}
  /\ leaving' = leaving \union (IF busy[d] = None THEN {d} ELSE {})
  /\ UNCHANGED <<known, busy, queue, pending, timers, worker, wake, offers, inbox, outside>>

deleteHash(d) ==
  /\ d \in leaving
  /\ leaving' = leaving \ {d}
  /\ known' = known \ {d}
  /\ busy' = [busy EXCEPT ![d] = None]
  /\ UNCHANGED <<online, queue, pending, timers, worker, wake, offers, inbox, outside>>

\* A position sent over the location stream.
UpdateLocation(d) ==
  /\ d \in known \ online
  /\ online' = online \union {d}
  /\ UNCHANGED <<known, busy, queue, pending, timers, goroutines, offers, inbox, outside>>

\* The replica restarts: the map, the timers and the waiting trips a goroutine
\* had claimed are lost, the messages being handled are not.
Crash ==
  /\ "crash" \in Disturbances
  /\ pending' = {} /\ asleep' = {} /\ fired' = {} /\ restoring' = {} /\ expiring' = {}
  /\ inbox' = inbox \union {Search(worker[w].event.trip, worker[w].event.exclude) :
                              w \in {v \in Working \union Stored : worker[v].from = "kafka"}}
  /\ worker' = [w \in Worker |-> Idle]
  /\ wake' = 0
  /\ leaving' = {}
  /\ UNCHANGED <<redis, offers, outside>>

-----------------------------------------------------------------------------
(* The environment *)

Send(M) ==
  /\ Cardinality(inbox) < MaxLag
  /\ inbox' = inbox \union M
  /\ UNCHANGED <<redis, pending, timers, goroutines, offers, requested>>

CreateTrip(t) ==
  /\ phase[t] = "new"
  /\ phase' = [phase EXCEPT ![t] = "searching"]
  /\ UNCHANGED assignee
  /\ Send({Search(t, {})})

\* In time: the driver's timer runs.
InTime(t, d) == \E o \in asleep : o.trip = t /\ o.driver = d

Answers(t, d) == IF "stray" \in Disturbances THEN <<t, d>> \in requested ELSE InTime(t, d)

\* The trip service takes the first acceptance of an open trip.
DriverAccepts(t, d) ==
  /\ Answers(t, d)
  /\ IF phase[t] = "searching"
     THEN phase' = [phase EXCEPT ![t] = "taken"] /\ assignee' = [assignee EXCEPT ![t] = d]
     ELSE UNCHANGED <<phase, assignee>>
  /\ Send({About("accept", t, d)})

\* Its handler of declines asks for another search, whatever the trip's state.
DriverDeclines(t, d) ==
  /\ "decline" \in Disturbances
  /\ Answers(t, d)
  /\ UNCHANGED <<phase, assignee>>
  /\ Send({About("decline", t, d), Search(t, {d})})

\* Rider, driver or search timeout; the message names the driver if the app
\* knows one, and is sent although the trip service refuses a ride under way.
TripIsCancelled(t) ==
  /\ phase[t] \in {"searching", "taken"}
  /\ phase' \in {[phase EXCEPT ![t] = "over"]}
                  \union (IF phase[t] = "taken" THEN {phase} ELSE {})
  /\ UNCHANGED assignee
  /\ \E d \in {None, assignee[t]} : Send({About("cancelled", t, d)})

TripCompletes(t) ==
  /\ phase[t] = "taken"
  /\ phase' = [phase EXCEPT ![t] = "over"]
  /\ UNCHANGED assignee
  /\ Send({About("completed", t, assignee[t])})

-----------------------------------------------------------------------------

Goroutine(w) ==
  \/ startMatching(w) \/ waitingClaim(w) \/ TryMatchWaiting(w) \/ endMatching(w)
  \/ storeWaiting(w) \/ publishNoDriversFound(w) \/ notifyDriver(w) \/ notifyFails(w)
  \/ SetBusy(w) \/ spawnTimer(w)

Searches ==
  \E w \in Worker :
    \/ \E m \in inbox : handleFindAndNotifyDrivers(w, m)
    \/ Goroutine(w)

TimerSteps ==
  \/ \E o \in asleep : fire(o)
  \/ \E o \in fired : takePending(o)
  \/ \E p \in restoring : restore(p)
  \/ \E x \in expiring : clearTimedOut(x) \/ publishRetry(x)

Consumers ==
  \E m \in inbox : handleDriverResponse(m) \/ handleTripCancelled(m) \/ handleTripCompleted(m)

Calls ==
  \E d \in Driver : RegisterDriver(d) \/ GoOffline(d) \/ deleteHash(d) \/ UpdateLocation(d)

Environment ==
  \E t \in Trip :
    \/ CreateTrip(t) \/ TripIsCancelled(t) \/ TripCompletes(t)
    \/ \E d \in Driver : DriverAccepts(t, d) \/ DriverDeclines(t, d)

Next == Searches \/ TimerSteps \/ Consumers \/ Calls \/ Crash \/ Environment

\* Timers and searches that have begun run; drivers, riders and messages may
\* stay away.
Fairness == WF_vars(TimerSteps) /\ \A w \in Worker : WF_vars(Goroutine(w))

Spec == Init /\ [][Next]_vars
FairSpec == Spec /\ Fairness

-----------------------------------------------------------------------------
(* Properties *)

\* Where the search of a trip is carried on: messages, goroutines, waiting
\* entries, offers (waiting or being put back) and timers at their end.  An
\* entry whose trip is not listed is looked at by nobody: it is struck.
Messages(t) == {m \in inbox : m.kind = "search" /\ m.event.trip = t}
Jobs(t) == {w \in Working : worker[w].event.trip = t}
Entries(t) == {e \in waiting : e.trip = t}
Offered(t) == {p \in pending \union restoring : p.trip = t}
Endings(t) == {x \in expiring : x.timer.trip = t}

Waits(t) == Entries(t) # {} /\ t \in listed
Struck(t) == Entries(t) # {} /\ t \notin listed

Carried(t) ==
  \/ Messages(t) # {} \/ Jobs(t) # {} \/ Waits(t) \/ Offered(t) # {} \/ Endings(t) # {}

Carriers(t) ==
  Cardinality(Messages(t)) + Cardinality(Jobs(t)) + (IF Waits(t) THEN Cardinality(Entries(t)) ELSE 0)
    + Cardinality(Offered(t)) + Cardinality(Endings(t))

\* While a trip is open exactly one message, goroutine, waiting and listed
\* entry, offer or timer carries its search on, so that it is never offered to
\* two drivers at once; or none does, and then its entry has been struck (the
\* hand-overs of consumer.go: waitingStore and waitingClaim, spawnTimer,
\* startResponseTimer, ExtendTimerForDriver, publishRetry).
SearchHasOneCarrier ==
  \A t \in Trip : phase[t] = "searching" => Carriers(t) = IF Struck(t) THEN 0 ELSE 1

\* An entry is struck in one way only: a goroutine that had found none takes
\* the trip off the list when another has put it back (the SRem at
\* consumer.go:326 after the waitingStore at 333).
StruckByCleanUp ==
  [][\A t \in Trip :
       ~ Struck(t) /\ Struck(t)' => \E w \in Worker : worker[w].pc = "gone" /\ worker[w].trip = t]_vars

\* Messages that come again may double a search; they never make it forgotten
\* (handleFindAndNotifyDrivers, handleDriverResponse and handleTripCancelled,
\* handled twice or after a driver came back): unless its entry is struck, some
\* carrier goes on with it.
SearchIsCarried == \A t \in Trip : phase[t] = "searching" => Carried(t) \/ Struck(t)

\* LoadAndDelete gives an offer to one goroutine: it is in the map, or being
\* put back, or being timed out by one timer, never two of these.
OfferIsOwnedOnce ==
  /\ pending \intersect restoring = {}
  /\ \A x \in expiring : x.taken \notin pending \union restoring
  /\ \A x, y \in expiring : x.taken = y.taken => x = y
  /\ \A p, q \in pending : p.trip = q.trip => p = q

\* Every offer ends: answered, cancelled, replaced or timed out.
OfferEnds ==
  \A n \in 0 .. MaxOffers :
    (\E p \in pending : p.id = n) ~> ~ \E p \in pending : p.id = n

\* A driver who does not answer is free again while the trip is still open
\* (startResponseTimer clears the mark before it asks for another search).
SilentDriverIsFreed ==
  \A t \in Trip, d \in Driver :
    busy[d] = t /\ phase[t] = "searching" ~> ~ (busy[d] = t /\ phase[t] = "searching")

\* Whom the request for a trip is with: a driver who was just told of it, has an
\* offer, or did not answer in time and is not yet excluded.
Told(t) == {worker[w].driver : w \in {v \in Jobs(t) : worker[v].pc \in {"notified", "marked"}}}
Asked(t) ==
  Told(t) \union {p.driver : p \in Offered(t)} \union {x.timer.driver : x \in Endings(t)}

\* The promise of AskingContract, read off the goroutines, the map and the timers.
Asking == INSTANCE AskingContract WITH
  opened <- {t \in Trip : phase[t] # "new"},
  asked <- [t \in Trip |-> Asked(t)]

ImplementsAsking == Asking!Spec
=============================================================================

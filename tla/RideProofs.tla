------------------------------ MODULE RideProofs ------------------------------
(***************************************************************************)
(* Theorems about Ride, for any number of connections, trips, riders and   *)
(* simulated rides: first the simulator, then the index, then the sockets. *)
(***************************************************************************)
EXTENDS Ride, FiniteSetTheorems, TLAPS

-----------------------------------------------------------------------------
(* The simulator *)

\* What a step of the whole does to the simulator.
SimStep ==
  \/ \E t \in Trip : Sim!Start(t) \/ Sim!Stop(t)
  \/ \E r \in Sim!Run : Sim!Advance(r) \/ Sim!Quit(r) \/ Sim!Leave(r)
  \/ Sim!Forget
  \/ UNCHANGED sim

LEMMA StepOfSimulator == [RideNext]_rideVars => SimStep
<1> SUFFICES ASSUME [RideNext]_rideVars PROVE SimStep
  OBVIOUS
<1>1. CASE UNCHANGED tripVars
  BY <1>1 DEF SimStep, tripVars
<1>2. ASSUME NEW t \in Trip, Accept(t) \/ StopRide(t) PROVE SimStep
  BY <1>2 DEF SimStep, Accept, StopRide
<1>3. ASSUME NEW t \in Trip, \/ \E r \in Rider : Search(t, r)
                             \/ Cancel(t) \/ Complete(t)
      PROVE  SimStep
  BY <1>3 DEF SimStep, Search, Cancel, Complete
<1>4. ASSUME NEW r \in Sim!Run, Drive(r) \/ Simulate(r) PROVE SimStep
  BY <1>4 DEF SimStep, Drive, Simulate
<1>5. CASE DriverServiceStops \/ FollowTrips
  BY <1>5 DEF SimStep, DriverServiceStops, FollowTrips
<1> QED
  BY <1>1, <1>2, <1>3, <1>4, <1>5 DEF RideNext, TripsNext, rideVars

\* Goroutines are numbered as they start.
Contiguous == \A r, q \in Sim!Run : leg[r] # "none" /\ q < r => leg[q] # "none"

\* An entry is of the last goroutine that started for its trip.
EntryIsLatest ==
  \A t \in Trip : active[t] # Sim!NoRun =>
    /\ leg[active[t]] # "none" /\ drives[active[t]] = t
    /\ \A r \in Sim!Run : leg[r] # "none" /\ drives[r] = t => r <= active[t]

\* What CanBeStopped says of the goroutines that drive, of the leaving too: one
\* that nobody stopped deletes its own entry, or that of a goroutine after it,
\* if the one before both was stopped.
EntryOrStopped ==
  \A r \in Sim!Run \ stopped : leg[r] \notin {"none", "ended"} =>
    \/ active[drives[r]] = r
    \/ \E q \in stopped : q < r /\ drives[q] = drives[r] /\ leg[q] = "ended"

Entries == Contiguous /\ EntryIsLatest /\ EntryOrStopped
SimInv == Sim!SimTypeOK /\ Entries

LEMMA SimInit == Sim!SimInit => SimInv
BY RideAssumption
DEF Sim!SimInit, SimInv, Entries, Sim!SimTypeOK, Contiguous, EntryIsLatest, EntryOrStopped,
    Sim!Run, Sim!NoRun, Sim!After

LEMMA SimTypeStep == Sim!SimTypeOK /\ SimStep => Sim!SimTypeOK'
<1> SUFFICES ASSUME Sim!SimTypeOK, SimStep PROVE Sim!SimTypeOK'
  OBVIOUS
<1> USE DEF Sim!SimTypeOK
<1>0. /\ DOMAIN Sim!After = {"approach", "pickup", "route"}
      /\ \A l \in DOMAIN Sim!After : Sim!After[l] \in {"pickup", "route", "leaving"}
  BY DEF Sim!After
<1>1. ASSUME NEW t \in Trip, Sim!Start(t) PROVE Sim!SimTypeOK'
  BY <1>0, <1>1 DEF Sim!Start, Sim!Begin
<1>2. ASSUME NEW t \in Trip, Sim!Stop(t) PROVE Sim!SimTypeOK'
  BY <1>2 DEF Sim!Stop
<1>3. ASSUME NEW r \in Sim!Run, Sim!Advance(r) PROVE Sim!SimTypeOK'
  BY <1>0, <1>3 DEF Sim!Advance, Sim!Driving
<1>4. ASSUME NEW r \in Sim!Run, Sim!Quit(r) PROVE Sim!SimTypeOK'
  BY <1>0, <1>4 DEF Sim!Quit, Sim!Driving
<1>5. ASSUME NEW r \in Sim!Run, Sim!Leave(r) PROVE Sim!SimTypeOK'
  BY <1>5 DEF Sim!Leave
<1>6. CASE Sim!Forget
  BY <1>6 DEF Sim!Forget
<1>7. CASE UNCHANGED sim
  BY <1>7 DEF sim
<1> QED
  BY <1>1, <1>2, <1>3, <1>4, <1>5, <1>6, <1>7 DEF SimStep

LEMMA EntriesStep == SimInv /\ SimStep => Entries'
<1> SUFFICES ASSUME SimInv, SimStep PROVE Entries'
  OBVIOUS
<1>0. Sim!SimTypeOK /\ Sim!SimTypeOK'
  BY SimTypeStep DEF SimInv
<1> USE DEF SimInv, Entries, Contiguous, EntryIsLatest, EntryOrStopped
<1>1. ASSUME NEW t \in Trip, Sim!Start(t) PROVE Entries'
  <2> PICK r \in Sim!Run : Sim!Begin(r, t)
    BY <1>1 DEF Sim!Start
  <2>1. /\ leg[r] = "none" /\ \A q \in Sim!Run : q < r => leg[q] # "none"
        /\ active[t] = Sim!NoRun /\ active' = [active EXCEPT ![t] = r]
        /\ drives' = [drives EXCEPT ![r] = t]
        /\ leg' = [leg EXCEPT ![r] = "approach"]
        /\ stopped' = stopped
    BY <1>1 DEF Sim!Start, Sim!Begin
  <2>2. \A q \in Sim!Run : r < q => leg[q] = "none"
    BY <2>1
  <2>3. Contiguous'
    BY <1>0, <2>1, <2>2 DEF Sim!SimTypeOK
  <2>4. EntryIsLatest'
    BY <1>0, <2>1, <2>2 DEF Sim!SimTypeOK, Sim!Run, Sim!NoRun
  <2>5. EntryOrStopped'
    BY <1>0, <2>1, <2>2 DEF Sim!SimTypeOK, Sim!Run, Sim!NoRun
  <2> QED
    BY <2>3, <2>4, <2>5
<1>2. ASSUME NEW t \in Trip, Sim!Stop(t) PROVE Entries'
  BY <1>0, <1>2 DEF Sim!Stop, Sim!SimTypeOK, Sim!NoRun
<1>3. ASSUME NEW r \in Sim!Run, Sim!Advance(r) \/ Sim!Quit(r) PROVE Entries'
  <2>1. /\ leg[r] \notin {"none", "ended"} /\ leg'[r] \notin {"none", "ended"}
        /\ \A q \in Sim!Run : q # r => leg'[q] = leg[q]
        /\ UNCHANGED <<active, drives, stopped>>
    BY <1>0, <1>3
    DEF Sim!Advance, Sim!Quit, Sim!SimTypeOK, Sim!Driving, Sim!After
  <2> QED
    BY <1>0, <2>1 DEF Sim!SimTypeOK, Sim!NoRun
<1>4. ASSUME NEW r \in Sim!Run, Sim!Leave(r) PROVE Entries'
  <2>1. /\ leg[r] = "leaving" /\ drives[r] \in Trip
        /\ leg' = [leg EXCEPT ![r] = "ended"]
        /\ active' = [active EXCEPT ![drives[r]] = Sim!NoRun]
        /\ UNCHANGED <<drives, stopped>>
    BY <1>0, <1>4 DEF Sim!Leave, Sim!SimTypeOK
  <2>2. Contiguous' /\ EntryIsLatest'
    BY <1>0, <2>1 DEF Sim!SimTypeOK, Sim!NoRun
  <2>3. EntryOrStopped'
    <3> SUFFICES ASSUME NEW p \in Sim!Run \ stopped, leg'[p] \notin {"none", "ended"}
                 PROVE  \/ active'[drives[p]] = p
                        \/ \E q \in stopped : /\ q < p /\ drives[q] = drives[p]
                                              /\ leg'[q] = "ended"
      BY <2>1
    <3>1. p # r /\ leg[p] \notin {"none", "ended"} /\ drives[p] \in Trip
      BY <1>0, <2>1 DEF Sim!SimTypeOK
    <3>2. CASE \E q \in stopped : q < p /\ drives[q] = drives[p] /\ leg[q] = "ended"
      BY <1>0, <2>1, <3>2 DEF Sim!SimTypeOK
    <3>3. CASE active[drives[p]] = p /\ drives[p] # drives[r]
      BY <1>0, <2>1, <3>1, <3>3 DEF Sim!SimTypeOK
    <3>4. CASE active[drives[p]] = p /\ drives[p] = drives[r]
      <4>1. r < p
        BY <1>0, <2>1, <3>1, <3>4 DEF Sim!SimTypeOK, Sim!Run, Sim!NoRun
      <4>2. CASE r \in stopped
        BY <1>0, <2>1, <3>4, <4>1, <4>2 DEF Sim!SimTypeOK
      <4>3. CASE r \notin stopped
        <5> PICK q \in stopped : q < r /\ drives[q] = drives[r] /\ leg[q] = "ended"
          BY <2>1, <3>1, <3>4, <4>3
        <5>1. q \in Sim!Run /\ q < p /\ leg'[q] = "ended"
          BY <1>0, <2>1, <4>1 DEF Sim!SimTypeOK, Sim!Run
        <5> QED
          BY <3>4, <5>1
      <4> QED
        BY <4>2, <4>3
    <3> QED
      BY <3>1, <3>2, <3>3, <3>4
  <2> QED
    BY <2>2, <2>3
<1>5. CASE Sim!Forget
  BY <1>0, <1>5 DEF Sim!Forget, Sim!SimTypeOK, Sim!NoRun
<1>6. CASE UNCHANGED sim
  BY <1>6 DEF sim
<1> QED
  BY <1>1, <1>2, <1>3, <1>4, <1>5, <1>6 DEF SimStep

LEMMA SimInvStep == SimInv /\ SimStep => SimInv'
BY SimTypeStep, EntriesStep DEF SimInv

\* A ride that is being driven can be stopped, unless one that was stopped
\* before it deleted its entry (the deferred Delete of run in simulator.go).
THEOREM RidesCanBeStopped == RideSpec => []DriveCanBeStopped
<1>1. RideInit => SimInv
  BY SimInit DEF RideInit
<1>2. SimInv /\ [RideNext]_rideVars => SimInv'
  BY StepOfSimulator, SimInvStep
<1>3. SimInv => DriveCanBeStopped
  <2> SUFFICES ASSUME SimInv PROVE Sim!CanBeStopped
    BY DEF DriveCanBeStopped
  <2>1. \A r \in Sim!Driving : r \in Sim!Run /\ leg[r] \notin {"none", "ended"}
    BY DEF Sim!Driving, Sim!After
  <2> QED
    BY <2>1 DEF SimInv, Entries, EntryOrStopped, Sim!CanBeStopped
<1> QED
  BY <1>1, <1>2, <1>3, PTL DEF RideSpec

-----------------------------------------------------------------------------
(* The index *)

IndexInv == Index!IndexTypeOK /\ owner \in [Trip -> Rider \union {None}]

\* What an event may be about, by its type.
LEMMA AboutType ==
  ASSUME NEW t \in Trip, NEW r \in Rider \union {None},
         NEW type \in {"created", "completed", "cancelled"}
  PROVE  Index!About(type, t, r) \in Index!Event
BY DEF Index!About, Index!Event

LEMMA HandleStep ==
  ASSUME IndexInv, NEW e \in events, Index!Handle(e), owner' = owner
  PROVE  IndexInv'
<1> USE DEF IndexInv, Index!IndexTypeOK
<1> DEFINE d == IF e.type = "created" THEN Index!IndexTrip(docs[e.trip], e)
                ELSE Index!UpdateTrip(docs[e.trip], e)
<1>1. /\ e \in Index!Event /\ events' \subseteq events
      /\ docs' = [docs EXCEPT ![e.trip] = d]
  BY DEF Index!Handle
<1>2. e.trip \in Trip /\ e.type \in {"created", "completed", "cancelled"}
  BY <1>1 DEF Index!Event
<1>3. docs[e.trip] \in Index!Document
  BY <1>2
<1>4. d \in Index!Document
  BY <1>1, <1>2, <1>3
  DEF Index!IndexTrip, Index!UpdateTrip, Index!Document, Index!Event
<1> HIDE DEF d
<1> QED
  BY <1>1, <1>2, <1>4

\* Documents and events keep their types.
LEMMA IndexStep ==
  ASSUME IndexInv, Sim!SimTypeOK, [RideNext]_rideVars
  PROVE  IndexInv'
<1> USE DEF IndexInv, Index!IndexTypeOK
<1>1. CASE UNCHANGED <<owner, index>>
  BY <1>1 DEF index
<1>2. ASSUME NEW t \in Trip, NEW r \in Rider, Search(t, r) PROVE IndexInv'
  BY <1>2, AboutType DEF Search, Index!Publish
<1>3. ASSUME NEW t \in Trip, NEW type \in {"completed", "cancelled"},
             Index!Publish(type, t, owner[t]), UNCHANGED <<owner, docs>>
      PROVE  IndexInv'
  <2>1. Index!About(type, t, owner[t]) \in Index!Event
    BY AboutType
  <2> QED
    BY <1>3, <2>1 DEF Index!Publish
<1>4. ASSUME NEW r \in Sim!Run, Drive(r) PROVE IndexInv'
  <2>1. leg[r] # "none" /\ drives[r] \in Trip
    BY <1>4 DEF Drive, Sim!Advance, Sim!Driving, Sim!After, Sim!SimTypeOK
  <2>2. UNCHANGED <<owner, docs>>
    BY <1>4 DEF Drive, trips
  <2>3. CASE Index!Publish("completed", drives[r], owner[drives[r]])
    BY <1>3, <2>1, <2>2, <2>3
  <2>4. CASE UNCHANGED events
    BY <1>1, <2>2, <2>4 DEF index
  <2> QED
    BY <1>4, <2>3, <2>4 DEF Drive
<1>5. ASSUME NEW e \in events, Index!HandleFails(e), owner' = owner PROVE IndexInv'
  BY <1>5 DEF Index!HandleFails
<1>6. CASE UNCHANGED tripVars
  BY <1>1, <1>6 DEF tripVars, trips
<1>7. ASSUME NEW t \in Trip, Accept(t) \/ StopRide(t) PROVE IndexInv'
  BY <1>1, <1>7 DEF Accept, StopRide, trips
<1>8. ASSUME NEW t \in Trip, Cancel(t) \/ Complete(t) PROVE IndexInv'
  BY <1>3, <1>8 DEF Cancel, Complete, trips
<1>9. CASE (\E r \in Sim!Run : Simulate(r)) \/ DriverServiceStops
  BY <1>1, <1>9 DEF Simulate, DriverServiceStops, trips
<1>10. CASE FollowTrips
  BY <1>5, <1>10, HandleStep DEF FollowTrips, trips
<1> QED
  BY <1>2, <1>4, <1>6, <1>7, <1>8, <1>9, <1>10 DEF RideNext, TripsNext, rideVars

-----------------------------------------------------------------------------
(* The sockets *)

\* The places of a handler before its connection is added, and those of a
\* driver's until it is greeted.
Arriving == {"new", "register", "add"}
Welcoming == {"find", "wait", "greet"}

Added(r) == {c \in Conn : role[c] = r /\ added[c] # 0}

\* Connections are numbered as they are added.
AddedInOrder ==
  /\ \A c \in Conn : added[c] <= Cardinality(Added(role[c]))
  /\ \A c, d \in Conn : role[c] = role[d] /\ added[c] = added[d] /\ added[c] # 0 => c = d

\* An entry is of the connection that was added last.
EntryIsLast ==
  \A r \in Role : entry[r] # None =>
    /\ role[entry[r]] = r /\ added[entry[r]] # 0
    /\ \A c \in Conn : role[c] = r => added[c] <= added[entry[r]]

\* A handler that has not got to its read loop has no subscriber.
InOrder ==
  \A c \in Conn :
    /\ pc[c] = "new" <=> role[c] = "none"
    /\ pc[c] \in Arriving => added[c] = 0
    /\ pc[c] \in Welcoming => added[c] # 0 /\ role[c] = "driver"
    /\ pc[c] \in Arriving \union Welcoming => sub[c] = "none"

\* A handler greets its own connection or one that was added after it.
GreetsOwnOrLater ==
  \A c \in Conn : pc[c] \in {"wait", "greet"} =>
    \/ target[c] = c
    \/ role[target[c]] = "driver" /\ added[target[c]] > added[c]

Order == AddedInOrder /\ EntryIsLast /\ InOrder /\ GreetsOwnOrLater /\ GreetedUnlessReplaced

\* Notices are counted, and one is written at a time.
InboxIsBounded ==
  \A c \in Conn : inbox[c] <= notices /\ (sub[c] = "writing" => inbox[c] > 0)

\* The next number is free, and small enough.
LEMMA NextNumber ==
  ASSUME TypeOK, NEW c \in Conn, added[c] = 0
  PROVE  /\ Cardinality(Added(role[c])) \in Nat
         /\ NextAdded(role[c]) = Cardinality(Added(role[c])) + 1
         /\ NextAdded(role[c]) \in 0 .. Cardinality(Conn)
         /\ Cardinality(Added(role[c]) \union {c}) = NextAdded(role[c])
<1>1. IsFiniteSet(Conn)
  BY SocketsAssumption, FS_Interval DEF Conn
<1>2. IsFiniteSet(Added(role[c])) /\ Cardinality(Added(role[c])) \in Nat
  BY <1>1, FS_Subset, FS_CardinalityType DEF Added
<1>3. c \notin Added(role[c])
  BY DEF Added
<1>4. Cardinality(Added(role[c]) \union {c}) = Cardinality(Added(role[c])) + 1
  BY <1>2, <1>3, FS_AddElement
<1>5. /\ Cardinality(Conn) \in Nat
      /\ Cardinality(Added(role[c]) \union {c}) <= Cardinality(Conn)
  BY <1>1, FS_Subset, FS_CardinalityType DEF Added
<1>6. NextAdded(role[c]) = Cardinality(Added(role[c])) + 1
  BY DEF NextAdded, Added
<1> QED
  BY <1>2, <1>4, <1>5, <1>6

\* What Stop does keeps the types.
LEMMA StopType ==
  ASSUME TypeOK, InboxIsBounded, Stop, faults' \in 0 .. MaxFaults
  PROVE  TypeOK' /\ InboxIsBounded'
BY SocketsAssumption DEF TypeOK, InboxIsBounded, Stop, Place

\* So does a notice that is published.
LEMMA NoticeType ==
  ASSUME TypeOK, InboxIsBounded, NEW r \in Role, PublishTo(r)
  PROVE  TypeOK' /\ InboxIsBounded'
<1>1. notices' = notices + 1 /\ notices' \in 0 .. MaxNotices
  BY SocketsAssumption DEF PublishTo, TypeOK
<1>2. \A c \in Conn : inbox[c] \in 0 .. MaxNotices /\ inbox[c] <= notices
  BY DEF TypeOK, InboxIsBounded
<1>3. inbox' = [c \in Conn |-> IF role[c] = r /\ tuned[c] THEN inbox[c] + 1 ELSE inbox[c]]
  BY DEF PublishTo
<1>4. \A c \in Conn : /\ inbox'[c] \in 0 .. MaxNotices /\ inbox'[c] <= notices'
                      /\ inbox[c] > 0 => inbox'[c] > 0
  BY <1>1, <1>2, <1>3, SocketsAssumption DEF TypeOK
<1>5. /\ inbox' \in [Conn -> 0 .. MaxNotices]
      /\ UNCHANGED <<handler, socket, table, sub, tuned, jammed, faults>>
  BY <1>3, <1>4 DEF PublishTo
<1> QED
  BY <1>1, <1>4, <1>5
  DEF TypeOK, InboxIsBounded, handler, socket, table

\* And what a subscriber does.
LEMMA SubscriberType ==
  ASSUME TypeOK, InboxIsBounded, NEW c \in Conn,
         \/ Subscribe(c) \/ BeginWrite(c) \/ EndWrite(c)
         \/ Cancelled(c) \/ EndSubscriber(c)
  PROVE  TypeOK' /\ InboxIsBounded'
<1> DEFINE Places == {"none", "relaying", "writing", "returned", "ended"}
<1>1. /\ sub \in [Conn -> Places] /\ tuned \in [Conn -> BOOLEAN]
      /\ open \in [Conn -> BOOLEAN] /\ inbox \in [Conn -> 0 .. MaxNotices]
      /\ notices \in Nat /\ \A d \in Conn : inbox[d] <= notices
      /\ \A d \in Conn : sub[d] = "writing" => inbox[d] > 0
  BY SocketsAssumption DEF TypeOK, InboxIsBounded
<1>2. /\ UNCHANGED <<handler, role, peer, table, counts>>
      /\ \E place \in Places : sub' = [sub EXCEPT ![c] = place]
      /\ \E b \in BOOLEAN : tuned' = [tuned EXCEPT ![c] = b]
      /\ \E b \in BOOLEAN : open' = [open EXCEPT ![c] = b]
      /\ \/ inbox' = inbox /\ (sub'[c] = "writing" => inbox[c] > 0)
         \/ inbox' = [inbox EXCEPT ![c] = @ - 1] /\ sub[c] = "writing" /\ sub'[c] # "writing"
         \/ inbox' = [inbox EXCEPT ![c] = 0] /\ sub'[c] # "writing"
  <2>0. /\ tuned = [tuned EXCEPT ![c] = tuned[c]] /\ tuned[c] \in BOOLEAN
        /\ open = [open EXCEPT ![c] = open[c]] /\ open[c] \in BOOLEAN
        /\ sub = [sub EXCEPT ![c] = sub[c]] /\ sub[c] \in Places
    BY <1>1
  <2>1. CASE Subscribe(c)
    BY <1>1, <2>0, <2>1 DEF Subscribe, socket
  <2>2. CASE BeginWrite(c)
    <3>1. sub'[c] = "writing" /\ inbox[c] > 0
      BY <1>1, <2>2 DEF BeginWrite
    <3> QED
      BY <2>0, <2>2, <3>1 DEF BeginWrite, socket
  <2>3. CASE EndWrite(c)
    <3>1. /\ UNCHANGED <<handler, role, peer, table, counts>> /\ open' = open
          /\ sub[c] = "writing"
      BY <2>3 DEF EndWrite, socket
    <3>2. CASE /\ sub' = [sub EXCEPT ![c] = "relaying"]
               /\ inbox' = [inbox EXCEPT ![c] = @ - 1] /\ tuned' = tuned
      <4>1. sub'[c] # "writing"
        BY <1>1, <3>2
      <4> QED
        BY <2>0, <3>1, <3>2, <4>1
    <3>3. CASE /\ sub' = [sub EXCEPT ![c] = "returned"]
               /\ tuned' = [tuned EXCEPT ![c] = FALSE] /\ inbox' = inbox
      <4>1. sub'[c] # "writing"
        BY <1>1, <3>3
      <4> QED
        BY <2>0, <3>1, <3>3, <4>1
    <3> QED
      BY <2>3, <3>2, <3>3 DEF EndWrite
  <2>4. CASE Cancelled(c)
    <3>1. sub'[c] # "writing"
      BY <1>1, <2>4 DEF Cancelled
    <3> QED
      BY <2>0, <2>4, <3>1 DEF Cancelled, socket
  <2>5. CASE EndSubscriber(c)
    <3>1. sub'[c] # "writing"
      BY <1>1, <2>5 DEF EndSubscriber
    <3> QED
      BY <2>0, <2>5, <3>1 DEF EndSubscriber
  <2> QED
    BY <2>1, <2>2, <2>3, <2>4, <2>5
<1>3. sub' \in [Conn -> Places] /\ \A d \in Conn : d # c => sub'[d] = sub[d]
  BY <1>1, <1>2
<1>4. tuned' \in [Conn -> BOOLEAN] /\ open' \in [Conn -> BOOLEAN]
  BY <1>1, <1>2
<1>5. /\ inbox' \in [Conn -> 0 .. MaxNotices]
      /\ \A d \in Conn : /\ inbox'[d] <= notices
                         /\ sub'[d] = "writing" => inbox'[d] > 0
  <2>1. CASE inbox' = inbox /\ (sub'[c] = "writing" => inbox[c] > 0)
    BY <1>1, <1>3, <2>1
  <2>2. CASE inbox' = [inbox EXCEPT ![c] = @ - 1] /\ sub[c] = "writing" /\ sub'[c] # "writing"
    <3>1. inbox[c] - 1 \in 0 .. MaxNotices /\ inbox[c] - 1 <= notices
      BY <1>1, <2>2, SocketsAssumption
    <3> QED
      BY <1>1, <1>3, <2>2, <3>1
  <2>3. CASE inbox' = [inbox EXCEPT ![c] = 0] /\ sub'[c] # "writing"
    <3>1. 0 \in 0 .. MaxNotices
      BY SocketsAssumption
    <3> QED
      BY <1>1, <1>3, <2>3, <3>1
  <2> QED
    BY <1>2, <2>1, <2>2, <2>3
<1>6. TypeOK'
  BY <1>2, <1>3, <1>4, <1>5 DEF TypeOK, handler, table, counts
<1>7. InboxIsBounded'
  BY <1>2, <1>5 DEF InboxIsBounded, counts
<1> QED
  BY <1>6, <1>7

LEMMA SocketsTypeStep ==
  ASSUME TypeOK, InboxIsBounded, InOrder, [Next]_vars
  PROVE  TypeOK' /\ InboxIsBounded'
<1> DEFINE Kept == TypeOK' /\ InboxIsBounded'
<1> USE DEF TypeOK, InboxIsBounded, handler, socket, table, subscriber, counts, Goto, Place
<1>1. ASSUME NEW c \in Conn, NEW r \in Role, Upgrade(c, r) PROVE Kept
  BY <1>1 DEF Upgrade
<1>2. ASSUME NEW c \in Conn, RegisterDriver(c) PROVE Kept
  BY <1>2 DEF RegisterDriver
<1>3. ASSUME NEW c \in Conn, Add(c) PROVE Kept
  <2>1. role[c] \in Role
    BY <1>3 DEF Add, InOrder
  <2>2. NextAdded(role[c]) \in 0 .. Cardinality(Conn)
    <3>1. added[c] = 0
      BY <1>3 DEF Add, InOrder, Arriving
    <3> QED
      BY <3>1, NextNumber
  <2>3. /\ added' = [added EXCEPT ![c] = NextAdded(role[c])]
        /\ entry' = [entry EXCEPT ![role[c]] = c]
        /\ pc' \in [Conn -> Place] /\ pc'[c] \notin {"wait", "greet"}
        /\ \A d \in Conn : d # c => pc'[d] = pc[d]
        /\ sub' \in [Conn -> {"none", "relaying", "writing", "returned", "ended"}]
        /\ \A d \in Conn : sub'[d] = "writing" => sub[d] = "writing"
        /\ UNCHANGED <<target, greeted, socket, tuned, inbox, counts>>
    BY <1>3 DEF Add
  <2> QED
    BY <2>1, <2>2, <2>3
<1>4. ASSUME NEW c \in Conn, Find(c) PROVE Kept
  BY <1>4 DEF Find, Role
<1>5. ASSUME NEW c \in Conn, BeginGreeting(c) PROVE Kept
  BY <1>5 DEF BeginGreeting
<1>6. ASSUME NEW c \in Conn, EndGreeting(c) PROVE Kept
  BY <1>6 DEF EndGreeting
<1>7. ASSUME NEW c \in Conn, BeginError(c) \/ EndError(c) \/ ReadFails(c) PROVE Kept
  BY <1>7 DEF BeginError, EndError, ReadFails
<1>8. ASSUME NEW c \in Conn, Remove(c) \/ Close(c) PROVE Kept
  <2>1. pc' \in [Conn -> Place] /\ \A d \in Conn : pc'[d] \in {"wait", "greet"} => pc'[d] = pc[d]
    BY <1>8 DEF Remove, Close
  <2>2. entry' \in [Role -> Conn \union {None}]
    BY <1>8 DEF Remove, Close
  <2>3. /\ peer' \in [Conn -> BOOLEAN] /\ open' \in [Conn -> BOOLEAN]
        /\ UNCHANGED <<added, target, greeted, role, subscriber, counts>>
    BY <1>8 DEF Remove, Close
  <2> QED
    BY <2>1, <2>2, <2>3
<1>9. ASSUME NEW c \in Conn,
             \/ Subscribe(c) \/ BeginWrite(c) \/ EndWrite(c)
             \/ Cancelled(c) \/ EndSubscriber(c)
      PROVE  Kept
  BY <1>9, SubscriberType
<1>10. ASSUME NEW c \in Conn, Location(c) PROVE Kept
  BY <1>10, NoticeType DEF Location, Role
<1>11. ASSUME NEW c \in Conn, CommandFails(c) \/ Detune(c) PROVE Kept
  <2>1. faults' \in 0 .. MaxFaults
    BY <1>11, SocketsAssumption DEF CommandFails, Detune, Fault
  <2>2. CASE CommandFails(c)
    BY <2>1, <2>2 DEF CommandFails
  <2>3. CASE Detune(c)
    BY <2>1, <2>3 DEF Detune
  <2> QED
    BY <1>11, <2>2, <2>3
<1>12. ASSUME NEW c \in Conn, Leave(c) PROVE Kept
  BY <1>12 DEF Leave
<1>13. ASSUME NEW c \in Conn, WritesCollide(c) PROVE Kept
  <2>1. CASE \E d \in Greeting(c) :
               /\ Goto(d, "remove") /\ target' = [target EXCEPT ![d] = None]
               /\ UNCHANGED <<greeted, socket, table, subscriber, counts>>
    BY <2>1 DEF Greeting, None
  <2>2. CASE /\ Goto(c, "remove") /\ jammed' = jammed \union {c}
             /\ UNCHANGED <<target, greeted, socket, table, subscriber, notices, faults>>
    BY <2>2
  <2>3. CASE Stop /\ UNCHANGED faults
    BY <2>3, StopType
  <2> QED
    BY <1>13, <2>1, <2>2, <2>3 DEF WritesCollide
<1>14. ASSUME NEW r \in Role, Publish(r) PROVE Kept
  BY <1>14, NoticeType DEF Publish
<1>15. CASE Restart
  BY <1>15, StopType, SocketsAssumption DEF Restart, Fault
<1>16. CASE UNCHANGED vars
  BY <1>16 DEF vars
<1> QED
  BY <1>1, <1>2, <1>3, <1>4, <1>5, <1>6, <1>7, <1>8, <1>9, <1>10, <1>11,
     <1>12, <1>13, <1>14, <1>15, <1>16
  DEF Next, Handler, Subscriber

\* A step that adds and finds no connection, and greets none.
Calm ==
  /\ UNCHANGED <<role, added>> /\ greeted \subseteq greeted'
  /\ \A r \in Role : entry'[r] \in {entry[r], None}
  /\ \A c \in Conn :
       /\ pc'[c] = "new" <=> pc[c] = "new"
       /\ pc'[c] \in Arriving => pc[c] \in Arriving
       /\ pc'[c] \in Welcoming => pc[c] \in Welcoming
       /\ pc'[c] \in {"wait", "greet"} => pc[c] \in {"wait", "greet"} /\ target'[c] = target[c]
       /\ sub[c] = "none" => sub'[c] = "none"
       /\ sub[c] # "none" => sub'[c] # "none"

LEMMA CalmStep == ASSUME TypeOK, Order, Calm PROVE Order'
<1>1. AddedInOrder'
  BY DEF Order, Calm, AddedInOrder, Added
<1>2. EntryIsLast'
  BY DEF Order, Calm, EntryIsLast
<1>3. InOrder'
  BY DEF Order, Calm, InOrder, Arriving, Welcoming
<1>4. GreetsOwnOrLater'
  BY DEF Order, Calm, GreetsOwnOrLater
<1>5. GreetedUnlessReplaced'
  BY DEF Order, Calm, GreetedUnlessReplaced
<1> QED
  BY <1>1, <1>2, <1>3, <1>4, <1>5 DEF Order

\* A new connection has not been added.
LEMMA UpgradeStep ==
  ASSUME TypeOK, Order, NEW c \in Conn, NEW r \in Role, Upgrade(c, r)
  PROVE  Order'
<1>1. /\ pc[c] = "new" /\ role' = [role EXCEPT ![c] = r]
      /\ pc' = [pc EXCEPT ![c] = IF r = "driver" THEN "register" ELSE "add"]
      /\ UNCHANGED <<target, greeted, entry, added, sub>>
  BY DEF Upgrade, Goto, table, subscriber
<1>2. added[c] = 0 /\ sub[c] = "none" /\ role[c] = "none" /\ r \in {"driver", "rider"}
  BY <1>1 DEF Order, InOrder, Arriving, Role
<1>3. /\ role \in [Conn -> Role \union {"none"}] /\ pc \in [Conn -> Place]
      /\ \A d \in Conn : added[d] \in Nat
      /\ entry \in [Role -> Conn \union {None}] /\ target \in [Conn -> Conn \union {None}]
      /\ \A d \in Conn : pc[d] \in {"wait", "greet"} => target[d] # None
  BY DEF TypeOK
<1>4. AddedInOrder'
  <2>1. ASSUME NEW q PROVE Added(q)' = Added(q)
    BY <1>1, <1>2, <1>3 DEF Added
  <2>2. ASSUME NEW d \in Conn PROVE (added[d] <= Cardinality(Added(role[d])))'
    <3>1. CASE d = c
      <4>1. IsFiniteSet(Conn)
        BY SocketsAssumption, FS_Interval DEF Conn
      <4>2. Cardinality(Added(r)) \in Nat
        BY <4>1, FS_Subset, FS_CardinalityType DEF Added
      <4> QED
        BY <1>1, <1>2, <1>3, <2>1, <3>1, <4>2
    <3>2. CASE d # c
      BY <1>1, <1>3, <2>1, <3>2 DEF Order, AddedInOrder
    <3> QED
      BY <3>1, <3>2
  <2> QED
    BY <1>1, <1>2, <1>3, <2>2 DEF Order, AddedInOrder
<1>5. EntryIsLast'
  BY <1>1, <1>2, <1>3 DEF Order, EntryIsLast
<1>6. InOrder'
  BY <1>1, <1>2, <1>3 DEF Order, InOrder, Arriving, Welcoming
<1>7. GreetsOwnOrLater'
  BY <1>1, <1>2, <1>3 DEF Order, GreetsOwnOrLater
<1>8. GreetedUnlessReplaced'
  BY <1>1, <1>2, <1>3 DEF Order, GreetedUnlessReplaced
<1> QED
  BY <1>4, <1>5, <1>6, <1>7, <1>8 DEF Order

\* One that is added has the highest number and the entry.
LEMMA AddStep ==
  ASSUME TypeOK, Order, NEW c \in Conn, Add(c)
  PROVE  Order'
<1>1. /\ pc[c] = "add" /\ entry' = [entry EXCEPT ![role[c]] = c]
      /\ added' = [added EXCEPT ![c] = NextAdded(role[c])]
      /\ pc' = [pc EXCEPT ![c] = IF role[c] = "driver" THEN "find" ELSE "read"]
      /\ sub' = IF role[c] = "driver" THEN sub ELSE [sub EXCEPT ![c] = "relaying"]
      /\ UNCHANGED <<target, greeted, role>>
  BY DEF Add, Goto, socket
<1>2. added[c] = 0 /\ role[c] \in Role
  BY <1>1 DEF TypeOK, Order, InOrder, Arriving
<1>3. /\ pc \in [Conn -> Place] /\ sub \in [Conn -> {"none", "relaying", "writing", "returned", "ended"}]
      /\ added \in [Conn -> 0 .. Cardinality(Conn)] /\ \A d \in Conn : added[d] \in Nat
      /\ entry \in [Role -> Conn \union {None}]
      /\ \A d \in Conn : pc[d] \in {"wait", "greet"} => target[d] \in Conn
  BY DEF TypeOK
<1>4. /\ Cardinality(Added(role[c])) \in Nat
      /\ NextAdded(role[c]) = Cardinality(Added(role[c])) + 1
      /\ Cardinality(Added(role[c]) \union {c}) = NextAdded(role[c])
  BY <1>2, NextNumber
<1>5. /\ added'[c] = NextAdded(role[c]) /\ added'[c] > 0
      /\ \A d \in Conn : d # c => added'[d] = added[d]
      /\ \A d \in Conn : role[d] = role[c] => added[d] < added'[c]
  BY <1>1, <1>3, <1>4 DEF Order, AddedInOrder
<1>6. AddedInOrder'
  <2>1. /\ Added(role[c])' = Added(role[c]) \union {c}
        /\ \A r : r # role[c] => Added(r)' = Added(r)
    BY <1>1, <1>5 DEF Added
  <2>2. ASSUME NEW d \in Conn PROVE (added[d] <= Cardinality(Added(role[d])))'
    <3>1. CASE role[d] = role[c]
      <4>1. added'[d] <= NextAdded(role[c])
        BY <1>3, <1>4, <1>5, <3>1
      <4> QED
        BY <1>1, <1>4, <2>1, <3>1, <4>1
    <3>2. CASE role[d] # role[c]
      BY <1>1, <1>5, <2>1, <3>2 DEF Order, AddedInOrder
    <3> QED
      BY <3>1, <3>2
  <2>3. \A d, e \in Conn : role'[d] = role'[e] /\ added'[d] = added'[e] /\ added'[d] # 0 => d = e
    BY <1>1, <1>3, <1>5 DEF Order, AddedInOrder
  <2> QED
    BY <2>2, <2>3 DEF AddedInOrder
<1>7. EntryIsLast'
  <2> SUFFICES ASSUME NEW r \in Role, entry'[r] # None
               PROVE  /\ role[entry'[r]] = r /\ added'[entry'[r]] # 0
                      /\ \A d \in Conn : role[d] = r => added'[d] <= added'[entry'[r]]
    BY <1>1 DEF EntryIsLast
  <2>1. CASE r = role[c]
    <3>1. entry'[r] = c
      BY <1>1, <1>2, <1>3, <2>1
    <3>2. ASSUME NEW d \in Conn, role[d] = r PROVE added'[d] <= added'[c]
      BY <1>3, <1>4, <1>5, <2>1, <3>2
    <3> QED
      BY <1>3, <1>4, <1>5, <2>1, <3>1, <3>2
  <2>2. CASE r # role[c]
    <3>1. entry'[r] = entry[r] /\ entry[r] \in Conn /\ role[entry[r]] = r
      BY <1>1, <1>3, <2>2 DEF Order, EntryIsLast
    <3> QED
      BY <1>5, <2>2, <3>1 DEF Order, EntryIsLast
  <2> QED
    BY <2>1, <2>2
<1>8. InOrder'
  BY <1>1, <1>2, <1>3, <1>5 DEF Order, InOrder, Arriving, Welcoming, Role
<1>9. GreetsOwnOrLater'
  <2> SUFFICES ASSUME NEW d \in Conn, pc'[d] \in {"wait", "greet"}
               PROVE  \/ target'[d] = d
                      \/ role'[target'[d]] = "driver" /\ added'[target'[d]] > added'[d]
    BY DEF GreetsOwnOrLater
  <2>1. d # c /\ pc[d] \in {"wait", "greet"} /\ target'[d] = target[d] /\ target[d] \in Conn
    BY <1>1, <1>3
  <2>2. target[d] = d \/ (role[target[d]] = "driver" /\ added[target[d]] > added[d])
    BY <2>1 DEF Order, GreetsOwnOrLater
  <2>3. target[d] # d => target[d] # c
    BY <1>2, <1>3, <2>1, <2>2
  <2> QED
    BY <1>1, <1>5, <2>1, <2>2, <2>3
<1>10. GreetedUnlessReplaced'
  <2> SUFFICES ASSUME NEW d \in Conn, role[d] = "driver", sub'[d] # "none"
               PROVE  \/ d \in greeted
                      \/ \E e \in Conn : role[e] = "driver" /\ added'[e] > added'[d]
    BY <1>1 DEF GreetedUnlessReplaced
  <2>1. d # c /\ sub[d] # "none"
    BY <1>1, <1>3 DEF Order, InOrder, Arriving
  <2>2. CASE \E e \in Conn : role[e] = "driver" /\ added[e] > added[d]
    <3> PICK e \in Conn : role[e] = "driver" /\ added[e] > added[d]
      BY <2>2
    <3>1. e # c
      BY <1>2, <1>3
    <3> QED
      BY <1>5, <2>1, <3>1
  <2> QED
    BY <2>1, <2>2 DEF Order, GreetedUnlessReplaced
<1> QED
  BY <1>6, <1>7, <1>8, <1>9, <1>10 DEF Order

\* The entry that is found is the handler's own, or of a connection added since.
LEMMA FindStep ==
  ASSUME TypeOK, Order, NEW c \in Conn, Find(c)
  PROVE  Order'
<1>1. /\ pc[c] = "find" /\ target' = [target EXCEPT ![c] = entry["driver"]]
      /\ pc' = [pc EXCEPT ![c] = IF entry["driver"] = None THEN "remove" ELSE "wait"]
      /\ UNCHANGED <<role, added, entry, sub, greeted>>
  BY DEF Find, Goto, socket, table, subscriber
<1>2. added[c] # 0 /\ role[c] = "driver" /\ sub[c] = "none" /\ "driver" \in Role
  BY <1>1 DEF Order, InOrder, Welcoming, Role
<1>3. /\ pc \in [Conn -> Place] /\ target \in [Conn -> Conn \union {None}]
      /\ \A d \in Conn : added[d] \in Nat
  BY DEF TypeOK
<1>4. AddedInOrder' /\ EntryIsLast' /\ GreetedUnlessReplaced'
  BY <1>1 DEF Order, AddedInOrder, Added, EntryIsLast, GreetedUnlessReplaced
<1>5. InOrder'
  BY <1>1, <1>2, <1>3 DEF Order, InOrder, Arriving, Welcoming
<1>6. GreetsOwnOrLater'
  <2> SUFFICES ASSUME NEW d \in Conn, pc'[d] \in {"wait", "greet"}
               PROVE  \/ target'[d] = d
                      \/ role[target'[d]] = "driver" /\ added[target'[d]] > added[d]
    BY <1>1 DEF GreetsOwnOrLater
  <2>1. CASE d = c
    <3> DEFINE e == entry["driver"]
    <3>1. target'[d] = e /\ e # None /\ e \in Conn
      BY <1>1, <1>2, <1>3, <2>1 DEF TypeOK
    <3>2. /\ role[e] = "driver" /\ added[c] <= added[e]
          /\ added[c] = added[e] => c = e
      BY <1>2, <3>1 DEF Order, EntryIsLast, AddedInOrder
    <3>3. added[c] \in Nat /\ added[e] \in Nat
      BY <1>3, <3>1
    <3> QED
      BY <2>1, <3>1, <3>2, <3>3
  <2>2. CASE d # c
    BY <1>1, <1>3, <2>2 DEF Order, GreetsOwnOrLater
  <2> QED
    BY <2>1, <2>2
<1> QED
  BY <1>4, <1>5, <1>6 DEF Order

\* Whoever has written a greeting greeted itself or was replaced.
LEMMA EndGreetingStep ==
  ASSUME TypeOK, Order, NEW c \in Conn, EndGreeting(c)
  PROVE  Order'
<1>1. /\ pc[c] = "greet"
      /\ target' = [target EXCEPT ![c] = None]
      /\ UNCHANGED <<role, added, entry>>
      /\ \/ /\ greeted' = greeted \union ({c} \intersect {target[c]})
            /\ pc' = [pc EXCEPT ![c] = "read"]
            /\ sub' = [sub EXCEPT ![c] = "relaying"]
         \/ /\ pc' = [pc EXCEPT ![c] = "remove"]
            /\ UNCHANGED <<greeted, sub>>
  BY DEF EndGreeting, Goto, socket, table
<1>2. /\ pc \in [Conn -> Place] /\ target \in [Conn -> Conn \union {None}]
      /\ sub \in [Conn -> {"none", "relaying", "writing", "returned", "ended"}]
      /\ target[c] \in Conn
  BY <1>1 DEF TypeOK
<1>3. \/ target[c] = c
      \/ role[target[c]] = "driver" /\ added[target[c]] > added[c]
  BY <1>1 DEF Order, GreetsOwnOrLater
<1>4. AddedInOrder' /\ EntryIsLast'
  BY <1>1 DEF Order, AddedInOrder, Added, EntryIsLast
<1>5. InOrder'
  BY <1>1, <1>2 DEF Order, InOrder, Arriving, Welcoming
<1>6. GreetsOwnOrLater'
  BY <1>1, <1>2 DEF Order, GreetsOwnOrLater
<1>7. GreetedUnlessReplaced'
  <2> SUFFICES ASSUME NEW d \in Conn, role[d] = "driver", sub'[d] # "none"
               PROVE  \/ d \in greeted'
                      \/ \E e \in Conn : role[e] = "driver" /\ added[e] > added[d]
    BY <1>1 DEF GreetedUnlessReplaced
  <2>1. CASE sub[d] # "none"
    BY <1>1, <2>1 DEF Order, GreetedUnlessReplaced
  <2>2. CASE sub[d] = "none"
    BY <1>1, <1>2, <1>3, <2>2
  <2> QED
    BY <2>1, <2>2
<1> QED
  BY <1>4, <1>5, <1>6, <1>7 DEF Order

\* Stopping is calm.
LEMMA StopIsCalm == TypeOK /\ Stop => Calm
BY DEF TypeOK, Stop, Calm, Arriving, Welcoming

\* So is every step but four.
LEMMA CalmButFour ==
  ASSUME TypeOK, [Next]_vars
  PROVE  \/ Calm
         \/ \E c \in Conn : \/ \E r \in Role : Upgrade(c, r)
                            \/ Add(c) \/ Find(c) \/ EndGreeting(c)
<1> USE DEF TypeOK, handler, socket, table, subscriber, counts, Goto, Place, Arriving, Welcoming
<1>1. ASSUME NEW c \in Conn, RegisterDriver(c) \/ ReadFails(c) PROVE Calm
  BY <1>1 DEF RegisterDriver, ReadFails, Calm
<1>2. ASSUME NEW c \in Conn, BeginGreeting(c) PROVE Calm
  BY <1>2 DEF BeginGreeting, Calm
<1>3. ASSUME NEW c \in Conn, BeginError(c) \/ EndError(c) PROVE Calm
  BY <1>3 DEF BeginError, EndError, Calm
<1>4. ASSUME NEW c \in Conn, Remove(c) \/ Close(c) PROVE Calm
  BY <1>4 DEF Remove, Close, Calm
<1>5. ASSUME NEW c \in Conn, Subscribe(c) \/ BeginWrite(c) \/ EndWrite(c) PROVE Calm
  BY <1>5 DEF Subscribe, BeginWrite, EndWrite, Calm
<1>6. ASSUME NEW c \in Conn, Cancelled(c) \/ EndSubscriber(c) PROVE Calm
  BY <1>6 DEF Cancelled, EndSubscriber, Calm
<1>7. ASSUME NEW c \in Conn, Location(c) \/ Leave(c) \/ Detune(c) PROVE Calm
  BY <1>7 DEF Location, PublishTo, Leave, Detune, Calm
<1>8. ASSUME NEW c \in Conn, CommandFails(c) PROVE Calm
  BY <1>8 DEF CommandFails, Calm
<1>9. ASSUME NEW c \in Conn, WritesCollide(c) PROVE Calm
  <2>1. CASE \E d \in Greeting(c) :
               /\ Goto(d, "remove") /\ target' = [target EXCEPT ![d] = None]
               /\ UNCHANGED <<greeted, socket, table, subscriber, counts>>
    BY <2>1 DEF Greeting, Calm
  <2>2. CASE /\ pc[c] = "answering" /\ Goto(c, "remove")
             /\ UNCHANGED <<target, greeted, socket, table, subscriber, notices, faults>>
    BY <2>2 DEF Calm
  <2>3. CASE Stop
    BY <2>3, StopIsCalm
  <2> QED
    BY <1>9, <2>1, <2>2, <2>3 DEF WritesCollide
<1>10. ASSUME NEW r \in Role, Publish(r) PROVE Calm
  BY <1>10 DEF Publish, PublishTo, Calm
<1>11. CASE Restart
  BY <1>11, StopIsCalm DEF Restart
<1>12. CASE UNCHANGED vars
  BY <1>12 DEF vars, Calm
<1> QED
  BY <1>1, <1>2, <1>3, <1>4, <1>5, <1>6, <1>7, <1>8, <1>9, <1>10, <1>11, <1>12
  DEF Next, Handler, Subscriber

LEMMA OrderStep ==
  ASSUME TypeOK, Order, [Next]_vars
  PROVE  Order'
BY CalmButFour, CalmStep, UpgradeStep, AddStep, FindStep, EndGreetingStep

SocketInv == TypeOK /\ InboxIsBounded /\ Order

LEMMA SocketInit == Init => SocketInv
<1> SUFFICES ASSUME Init PROVE SocketInv
  OBVIOUS
<1>1. IsFiniteSet(Conn) /\ Cardinality(Conn) \in Nat
  BY SocketsAssumption, FS_Interval, FS_CardinalityType DEF Conn
<1>2. TypeOK /\ InboxIsBounded
  BY <1>1, SocketsAssumption DEF Init, TypeOK, InboxIsBounded, Place
<1>3. Added("none") = {} /\ Cardinality({}) = 0
  BY FS_EmptySet DEF Init, Added
<1>4. AddedInOrder
  BY <1>3 DEF Init, AddedInOrder
<1>5. EntryIsLast /\ InOrder /\ GreetsOwnOrLater /\ GreetedUnlessReplaced
  BY DEF Init, EntryIsLast, InOrder, GreetsOwnOrLater, GreetedUnlessReplaced,
         Arriving, Welcoming
<1> QED
  BY <1>2, <1>4, <1>5 DEF SocketInv, Order

LEMMA SocketInvHolds == RideSpec => []SocketInv
<1>1. RideInit => SocketInv
  BY SocketInit DEF RideInit
<1>2. SocketInv /\ [RideNext]_rideVars => SocketInv'
  <2> SUFFICES ASSUME SocketInv, [RideNext]_rideVars PROVE SocketInv'
    OBVIOUS
  <2>1. [Next]_vars
    BY DEF RideNext, rideVars
  <2> QED
    BY <2>1, SocketsTypeStep, OrderStep DEF SocketInv, Order
<1> QED
  BY <1>1, <1>2, PTL DEF RideSpec

\* A driver's connection relays notices only after its own handler has greeted
\* it, unless another was added after it (handleDriversWebSocket).
THEOREM GreetedFirst == RideSpec => []GreetedUnlessReplaced
<1>1. SocketInv => GreetedUnlessReplaced
  BY DEF SocketInv, Order
<1> QED
  BY <1>1, SocketInvHolds, PTL

\* Two writes meet on a socket only when the handler of a connection that was
\* added before greets it (ws.go: mu must be the same mutex).
THEOREM OnlyOlderGreetingsCollide == RideSpec => []CollidesOnlyWhenReplacing
<1>1. SocketInv => CollidesOnlyWhenReplacing
  <2> SUFFICES ASSUME SocketInv, NEW c \in Conn, Holding(c), NEW d \in Greeting(c)
               PROVE  added[d] < added[c]
    BY DEF CollidesOnlyWhenReplacing
  <2>1. d \in Conn /\ pc[d] = "greet" /\ target[d] = c
    BY DEF Greeting
  <2>2. d # c
    BY <2>1 DEF SocketInv, Order, InOrder, Welcoming, Holding
  <2>3. added[c] > added[d]
    BY <2>1, <2>2 DEF SocketInv, Order, GreetsOwnOrLater
  <2> QED
    BY <2>3 DEF SocketInv, TypeOK
<1> QED
  BY <1>1, SocketInvHolds, PTL

-----------------------------------------------------------------------------
(* The whole *)

\* Every step keeps the types of what the sockets do not share.
LEMMA TripsTypeStep ==
  ASSUME owner \in [Trip -> Rider \union {None}], calledOff \subseteq Trip,
         [RideNext]_rideVars
  PROVE  calledOff' \subseteq Trip
<1>1. CASE UNCHANGED calledOff
  BY <1>1
<1>2. ASSUME NEW t \in Trip, Cancel(t) \/ StopRide(t) PROVE calledOff' \subseteq Trip
  BY <1>2 DEF Cancel, StopRide
<1>3. ASSUME NEW t \in Trip, (\E r \in Rider : Search(t, r)) \/ Accept(t) \/ Complete(t)
      PROVE  UNCHANGED calledOff
  BY <1>3 DEF Search, Accept, Complete, trips
<1>4. ASSUME NEW r \in Sim!Run, Drive(r) \/ Simulate(r) PROVE UNCHANGED calledOff
  BY <1>4 DEF Drive, Simulate, trips
<1>5. CASE DriverServiceStops \/ FollowTrips
  BY <1>1, <1>5 DEF DriverServiceStops, FollowTrips, trips
<1>6. CASE UNCHANGED tripVars
  BY <1>1, <1>6 DEF tripVars, trips
<1> QED
  BY <1>1, <1>2, <1>3, <1>4, <1>5, <1>6 DEF RideNext, TripsNext, rideVars

\* Every variable of sockets, simulator, index and trips keeps its type.
THEOREM TypeCorrect == RideSpec => []RideTypeOK
<1> DEFINE Inv == /\ SocketInv /\ SimInv /\ IndexInv
                  /\ scene \in {"sockets", "trips"} /\ calledOff \subseteq Trip
<1>1. RideInit => Inv
  BY SocketInit, SimInit
  DEF RideInit, IndexInv, Index!IndexInit, Index!IndexTypeOK, Index!NoDocument,
      Index!Document
<1>2. Inv /\ [RideNext]_rideVars => Inv'
  <2> SUFFICES ASSUME Inv, [RideNext]_rideVars PROVE Inv'
    OBVIOUS
  <2>1. SocketInv'
    <3>1. [Next]_vars
      BY DEF RideNext, rideVars
    <3> QED
      BY <3>1, SocketsTypeStep, OrderStep DEF SocketInv, Order
  <2>2. SimInv'
    BY StepOfSimulator, SimInvStep
  <2>3. IndexInv'
    BY IndexStep DEF SimInv
  <2>4. calledOff' \subseteq Trip
    BY TripsTypeStep DEF IndexInv
  <2>5. scene' \in {"sockets", "trips"}
    BY DEF RideNext, rideVars
  <2> QED
    BY <2>1, <2>2, <2>3, <2>4, <2>5
<1>3. Inv => RideTypeOK
  BY DEF RideTypeOK, SocketInv, SimInv, IndexInv
<1> QED
  BY <1>1, <1>2, <1>3, PTL DEF RideSpec
===============================================================================

------------------------------ MODULE ChatRooms -------------------------------
(***************************************************************************)
(* The chat of one trip: the gateway records who takes part, the chat      *)
(* service's one replica keeps a room of WebSockets and a subscription to  *)
(* the trip's Redis channel, and MongoDB keeps the messages.  Trips share  *)
(* nothing but the manager's lock.                                         *)
(*                                                                         *)
(* One critical section, Redis command, MongoDB statement or write to a    *)
(* socket is one step.  A room is named after the connection whose Join    *)
(* made it, a message after its place in the store, an event after its     *)
(* place in what was published.  A conversation is shorter than the 50     *)
(* messages of a history.                                                  *)
(***************************************************************************)
EXTENDS Integers, Sequences, FiniteSets

CONSTANTS
  Role,         \* rider and driver
  Conn,         \* connections ever opened, each with a handler of its own
  None,
  MaxMessages,  \* bound on the messages
  MaxEvents,    \* bound on the commands that make an event
  MaxFaults     \* bound on failures of Redis and MongoDB, and restarts

ASSUME NoneAssumption == None \notin Conn
ASSUME BoundsAssumption == MaxMessages \in Nat /\ MaxEvents \in Nat /\ MaxFaults \in Nat

VARIABLES
  participants, \* chat:participants:<trip>
  store,        \* the messages, oldest first
  published,    \* the events of the channel chat:<trip>
  \* RoomManager
  room,         \* rooms[trip], and with it cancels[trip]
  cancelled,    \* rooms whose context is cancelled
  members,      \* the connection each room has for each role
  sub,          \* each room's subscribeRoom goroutine
  inbox,        \* the events it has received and not yet broadcast
  missed,       \* the events lost on its way to Redis
  \* connections
  role,
  pc,           \* where each handler is
  joined,       \* the room it joined
  target,       \* the room it is leaving
  job,          \* the event it is about to publish
  lost,         \* connections whose client is gone
  history,      \* the messages its client was sent on opening
  seen,         \* the events its client was sent since
  faults

manager == <<room, cancelled, members>>
feed == <<sub, inbox, missed>>
client == <<lost, history, seen>>
vars == <<participants, store, published, manager, feed, role, pc, joined,
          target, job, client, faults>>

-----------------------------------------------------------------------------

Message == [from : Role, is : {"unread", "read", "deleted"}]
Event == [kind : {"message", "deleted", "receipt"}, covers : SUBSET (1 .. Len(store))]

Leaving == {"leaving", "left", "emptied"}
Connected == {"greeting", "open"}

TypeOK ==
  /\ participants \subseteq Role
  /\ store \in Seq(Message) /\ Len(store) <= MaxMessages
  /\ published \in Seq(Event)
  /\ room \in Conn \union {None}
  /\ cancelled \subseteq Conn
  /\ members \in [Conn -> [Role -> Conn \union {None}]]
  /\ sub \in [Conn -> {"none", "starting", "listening", "ended"}]
  /\ inbox \in [Conn -> Seq(1 .. Len(published))]
  /\ missed \in [Conn -> SUBSET Nat]
  /\ role \in [Conn -> Role]
  /\ pc \in [Conn -> {"new", "accepted", "joining", "gone"} \union Connected \union Leaving]
  /\ joined \in [Conn -> Conn \union {None}]
  /\ target \in [Conn -> Conn \union {None}]
  /\ job \in [Conn -> Event \union {None}]
  /\ lost \subseteq Conn
  /\ history \in [Conn -> SUBSET (1 .. Len(store))]
  /\ seen \in [Conn -> Seq(1 .. Len(published))]
  /\ faults \in 0 .. MaxFaults
  /\ \A c \in Conn : pc[c] \in Leaving => target[c] # None

Nobody == [r \in Role |-> None]

\* Rider and driver both open the chat at least once.
Init ==
  /\ participants = {} /\ store = << >> /\ published = << >>
  /\ room = None /\ cancelled = {}
  /\ members = [r \in Conn |-> Nobody]
  /\ sub = [r \in Conn |-> "none"]
  /\ inbox = [r \in Conn |-> << >>] /\ missed = [r \in Conn |-> {}]
  /\ role \in {f \in [Conn -> Role] : \A r \in Role : \E c \in Conn : f[c] = r}
  /\ pc = [c \in Conn |-> "new"]
  /\ joined = [c \in Conn |-> None] /\ target = [c \in Conn |-> None]
  /\ job = [c \in Conn |-> None]
  /\ lost = {} /\ history = [c \in Conn |-> {}]
  /\ seen = [c \in Conn |-> << >>]
  /\ faults = 0

Goto(c, place) == pc' = [pc EXCEPT ![c] = place]

\* One more thing fails.
Fault == faults < MaxFaults /\ faults' = faults + 1

\* The handler is done with.
Ends(c) == Goto(c, "gone") /\ target' = [target EXCEPT ![c] = None]

\* The sockets of these clients are gone; a new one shows the history anew.
Forget(C) ==
  /\ lost' = lost \union C
  /\ history' = [c \in Conn |-> IF c \in C THEN {} ELSE history[c]]
  /\ seen' = [c \in Conn |-> IF c \in C THEN << >> ELSE seen[c]]

-----------------------------------------------------------------------------
(* Who takes part *)

\* handleNotification of driver_assigned: SADD of both, for a day.  If it fails,
\* which is only logged, nobody may chat.
handleNotification ==
  /\ participants' = Role
  /\ UNCHANGED <<store, published, manager, feed, role, pc, joined, target,
                 job, client, faults>>

\* handleChat up to the upgrade; everybody else, and everybody while Redis
\* does not answer, is refused.
Open(c) ==
  /\ pc[c] = "new"
  /\ role[c] \in participants
  /\ Goto(c, "accepted")
  /\ UNCHANGED <<participants, store, published, manager, feed, role, joined,
                 target, job, client, faults>>

-----------------------------------------------------------------------------
(* manager.go *)

Make(c) ==
  /\ room' = c
  /\ joined' = [joined EXCEPT ![c] = c]
  /\ sub' = [sub EXCEPT ![c] = "starting"]

\* Mutant: the lock is released between the lookup and the new entry.
JoinUnlocked(c) ==
  /\ pc[c] = "accepted"
  /\ Make(c)
  /\ Goto(c, "joining")
  /\ UNCHANGED <<participants, store, published, cancelled, members, inbox,
                 missed, role, target, job, client, faults>>

\* RoomManager.Join: the room of the trip, or a new one with a subscription.
Join(c) ==
  /\ pc[c] = "accepted"
  /\ \/ room = None /\ Make(c)
     \/ /\ room # None
        /\ joined' = [joined EXCEPT ![c] = room]
        /\ UNCHANGED <<room, sub>>
  /\ Goto(c, "joining")
  /\ UNCHANGED <<participants, store, published, cancelled, members, inbox,
                 missed, role, target, job, client, faults>>

\* Room.join replaces a connection of the same role.
join(c) ==
  /\ pc[c] = "joining"
  /\ members' = [members EXCEPT ![joined[c]][role[c]] = c]
  /\ Goto(c, "greeting")
  /\ UNCHANGED <<participants, store, published, room, cancelled, feed, role,
                 joined, target, job, client, faults>>

\* RoomManager.Leave looks up the room the trip has now.
Leave(c) ==
  /\ pc[c] = "open" /\ c \in lost /\ job[c] = None
  /\ target' = [target EXCEPT ![c] = room]
  /\ Goto(c, IF room = None THEN "gone" ELSE "leaving")
  /\ UNCHANGED <<participants, store, published, manager, feed, role, joined,
                 job, client, faults>>

\* Mutant: a connection that is no member any more has nothing to leave.
leaveOwn(c) ==
  /\ pc[c] = "leaving"
  /\ IF members[target[c]][role[c]] = c
     THEN /\ members' = [members EXCEPT ![target[c]][role[c]] = None]
          /\ Goto(c, "left") /\ UNCHANGED target
     ELSE Ends(c) /\ UNCHANGED members
  /\ UNCHANGED <<participants, store, published, room, cancelled, feed, role,
                 joined, job, client, faults>>

\* Room.leave, whichever connection has the role.
leave(c) ==
  /\ pc[c] = "leaving"
  /\ members' = [members EXCEPT ![target[c]][role[c]] = None]
  /\ Goto(c, "left")
  /\ UNCHANGED <<participants, store, published, room, cancelled, feed, role,
                 joined, target, job, client, faults>>

isEmpty(c) ==
  /\ pc[c] = "left"
  /\ \/ /\ members[target[c]] = Nobody
        /\ Goto(c, "emptied") /\ UNCHANGED target
     \/ members[target[c]] # Nobody /\ Ends(c)
  /\ UNCHANGED <<participants, store, published, manager, feed, role, joined,
                 job, client, faults>>

\* The room the trip has by now is cancelled and deleted.
CloseRoom(c) ==
  /\ pc[c] = "emptied"
  /\ cancelled' = cancelled \union ({room} \ {None})
  /\ room' = None
  /\ Ends(c)
  /\ UNCHANGED <<participants, store, published, members, feed, role, joined,
                 job, client, faults>>

\* subscribeRoom
Subscribe(r) ==
  /\ sub[r] = "starting"
  /\ sub' = [sub EXCEPT ![r] = "listening"]
  /\ UNCHANGED <<participants, store, published, manager, inbox, missed, role,
                 pc, joined, target, job, client, faults>>

Unsubscribe(r) ==
  /\ r \in cancelled /\ sub[r] \in {"starting", "listening"}
  /\ sub' = [sub EXCEPT ![r] = "ended"]
  /\ inbox' = [inbox EXCEPT ![r] = << >>]
  /\ UNCHANGED <<participants, store, published, manager, missed, role, pc,
                 joined, target, job, client, faults>>

\* The members an event is written to, and those whose socket gives an error.
Reached(r) == {members[r][k] : k \in Role} \ (lost \union {None})
Failing(r) == {k \in Role : members[r][k] \in lost}

Hears(C, e) == seen' = [c \in Conn |-> IF c \in C THEN Append(seen[c], e) ELSE seen[c]]

Received(r) == sub[r] = "listening" /\ inbox[r] # << >>

\* Mutant: an error ends the connections of the whole room.
broadcastOrClear(r) ==
  /\ Received(r)
  /\ inbox' = [inbox EXCEPT ![r] = Tail(@)]
  /\ Hears(Reached(r), Head(inbox[r]))
  /\ \/ UNCHANGED members
     \/ Failing(r) # {} /\ members' = [members EXCEPT ![r] = Nobody]
  /\ UNCHANGED <<participants, store, published, room, cancelled, sub, missed,
                 role, pc, joined, target, job, lost, history, faults>>

\* Room.broadcast; a write to a socket whose client is gone may still succeed.
broadcast(r) ==
  /\ Received(r)
  /\ inbox' = [inbox EXCEPT ![r] = Tail(@)]
  /\ Hears(Reached(r), Head(inbox[r]))
  /\ \E F \in SUBSET Failing(r) :
       members' = [members EXCEPT ![r] = [k \in Role |-> IF k \in F THEN None ELSE @[k]]]
  /\ UNCHANGED <<participants, store, published, room, cancelled, sub, missed,
                 role, pc, joined, target, job, lost, history, faults>>

-----------------------------------------------------------------------------
(* handleChat *)

\* The history is sent; without an answer from MongoDB there is none.
GetMessages(c) ==
  /\ pc[c] = "greeting"
  /\ \/ history' = [history EXCEPT ![c] = 1 .. Len(store)] /\ UNCHANGED faults
     \/ UNCHANGED history /\ Fault
  /\ Goto(c, "open")
  /\ UNCHANGED <<participants, store, published, manager, feed, role, joined,
                 target, job, lost, seen>>

\* It is written without the room's lock.  When a broadcast writes to the same
\* socket the connection may panic in the handler, which then ends.
WritesCollide(c) ==
  /\ pc[c] = "greeting"
  /\ \E r \in Conn : Received(r) /\ c \in Reached(r)
  /\ Forget({c})
  /\ Goto(c, "open")
  /\ UNCHANGED <<participants, store, published, manager, feed, role, joined,
                 target, job, faults>>

\* The messages its client has been shown.
Known(c) ==
  history[c] \union
  UNION {published[e].covers : e \in {k \in 1 .. Len(published) :
                                        /\ published[k].kind = "message"
                                        /\ \E i \in 1 .. Len(seen[c]) : seen[c][i] = k}}

\* The handler reads the next command of its client.
Commanded(c) ==
  /\ pc[c] = "open" /\ job[c] = None /\ c \notin lost
  /\ Len(published) + Cardinality({d \in Conn : job[d] # None}) < MaxEvents

Does(c, kind, messages) ==
  job' = [job EXCEPT ![c] = [kind |-> kind, covers |-> messages]]

\* A message that cannot be saved is not published.
Send(c) ==
  /\ Commanded(c)
  /\ Len(store) < MaxMessages
  /\ store' = Append(store, [from |-> role[c], is |-> "unread"])
  /\ Does(c, "message", {Len(store')})
  /\ UNCHANGED <<participants, published, manager, feed, role, pc, joined,
                 target, client, faults>>

\* UpdateMany of the unread messages of these senders.
Marked(s, senders) ==
  [i \in 1 .. Len(s) |->
     IF s[i].is = "unread" /\ s[i].from \in senders THEN [s[i] EXCEPT !.is = "read"] ELSE s[i]]

Others(c) == {i \in Known(c) : store[i].from # role[c]}

\* Mutant: the reader's own messages are marked.
MarkOwnRead(c) ==
  /\ Commanded(c)
  /\ store' = Marked(store, {role[c]})
  /\ Does(c, "receipt", Others(c))
  /\ UNCHANGED <<participants, published, manager, feed, role, pc, joined,
                 target, client, faults>>

\* The event carries, for the properties only, what the reader has been shown.
MarkAllRead(c) ==
  /\ Commanded(c)
  /\ store' = Marked(store, Role \ {role[c]})
  /\ Does(c, "receipt", Others(c))
  /\ UNCHANGED <<participants, published, manager, feed, role, pc, joined,
                 target, client, faults>>

SoftDelete(c) ==
  /\ Commanded(c)
  /\ \E i \in Known(c) :
       /\ store[i].from = role[c] /\ store[i].is # "deleted"
       /\ store' = [store EXCEPT ![i].is = "deleted"]
       /\ Does(c, "deleted", {i})
  /\ UNCHANGED <<participants, published, manager, feed, role, pc, joined,
                 target, client, faults>>

Listening == {r \in Conn : sub[r] = "listening"}

\* Redis gives a published event to the subscriptions S.
Deliver(S) ==
  /\ inbox' = [r \in Conn |-> IF r \in S THEN Append(inbox[r], Len(published')) ELSE inbox[r]]
  /\ missed' = [r \in Conn |-> IF r \in Listening \ S THEN missed[r] \union {Len(published')}
                                                     ELSE missed[r]]

\* Mutant: the event is broadcast in the replica as well.
PublishAndBroadcast(c) ==
  /\ job[c] # None
  /\ published' = Append(published, job[c])
  /\ Deliver(Listening)
  /\ Hears(IF joined[c] = None THEN {} ELSE Reached(joined[c]), Len(published'))
  /\ job' = [job EXCEPT ![c] = None]
  /\ UNCHANGED <<participants, store, manager, sub, role, pc, joined, target,
                 lost, history, faults>>

\* RoomManager.Publish.  If it fails, which is only logged, nobody is sent the
\* event; and Redis forgets what a subscription that has to be made anew was
\* not there to receive.
Publish(c) ==
  /\ job[c] # None
  /\ published' = Append(published, job[c])
  /\ \/ Deliver(Listening) /\ UNCHANGED faults
     \/ (\E S \in SUBSET Listening \ {Listening} : Deliver(S)) /\ Fault
  /\ job' = [job EXCEPT ![c] = None]
  /\ UNCHANGED <<participants, store, manager, sub, role, pc, joined, target,
                 client>>

\* The client closes, reconnects elsewhere, or does not answer the pings; if it
\* does so earlier the handler is none the wiser before it reads.
Lose(c) ==
  /\ pc[c] = "open" /\ c \notin lost
  /\ Forget({c})
  /\ UNCHANGED <<participants, store, published, manager, feed, role, pc,
                 joined, target, job, faults>>

\* The replica restarts, perhaps from a panic in a broadcast.
Restart ==
  /\ \E c \in Conn : pc[c] \notin {"new", "gone"}
  /\ Fault
  /\ room' = None /\ cancelled' = {}
  /\ members' = [r \in Conn |-> Nobody]
  /\ sub' = [r \in Conn |-> "none"]
  /\ inbox' = [r \in Conn |-> << >>] /\ missed' = [r \in Conn |-> {}]
  /\ pc' = [c \in Conn |-> IF pc[c] = "new" THEN "new" ELSE "gone"]
  /\ joined' = [c \in Conn |-> None] /\ target' = [c \in Conn |-> None]
  /\ job' = [c \in Conn |-> None]
  /\ Forget({c \in Conn : pc[c] # "new"})
  /\ UNCHANGED <<participants, store, published, role>>

-----------------------------------------------------------------------------

Next ==
  \/ handleNotification \/ Restart
  \/ \E c \in Conn :
       \/ Open(c) \/ Join(c) \/ join(c)
       \/ Leave(c) \/ leave(c) \/ isEmpty(c) \/ CloseRoom(c)
       \/ GetMessages(c) \/ WritesCollide(c)
       \/ Send(c) \/ MarkAllRead(c) \/ SoftDelete(c) \/ Publish(c) \/ Lose(c)
  \/ \E r \in Conn : Subscribe(r) \/ Unsubscribe(r) \/ broadcast(r)

Spec == Init /\ [][Next]_vars

-----------------------------------------------------------------------------
(* Properties *)

Live(r) == sub[r] \in {"starting", "listening"} /\ r \notin cancelled

\* Rider and driver are never in two rooms at a time: of a trip's
\* subscriptions all but that of the room in the map are cancelled (the lock of
\* RoomManager, held from the lookup in Join to the new entry).
OneLiveRoom == \A r \in Conn : Live(r) => r = room

\* The last to leave closes the room: a room in the map has a handler that
\* will still leave it, however joins, reconnects and leaves overlap
\* (RoomManager.Leave and Room.isEmpty, each under a lock of its own).
RoomHasHandler ==
  room # None =>
    \E c \in Conn : \/ joined[c] = room /\ pc[c] \in {"joining"} \union Connected
                    \/ target[c] = room /\ pc[c] \in Leaving

\* A client is sent what was published, in that order and nothing twice; and
\* once it has been sent something, nothing after it passes by, as long as it
\* is a member of the room: it has been sent, waits in the subscription, or was
\* lost by Redis (subscribeRoom, Room.broadcast).
LiveInOrder ==
  \A c \in Conn : \A i \in 1 .. Len(seen[c]) :
    /\ \A k \in 1 .. i - 1 : seen[c][k] < seen[c][i]
    /\ LET r == joined[c] IN
       members[r][role[c]] = c /\ sub[r] = "listening" =>
         \A e \in seen[c][i] .. Len(published) :
           \/ \E k \in 1 .. Len(seen[c]) : seen[c][k] = e
           \/ \E k \in 1 .. Len(inbox[r]) : inbox[r][k] = e
           \/ e \in missed[r]

\* A receipt is true of all the reader had been shown: each message of the
\* other side is read by then, or deleted (MarkAllRead before Publish).
ReceiptCoversShown ==
  \A k \in 1 .. Len(published) :
    published[k].kind = "receipt" =>
      \A i \in published[k].covers : store[i].is \in {"read", "deleted"}

\* Whoever has opened the chat once is a member of the room joined, whatever
\* happens to the other side's sockets: only a second connection of the same
\* participant takes their place (Room.join, leave and broadcast).
MemberUnlessReplaced ==
  \A c \in Conn :
    pc[c] \in Connected /\ c \notin lost =>
      \/ members[joined[c]][role[c]] = c
      \/ \E d \in Conn \ {c} : role[d] = role[c] /\ joined[d] # None
===============================================================================

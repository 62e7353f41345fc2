-------------------------------- MODULE Sockets --------------------------------
(***************************************************************************)
(* The gateway's WebSockets of a rider and a driver (ws.go), the table of  *)
(* connections (connection_manager.go) and the notices that reach them     *)
(* through Redis (notification_consumer.go).                               *)
(*                                                                         *)
(* A connection has a handler, which registers the driver, greets them and *)
(* then reads commands, and a subscriber, which relays notices; a client   *)
(* that comes back has a new connection, perhaps before the handler of the *)
(* old one knows that it is gone.  A write to a socket takes two steps.    *)
(* Notices are counted: all of one role's wait in the same order.          *)
(*                                                                         *)
(* Who may connect is Sessions; what the published commands do is          *)
(* TripService and Dispatch; that a driver is registered is Dispatch.      *)
(***************************************************************************)
EXTENDS Integers, FiniteSets

CONSTANTS
  MaxConns,   \* bound on connections, which are numbered as they are opened
  MaxNotices, \* bound on notices
  MaxFaults   \* bound on failures of Kafka, Redis and the gateway

ASSUME SocketsAssumption == {MaxConns, MaxNotices, MaxFaults} \subseteq Nat

Role == {"driver", "rider"}
Conn == 1 .. MaxConns
None == 0

VARIABLES
  role,     \* the user each connection is of, "none" before it is opened
  pc,       \* where each connection's handler is
  peer,     \* whether its client is still there
  open,     \* whether the gateway has not closed its socket
  entry,    \* riderConnManager and driverConnManager: one user's entry
  added,    \* when each was added: first, second, ..., or 0
  target,   \* the entry a handler found for its greeting
  greeted,  \* connections greeted by their own handler
  sub,      \* where each subscriber is
  tuned,    \* whether Redis delivers to it
  inbox,    \* notices it has not written
  jammed,   \* connections whose mutex is never unlocked again
  notices,  \* notices published
  faults

table == <<entry, added>>
handler == <<pc, target, greeted>>
socket == <<role, peer, open>>
subscriber == <<sub, tuned, inbox>>
counts == <<jammed, notices, faults>>
vars == <<handler, socket, table, subscriber, counts>>

-----------------------------------------------------------------------------

Place == {"new", "register", "add", "find", "wait", "greet",
          "read", "refused", "answering", "remove", "close", "done"}

TypeOK ==
  /\ role \in [Conn -> Role \union {"none"}]
  /\ pc \in [Conn -> Place]
  /\ peer \in [Conn -> BOOLEAN] /\ open \in [Conn -> BOOLEAN]
  /\ entry \in [Role -> Conn \union {None}]
  /\ added \in [Conn -> 0 .. Cardinality(Conn)]
  /\ target \in [Conn -> Conn \union {None}]
  /\ \A c \in Conn : pc[c] \in {"wait", "greet"} => target[c] # None
  /\ greeted \subseteq Conn
  /\ sub \in [Conn -> {"none", "relaying", "writing", "returned", "ended"}]
  /\ tuned \in [Conn -> BOOLEAN]
  /\ inbox \in [Conn -> 0 .. MaxNotices]
  /\ jammed \subseteq Conn
  /\ notices \in 0 .. MaxNotices
  /\ faults \in 0 .. MaxFaults

Init ==
  /\ role = [c \in Conn |-> "none"]
  /\ pc = [c \in Conn |-> "new"]
  /\ peer = [c \in Conn |-> FALSE] /\ open = [c \in Conn |-> FALSE]
  /\ entry = [r \in Role |-> None] /\ added = [c \in Conn |-> 0]
  /\ target = [c \in Conn |-> None] /\ greeted = {}
  /\ sub = [c \in Conn |-> "none"] /\ tuned = [c \in Conn |-> FALSE]
  /\ inbox = [c \in Conn |-> 0]
  /\ jammed = {} /\ notices = 0 /\ faults = 0

Fault == faults < MaxFaults /\ faults' = faults + 1
Goto(c, place) == pc' = [pc EXCEPT ![c] = place]

\* Who writes to c's socket under the handler's mutex wmu, and who under the
\* mutex of the entry.
Holding(c) == sub[c] = "writing" \/ pc[c] = "answering"
Greeting(c) == {d \in Conn : pc[d] = "greet" /\ target[d] = c}
Free(c) == ~Holding(c) /\ c \notin jammed

-----------------------------------------------------------------------------
(* handleDriversWebSocket and handleRidersWebSocket *)

Upgrade(c, r) ==
  /\ pc[c] = "new" /\ \A d \in Conn : d < c => pc[d] # "new"
  /\ Goto(c, IF r = "driver" THEN "register" ELSE "add")
  /\ role' = [role EXCEPT ![c] = r]
  /\ peer' = [peer EXCEPT ![c] = TRUE] /\ open' = [open EXCEPT ![c] = TRUE]
  /\ UNCHANGED <<target, greeted, table, subscriber, counts>>

\* The call fails, or the breaker refuses it, and the handler returns.  The
\* location stream is opened next; without it the handler goes on.
RegisterDriver(c) ==
  /\ pc[c] = "register"
  /\ Goto(c, "add") \/ Goto(c, "close")
  /\ UNCHANGED <<target, greeted, socket, table, subscriber, counts>>

NextAdded(r) == Cardinality({c \in Conn : role[c] = r /\ added[c] # 0}) + 1

\* Mutant: an entry that exists is kept.
AddOnce(c) ==
  /\ pc[c] = "add"
  /\ entry' = [entry EXCEPT ![role[c]] = IF @ = None THEN c ELSE @]
  /\ added' = [added EXCEPT ![c] = NextAdded(role[c])]
  /\ IF role[c] = "driver" THEN Goto(c, "find") /\ UNCHANGED sub
     ELSE Goto(c, "read") /\ sub' = [sub EXCEPT ![c] = "relaying"]
  /\ UNCHANGED <<target, greeted, socket, tuned, inbox, counts>>

\* Mutant: the driver's subscriber is started as early as the rider's.
AddAndRelay(c) ==
  /\ pc[c] = "add"
  /\ entry' = [entry EXCEPT ![role[c]] = c]
  /\ added' = [added EXCEPT ![c] = NextAdded(role[c])]
  /\ Goto(c, IF role[c] = "driver" THEN "find" ELSE "read")
  /\ sub' = [sub EXCEPT ![c] = "relaying"]
  /\ UNCHANGED <<target, greeted, socket, tuned, inbox, counts>>

\* A driver is greeted before the subscriber is started, a rider is not.
Add(c) ==
  /\ pc[c] = "add"
  /\ entry' = [entry EXCEPT ![role[c]] = c]
  /\ added' = [added EXCEPT ![c] = NextAdded(role[c])]
  /\ IF role[c] = "driver" THEN Goto(c, "find") /\ UNCHANGED sub
     ELSE Goto(c, "read") /\ sub' = [sub EXCEPT ![c] = "relaying"]
  /\ UNCHANGED <<target, greeted, socket, tuned, inbox, counts>>

\* SendMessage looks the user's entry up, which may be another connection's.
Find(c) ==
  /\ pc[c] = "find"
  /\ Goto(c, IF entry["driver"] = None THEN "remove" ELSE "wait")
  /\ target' = [target EXCEPT ![c] = entry["driver"]]
  /\ UNCHANGED <<greeted, socket, table, subscriber, counts>>

BeginGreeting(c) ==
  /\ pc[c] = "wait" /\ Greeting(target[c]) = {}
  /\ Goto(c, "greet")
  /\ UNCHANGED <<target, greeted, socket, table, subscriber, counts>>

\* A write to a closed socket fails; one to a client that is gone may fail.
EndGreeting(c) ==
  LET t == target[c]
  IN /\ pc[c] = "greet"
     /\ \/ /\ open[t]
           /\ greeted' = greeted \union ({c} \intersect {t})
           /\ Goto(c, "read") /\ sub' = [sub EXCEPT ![c] = "relaying"]
        \/ /\ ~(open[t] /\ peer[t])
           /\ Goto(c, "remove") /\ UNCHANGED <<greeted, sub>>
     /\ target' = [target EXCEPT ![c] = None]
     /\ UNCHANGED <<socket, table, tuned, inbox, counts>>

-----------------------------------------------------------------------------
(* The read loop *)

\* To the channel of a user in Redis, which keeps nothing.
PublishTo(r) ==
  /\ notices < MaxNotices /\ notices' = notices + 1
  /\ inbox' = [c \in Conn |-> IF role[c] = r /\ tuned[c] THEN inbox[c] + 1 ELSE inbox[c]]
  /\ UNCHANGED <<handler, socket, table, sub, tuned, jammed, faults>>

\* A location goes to the driver service, whose stream is given up when it
\* fails, and to the rider.
Location(c) ==
  /\ role[c] = "driver" /\ pc[c] = "read" /\ peer[c] /\ open[c]
  /\ PublishTo("rider")

\* A command that cannot be published is answered with an error.
CommandFails(c) ==
  /\ pc[c] = "read" /\ peer[c] /\ open[c]
  /\ Goto(c, "refused") /\ Fault
  /\ UNCHANGED <<target, greeted, socket, table, subscriber, jammed, notices>>

\* sendWSError, which ignores what becomes of its write.
BeginError(c) ==
  /\ pc[c] = "refused" /\ Free(c)
  /\ Goto(c, "answering")
  /\ UNCHANGED <<target, greeted, socket, table, subscriber, counts>>

\* Mutant: the mutex is not unlocked.
EndErrorLocked(c) ==
  /\ pc[c] = "answering"
  /\ Goto(c, "read") /\ jammed' = jammed \union {c}
  /\ UNCHANGED <<target, greeted, socket, table, subscriber, notices, faults>>

EndError(c) ==
  /\ pc[c] = "answering"
  /\ Goto(c, "read")
  /\ UNCHANGED <<target, greeted, socket, table, subscriber, counts>>

\* The socket is closed, or the client has not been heard of for 35 seconds.
ReadFails(c) ==
  /\ pc[c] = "read" /\ ~(peer[c] /\ open[c])
  /\ Goto(c, "remove")
  /\ UNCHANGED <<target, greeted, socket, table, subscriber, counts>>

\* Whatever the entry is by now.
Remove(c) ==
  /\ pc[c] = "remove"
  /\ entry' = [entry EXCEPT ![role[c]] = None]
  /\ Goto(c, "close")
  /\ UNCHANGED <<added, target, greeted, socket, subscriber, counts>>

\* The other deferred calls, of which UnregisterDriver does nothing.
Close(c) ==
  /\ pc[c] = "close"
  /\ Goto(c, "done")
  /\ peer' = [peer EXCEPT ![c] = FALSE] /\ open' = [open EXCEPT ![c] = FALSE]
  /\ UNCHANGED <<target, greeted, role, table, subscriber, counts>>

-----------------------------------------------------------------------------
(* subscribeUserWS *)

\* SUBSCRIBE has reached Redis, at first or after the connection broke.
Subscribe(c) ==
  /\ sub[c] \in {"relaying", "writing"} /\ ~tuned[c]
  /\ tuned' = [tuned EXCEPT ![c] = TRUE]
  /\ UNCHANGED <<handler, socket, table, sub, inbox, counts>>

BeginWrite(c) ==
  /\ sub[c] = "relaying" /\ inbox[c] > 0 /\ Free(c)
  /\ sub' = [sub EXCEPT ![c] = "writing"]
  /\ UNCHANGED <<handler, socket, table, tuned, inbox, counts>>

EndWrite(c) ==
  /\ sub[c] = "writing"
  /\ \/ /\ open[c]
        /\ sub' = [sub EXCEPT ![c] = "relaying"]
        /\ inbox' = [inbox EXCEPT ![c] = @ - 1]
        /\ UNCHANGED tuned
     \/ /\ ~(open[c] /\ peer[c])
        /\ sub' = [sub EXCEPT ![c] = "returned"]
        /\ tuned' = [tuned EXCEPT ![c] = FALSE]
        /\ UNCHANGED inbox
  /\ UNCHANGED <<handler, socket, table, counts>>

\* Mutant: only a failing write ends it.
NotCancelled(c) == FALSE

\* The request's context ends with its handler.
Cancelled(c) ==
  /\ pc[c] = "done" /\ sub[c] = "relaying"
  /\ sub' = [sub EXCEPT ![c] = "returned"]
  /\ tuned' = [tuned EXCEPT ![c] = FALSE]
  /\ UNCHANGED <<handler, socket, table, inbox, counts>>

\* The socket is closed so that the client connects again.
EndSubscriber(c) ==
  /\ sub[c] = "returned"
  /\ sub' = [sub EXCEPT ![c] = "ended"] /\ inbox' = [inbox EXCEPT ![c] = 0]
  /\ open' = [open EXCEPT ![c] = FALSE]
  /\ UNCHANGED <<handler, role, peer, table, tuned, counts>>

-----------------------------------------------------------------------------
(* The environment and what goes wrong *)

\* handleNotification and the simulator.
Publish(r) == PublishTo(r)

\* The client closes the socket, or is cut off.
Leave(c) ==
  /\ peer[c]
  /\ peer' = [peer EXCEPT ![c] = FALSE]
  /\ UNCHANGED <<handler, role, open, table, subscriber, counts>>

\* The connection to Redis breaks; go-redis makes another.
Detune(c) ==
  /\ tuned[c] /\ Fault
  /\ tuned' = [tuned EXCEPT ![c] = FALSE]
  /\ UNCHANGED <<handler, socket, table, sub, inbox, jammed, notices>>

\* All of the gateway's goroutines and sockets end.
Stop ==
  /\ pc' = [c \in Conn |-> IF pc[c] = "new" THEN "new" ELSE "done"]
  /\ sub' = [c \in Conn |-> IF sub[c] = "none" THEN "none" ELSE "ended"]
  /\ entry' = [r \in Role |-> None] /\ target' = [c \in Conn |-> None]
  /\ peer' = [c \in Conn |-> FALSE] /\ open' = [c \in Conn |-> FALSE]
  /\ tuned' = [c \in Conn |-> FALSE] /\ inbox' = [c \in Conn |-> 0]
  /\ UNCHANGED <<role, added, greeted, jammed, notices>>

Restart == Stop /\ Fault

\* Gorilla panics when it sees two writes at once.  net/http recovers the panic
\* of a handler, whose deferred calls run (but sendWSError unlocks nothing);
\* nobody recovers that of a subscriber.
WritesCollide(c) ==
  /\ Greeting(c) # {} /\ Holding(c)
  /\ \/ /\ \E d \in Greeting(c) :
             Goto(d, "remove") /\ target' = [target EXCEPT ![d] = None]
        /\ UNCHANGED <<greeted, socket, table, subscriber, counts>>
     \/ /\ pc[c] = "answering"
        /\ Goto(c, "remove") /\ jammed' = jammed \union {c}
        /\ UNCHANGED <<target, greeted, socket, table, subscriber, notices, faults>>
     \/ sub[c] = "writing" /\ Stop /\ UNCHANGED faults

-----------------------------------------------------------------------------

Handler(c) ==
  \/ RegisterDriver(c) \/ Add(c) \/ Find(c)
  \/ BeginGreeting(c) \/ EndGreeting(c) \/ BeginError(c) \/ EndError(c)
  \/ ReadFails(c) \/ Remove(c) \/ Close(c)

Subscriber(c) ==
  BeginWrite(c) \/ EndWrite(c) \/ Cancelled(c) \/ EndSubscriber(c)

Next ==
  \/ \E c \in Conn, r \in Role : Upgrade(c, r)
  \/ \E c \in Conn : \/ Handler(c) \/ Subscriber(c) \/ Subscribe(c)
                     \/ Location(c) \/ CommandFails(c) \/ Leave(c) \/ Detune(c)
                     \/ WritesCollide(c)
  \/ \E r \in Role : Publish(r)
  \/ Restart

\* Goroutines go on, and a client that is gone is noticed.  Nobody has to
\* connect, to leave, or to send a command.
Fairness == \A c \in Conn : WF_vars(Handler(c)) /\ WF_vars(Subscriber(c))

Spec == Init /\ [][Next]_vars
FairSpec == Spec /\ Fairness

-----------------------------------------------------------------------------
(* Properties *)

\* A driver's connection relays notices only after its own handler has greeted
\* it, unless another was added after it, whatever the ends of connections do
\* to the entry (handleDriversWebSocket: registration, then subscription).
GreetedUnlessReplaced ==
  \A c \in Conn : role[c] = "driver" /\ sub[c] # "none" =>
    c \in greeted \/ \E d \in Conn : role[d] = "driver" /\ added[d] > added[c]

\* Two writes meet on a socket only when the handler of a connection that was
\* added before greets it (ws.go: mu must be the same mutex).
CollidesOnlyWhenReplacing ==
  \A c \in Conn : Holding(c) => \A d \in Greeting(c) : added[d] < added[c]

\* No socket is deaf: a notice that Redis delivered is written to it or the
\* socket is closed, so that the client connects again (handleDriversWebSocket).
NoticeIsWrittenOrClosed ==
  \A c \in Conn : inbox[c] > 0 ~> inbox[c] = 0 \/ ~open[c]

\* Of a connection whose client is gone nothing is left: no goroutine,
\* subscription or entry of its own.
GoneIsForgotten ==
  \A c \in Conn : pc[c] # "new" /\ ~peer[c] ~>
    /\ pc[c] = "done" /\ ~open[c]
    /\ sub[c] \in {"none", "ended"} \/ c \in jammed
    /\ entry[role[c]] # c
================================================================================
